--------------------------- MODULE OrderLifecycle ---------------------------
(***************************************************************************)
(* Everything that writes Order.status through a service or a signal, with *)
(* the stock movements each of those writers makes: checkout, retry and    *)
(* cancellation (cart), the two Celery sweeps (cart, inventory), the       *)
(* callbacks that follow a payment or refund event (payments.pipeline),    *)
(* and the shipment signal (fulfillment).                                  *)
(*                                                                         *)
(* A transaction that locks the order row, re-reads it and then locks the  *)
(* stock rows is one action.  What the code does outside such a            *)
(* transaction is a step of its own: payment_retry reads the status,       *)
(* reserves, and saves the status in three steps; the stale-order sweep    *)
(* works through a list it read earlier; the paperwork of a confirmed      *)
(* order is made after the confirming transaction committed.               *)
(*                                                                         *)
(* The payment, refund and shipment events themselves come from outside    *)
(* this module, at any time their callers could deliver them: module       *)
(* PaymentFlow supplies the payment ones and implements this module.       *)
(***************************************************************************)
EXTENDS StockLedger, FiniteSets

CONSTANTS
    Retriers,       \* web workers that can be inside payment_retry at the same time
    MaxRetries,     \* bound: payment_retry requests of one run
    NoOrder         \* the order of an idle worker

ASSUME RetryAssumption == MaxRetries \in Nat /\ NoOrder \notin Orders

VARIABLES
    status,     \* Order.status, "NONE" before the order exists
    age,        \* created_at against the two cutoffs of the sweeps
    captured,   \* some Payment of the order has been recorded CAPTURED
    docs,       \* the fulfillment records made for the order
    pipeline,   \* the on_payment_captured calls past their commit: <<order, next step>>
    retry,      \* where each payment_retry request stands
    tries,      \* how many payment_retry requests there have been
    sweep       \* the orders cancel_stale_unpaid_orders still has in its list

orderVars == <<status, age, captured, docs, pipeline, retry, tries, sweep>>
vars == <<stockVars, orderVars>>

Status == {"AWAITING_PAYMENT", "PAYMENT_CONFIRMED", "PAYMENT_FAILED", "EXPIRED", "ACCEPTED",
           "PACKED", "SHIPPED", "DELIVERED", "CANCELLED", "REFUNDED", "PARTIALLY_REFUNDED"}
CANCELLABLE_STATUSES == {"AWAITING_PAYMENT", "PAYMENT_FAILED", "PAYMENT_CONFIRMED", "ACCEPTED", "PACKED"}
PAID_STATUSES == {"PAYMENT_CONFIRMED", "ACCEPTED", "PACKED", "SHIPPED", "DELIVERED"}
Unpaid == {"AWAITING_PAYMENT", "PAYMENT_FAILED"}

\* older than: nothing yet, RESERVATION_TIMEOUT_MINUTES, ORDER_CANCEL_TIMEOUT_HOURS
Age == {"fresh", "expirable", "stale"}
Paper == {"invoice", "packing_slip", "shipment"}

Idle == [pc |-> "idle", order |-> NoOrder]

Init ==
    /\ StockInit
    /\ status = [o \in Orders |-> "NONE"]
    /\ age = [o \in Orders |-> "fresh"]
    /\ captured = [o \in Orders |-> FALSE]
    /\ docs = [o \in Orders |-> {}]
    /\ pipeline = {}
    /\ retry = [r \in Retriers |-> Idle]
    /\ tries = 0
    /\ sweep = {}

SetStatus(o, new) == status' = [status EXCEPT ![o] = new]

\* what a transaction on one order, that only moves it and its stock, leaves alone
OthersUnchanged == UNCHANGED <<age, captured, docs, retry, tries>>

-----------------------------------------------------------------------------
(* Checkout and cancellation                                               *)

\* Mutant of checkout: the papers are started with the order and not with its payment.
CheckoutWithPapers(o) ==
    /\ status[o] = "NONE"
    /\ reserve_stock(o)
    /\ SetStatus(o, "AWAITING_PAYMENT")
    /\ pipeline' = pipeline \union {<<o, "invoice">>}
    /\ OthersUnchanged /\ UNCHANGED sweep

\* The atomic block of the checkout view; short stock rolls the whole order back.
checkout(o) ==
    /\ status[o] = "NONE"
    /\ reserve_stock(o)
    /\ SetStatus(o, "AWAITING_PAYMENT")
    /\ OthersUnchanged /\ UNCHANGED <<pipeline, sweep>>

\* Mutant of CancelUnderLock: takes every order that is not waiting for payment for a paid one.
CancelRestoringFailed(o) ==
    /\ status[o] \in CANCELLABLE_STATUSES
    /\ IF status[o] # "AWAITING_PAYMENT" THEN restore_stock_for_cancellation(o)
                                         ELSE release_reservation(o)
    /\ SetStatus(o, "CANCELLED")
    /\ OthersUnchanged /\ UNCHANGED pipeline

\* cancel_order under the order's lock.  The check made before the lock, on the caller's copy,
\* can only refuse.
CancelUnderLock(o) ==
    /\ status[o] \in CANCELLABLE_STATUSES
    /\ IF status[o] \in PAID_STATUSES THEN restore_stock_for_cancellation(o)
                                      ELSE release_reservation(o)
    /\ SetStatus(o, "CANCELLED")
    /\ OthersUnchanged /\ UNCHANGED pipeline

\* asked for by the buyer, in the order admin or on the store dashboard
cancel_order(o) == CancelUnderLock(o) /\ UNCHANGED sweep

AdvanceOrderStatus(o, from, to) ==
    /\ status[o] = from
    /\ SetStatus(o, to)
    /\ OthersUnchanged /\ UNCHANGED <<stockVars, pipeline, sweep>>

accept_order(o) == AdvanceOrderStatus(o, "PAYMENT_CONFIRMED", "ACCEPTED")
mark_order_packed(o) == AdvanceOrderStatus(o, "ACCEPTED", "PACKED")

-----------------------------------------------------------------------------
(* The Celery sweeps                                                       *)

\* Only an unpaid order's age is ever asked for.
GetOlder(o) ==
    /\ status[o] \in Unpaid
    /\ \/ age[o] = "fresh" /\ age' = [age EXCEPT ![o] = "expirable"]
       \/ age[o] = "expirable" /\ age' = [age EXCEPT ![o] = "stale"]
    /\ UNCHANGED <<stockVars, status, captured, docs, pipeline, retry, tries, sweep>>

\* Mutant of release_expired_reservations: the status is not read again under the lock.
ExpireFromTheList(o) ==
    /\ status[o] # "NONE"
    /\ age[o] # "fresh"
    /\ release_reservation(o)
    /\ SetStatus(o, "EXPIRED")
    /\ OthersUnchanged /\ UNCHANGED <<pipeline, sweep>>

\* One round of the loop.  The list it works through is read earlier, but an order only gets
\* older and the status is read again under the lock.
release_expired_reservations(o) ==
    /\ status[o] = "AWAITING_PAYMENT"
    /\ age[o] # "fresh"
    /\ release_reservation(o)
    /\ SetStatus(o, "EXPIRED")
    /\ OthersUnchanged /\ UNCHANGED <<pipeline, sweep>>

\* Mutant of StaleQuery: forgets the orders whose payment failed.
StaleQueryAwaitingOnly ==
    /\ sweep' = sweep \union {o \in Orders : status[o] = "AWAITING_PAYMENT" /\ age[o] = "stale"}
    /\ UNCHANGED <<stockVars, status, age, captured, docs, pipeline, retry, tries>>

StaleQuery ==
    /\ sweep' = sweep \union {o \in Orders : status[o] \in Unpaid /\ age[o] = "stale"}
    /\ UNCHANGED <<stockVars, status, age, captured, docs, pipeline, retry, tries>>

\* One round of the loop of cancel_stale_unpaid_orders: cancel_order, or its ValueError.
StaleVisit(o) ==
    /\ o \in sweep
    /\ sweep' = sweep \ {o}
    /\ \/ CancelUnderLock(o)
       \/ /\ status[o] \notin CANCELLABLE_STATUSES
          /\ UNCHANGED <<stockVars, status, age, captured, docs, pipeline, retry, tries>>

-----------------------------------------------------------------------------
(* payment_retry                                                           *)

RetryAt(r, pc, o) == retry[r].pc = pc /\ retry[r].order = o
MoveRetry(r, pc, o) == retry' = [retry EXCEPT ![r] = [pc |-> pc, order |-> o]]
OnlyRetryMoves == UNCHANGED <<age, captured, docs, pipeline, sweep>>

RetryRead(r, o) ==
    /\ retry[r] = Idle
    /\ status[o] \in Unpaid
    /\ tries < MaxRetries
    /\ tries' = tries + 1
    /\ MoveRetry(r, IF status[o] = "PAYMENT_FAILED" THEN "read" ELSE "pay", o)
    /\ OnlyRetryMoves /\ UNCHANGED <<stockVars, status>>

RetryReserve(r, o) ==
    /\ RetryAt(r, "read", o)
    /\ reserve_stock(o)
    /\ MoveRetry(r, "reserved", o)
    /\ OnlyRetryMoves /\ UNCHANGED <<status, tries>>

\* The save of the copy read at the start: no lock, no second look at the row.
RetrySave(r, o) ==
    /\ RetryAt(r, "reserved", o)
    /\ SetStatus(o, "AWAITING_PAYMENT")
    /\ MoveRetry(r, "pay", o)
    /\ OnlyRetryMoves /\ UNCHANGED <<stockVars, tries>>

\* The request is over: the payment attempt was made, or the stock did not suffice, or the
\* worker died where it stood.
RetryEnd(r) ==
    /\ retry[r] # Idle
    /\ retry' = [retry EXCEPT ![r] = Idle]
    /\ OnlyRetryMoves /\ UNCHANGED <<stockVars, status, tries>>

-----------------------------------------------------------------------------
(* payments.pipeline                                                       *)

\* A Payment row of the order is saved as CAPTURED (payments.services); the pipeline follows.
RecordCapture(o) ==
    /\ status[o] # "NONE"
    /\ captured' = [captured EXCEPT ![o] = TRUE]
    /\ UNCHANGED <<stockVars, status, age, docs, pipeline, retry, tries, sweep>>

\* Mutant of on_payment_captured: no look at the order's status.
CaptureUnguarded(o) ==
    /\ captured[o]
    /\ convert_reservation_to_sale(o)
    /\ SetStatus(o, "PAYMENT_CONFIRMED")
    /\ pipeline' = pipeline \union {<<o, "invoice">>}
    /\ OthersUnchanged /\ UNCHANGED sweep

on_payment_captured(o) ==
    /\ captured[o]
    /\ status[o] = "AWAITING_PAYMENT"
    /\ convert_reservation_to_sale(o)
    /\ SetStatus(o, "PAYMENT_CONFIRMED")
    /\ pipeline' = pipeline \union {<<o, "invoice">>}
    /\ OthersUnchanged /\ UNCHANGED sweep

\* generate_invoice, generate_packing_slip and create_shipment, one after the other; each
\* returns the record that already exists.
MakePaper(o, step) ==
    /\ <<o, step>> \in pipeline
    /\ docs' = [docs EXCEPT ![o] = @ \union {step}]
    /\ pipeline' = (pipeline \ {<<o, step>>}) \union
                   CASE step = "invoice"      -> {<<o, "packing_slip">>}
                     [] step = "packing_slip" -> {<<o, "shipment">>}
                     [] step = "shipment"     -> {}
    /\ UNCHANGED <<stockVars, status, age, captured, retry, tries, sweep>>

\* An exception (a PDF that cannot be built or stored) or a dead worker: the call is not
\* repeated.  The record of the step may already be there.
PipelineDies(o, step) ==
    /\ <<o, step>> \in pipeline
    /\ pipeline' = pipeline \ {<<o, step>>}
    /\ docs' \in {docs, [docs EXCEPT ![o] = @ \union {step}]}
    /\ UNCHANGED <<stockVars, status, age, captured, retry, tries, sweep>>

on_payment_failed(o) ==
    /\ status[o] = "AWAITING_PAYMENT"
    /\ release_reservation(o)
    /\ SetStatus(o, "PAYMENT_FAILED")
    /\ OthersUnchanged /\ UNCHANGED <<pipeline, sweep>>

\* No look at the status the order has: a refund can be made whenever a payment was captured.
on_refund_processed(o) ==
    /\ captured[o]
    /\ \E new \in {"REFUNDED", "PARTIALLY_REFUNDED"} : SetStatus(o, new)
    /\ OthersUnchanged /\ UNCHANGED <<stockVars, pipeline, sweep>>

-----------------------------------------------------------------------------
(* fulfillment.signals                                                     *)

\* Every save of the shipment copies its progress into the order, whatever the order's status.
SyncOrderStatus(o) ==
    /\ "shipment" \in docs[o]
    /\ \E new \in {"SHIPPED", "DELIVERED"} : SetStatus(o, new)
    /\ OthersUnchanged /\ UNCHANGED <<stockVars, pipeline, sweep>>

-----------------------------------------------------------------------------

StaffMovesStock == (Restock \/ Adjust) /\ UNCHANGED orderVars

RetryStep(r) ==
    \/ \E o \in Orders : RetryRead(r, o) \/ RetryReserve(r, o) \/ RetrySave(r, o)
    \/ RetryEnd(r)

OrderStep(o) ==
    \/ checkout(o)
    \/ cancel_order(o)
    \/ accept_order(o)
    \/ mark_order_packed(o)
    \/ GetOlder(o)
    \/ release_expired_reservations(o)
    \/ StaleVisit(o)
    \/ RecordCapture(o)
    \/ on_payment_captured(o)
    \/ on_payment_failed(o)
    \/ on_refund_processed(o)
    \/ SyncOrderStatus(o)
    \/ \E step \in Paper : MakePaper(o, step) \/ PipelineDies(o, step)

Next ==
    \/ \E o \in Orders : OrderStep(o)
    \/ \E r \in Retriers : RetryStep(r)
    \/ StaleQuery
    \/ StaffMovesStock

Spec == Init /\ [][Next]_vars

\* Celery beat starts both sweeps again and again and clocks do not stop; nobody promises that
\* a buyer, a payment or a member of staff ever does anything.
Fairness ==
    /\ WF_vars(StaleQuery)
    /\ \A o \in Orders :
        /\ WF_vars(GetOlder(o))
        /\ WF_vars(release_expired_reservations(o))
        /\ WF_vars(StaleVisit(o))

FairSpec == Spec /\ Fairness

-----------------------------------------------------------------------------
(* Properties                                                              *)

\* The type invariant.
TypeOK ==
    /\ StockTypeOK
    /\ status \in [Orders -> Status \union {"NONE"}]
    /\ age \in [Orders -> Age]
    /\ captured \in [Orders -> BOOLEAN]
    /\ docs \in [Orders -> SUBSET Paper]
    /\ pipeline \in SUBSET (Orders \X Paper)
    /\ retry \in [Retriers -> [pc : {"read", "reserved", "pay"}, order : Orders] \union {Idle}]
    /\ tries \in 0..MaxRetries
    /\ sweep \in SUBSET Orders

\* An order never reaches SHIPPED, or any stage on the way there, without a captured payment
\* (cart/models.py, the docstring of Order), although the shipment signal looks at no status
\* and a retry can put a closed order back to AWAITING_PAYMENT.
ShippedOnlyIfPaid == \A o \in Orders : status[o] \in PAID_STATUSES => captured[o]

\* Cancelling never puts back stock that no sale of the same order took: however captures,
\* retries, sweeps, refunds and the shipment signal interleave, a RESTORED batch is matched by
\* an earlier SOLD batch, and an order that could still be cancelled as paid has one to spare.
RestoredOnlySold ==
    \A o \in Orders :
        /\ restored[o] <= sold[o]
        /\ status[o] \in PAID_STATUSES \intersect CANCELLABLE_STATUSES => restored[o] < sold[o]

\* Stock is never decremented twice for the same order (docs/payments.md, Idempotency).
SoldAtMostOnce == \A o \in Orders : sold[o] <= 1

\* A paid order is not thrown back to one that waits, failed or expired: not by the expiry sweep,
\* whose list may be older than the payment (inventory/tasks.py, the comment on its second look),
\* nor by the failure of an earlier attempt that comes in late (on_payment_failed, "same guard"),
\* after whatever retries and shipment saves.  Only the unlocked save of payment_retry can do it.
PaidOrdersStayPaid ==
    [][\A o \in Orders :
        status[o] \in PAID_STATUSES /\ status'[o] \in Unpaid \union {"EXPIRED"} =>
            \E r \in Retriers : RetryAt(r, "reserved", o)]_vars

\* Two payment_retry requests of one order are not in their read-reserve-save section together.
InRetry(r, o) == RetryAt(r, "read", o) \/ RetryAt(r, "reserved", o)
RetriesDoNotOverlap ==
    \A o \in Orders : \A r1, r2 \in Retriers : InRetry(r1, o) /\ InRetry(r2, o) => r1 = r2

\* An order without a payment does not sit open for good: the sweeps get to it, also when a
\* retry reopens it behind their back (cart/tasks.py, the module docstring).
UnpaidOrdersClose == \A o \in Orders : []<>(status[o] \notin Unpaid)

\* An order that was paid after the sweep read its list is left alone (cart/tasks.py, the
\* comment on the except clause of the loop).
SweepSparesPaidOrders ==
    [][\A o \in Orders : status[o] \in PAID_STATUSES =>
            ~(StaleVisit(o) /\ status'[o] = "CANCELLED")]_vars
=============================================================================
