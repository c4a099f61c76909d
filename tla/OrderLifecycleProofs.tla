------------------------ MODULE OrderLifecycleProofs ------------------------
(***************************************************************************)
(* Proofs about OrderLifecycle, for every set of orders, skus and retrying *)
(* workers and every sequence of checkouts, payments, sweeps and shipments. *)
(***************************************************************************)
EXTENDS OrderLifecycle, StockLedgerProofs

-----------------------------------------------------------------------------
(* The stock side                                                          *)

\* Everything an order does to the stock, it does through the service functions.
LEMMA StepsUseTheServices == [Next]_vars => [StockNext]_stockVars
<1> SUFFICES ASSUME [Next]_vars PROVE StockNext \/ UNCHANGED stockVars
  BY DEF stockVars
<1> USE DEF StockNext
<1>1. ASSUME NEW o \in Orders, CancelUnderLock(o) PROVE StockNext
  BY <1>1 DEF CancelUnderLock
<1>2. ASSUME NEW o \in Orders, OrderStep(o) PROVE StockNext \/ UNCHANGED stockVars
  <2>1. CASE checkout(o)
    BY <2>1 DEF checkout
  <2>2. CASE cancel_order(o)
    BY <1>1, <2>2 DEF cancel_order
  <2>3. CASE accept_order(o) \/ mark_order_packed(o)
    BY <2>3 DEF accept_order, mark_order_packed, AdvanceOrderStatus
  <2>4. CASE GetOlder(o)
    BY <2>4 DEF GetOlder
  <2>5. CASE release_expired_reservations(o)
    BY <2>5 DEF release_expired_reservations
  <2>6. CASE StaleVisit(o)
    BY <1>1, <2>6 DEF StaleVisit
  <2>7. CASE RecordCapture(o)
    BY <2>7 DEF RecordCapture
  <2>8. CASE on_payment_captured(o)
    BY <2>8 DEF on_payment_captured
  <2>9. CASE on_payment_failed(o)
    BY <2>9 DEF on_payment_failed
  <2>10. CASE on_refund_processed(o)
    BY <2>10 DEF on_refund_processed
  <2>11. CASE SyncOrderStatus(o)
    BY <2>11 DEF SyncOrderStatus
  <2>12. CASE \E step \in Paper : MakePaper(o, step) \/ PipelineDies(o, step)
    BY <2>12 DEF MakePaper, PipelineDies
  <2> QED BY <1>2, <2>1, <2>2, <2>3, <2>4, <2>5, <2>6, <2>7, <2>8, <2>9, <2>10, <2>11, <2>12 DEF OrderStep
<1>3. ASSUME NEW r \in Retriers, RetryStep(r) PROVE StockNext \/ UNCHANGED stockVars
  BY <1>3 DEF RetryStep, RetryRead, RetryReserve, RetrySave, RetryEnd
<1>4. CASE StaleQuery
  BY <1>4 DEF StaleQuery
<1>5. CASE StaffMovesStock
  BY <1>5 DEF StaffMovesStock
<1>6. CASE UNCHANGED vars
  BY <1>6 DEF vars, stockVars
<1> QED BY <1>2, <1>3, <1>4, <1>5, <1>6 DEF Next

\* The order lifecycle implements the stock ledger: no interleaving of checkouts, payments, sweeps
\* and staff does to the counters what the services alone could not.
THEOREM LifecycleImplementsStockLedger == Spec => StockSpec
<1>1. Init => StockInit
  BY DEF Init
<1> QED BY <1>1, StepsUseTheServices, PTL DEF Spec, StockSpec

\* Each sku's StockMovement rows sum to its counters in every reachable state of the shop.
THEOREM LifecycleLedgerSums == Spec => []LedgerSumsToCounters
BY LifecycleImplementsStockLedger, StockLedgerCorrect, PTL

\* No interleaving of orders promises more units than the shelf holds; a correction does.
THEOREM LifecycleNeverOversells == Spec => OverReservedOnlyByAdjustment
BY LifecycleImplementsStockLedger, NoOversellByServices, PTL

-----------------------------------------------------------------------------
(* Type correctness                                                        *)

\* The stock conjunct has been proved with the ledger; the rest is about the order variables.
OrderTypeOK ==
    /\ status \in [Orders -> Status \union {"NONE"}]
    /\ age \in [Orders -> Age]
    /\ captured \in [Orders -> BOOLEAN]
    /\ docs \in [Orders -> SUBSET Paper]
    /\ pipeline \in SUBSET (Orders \X Paper)
    /\ retry \in [Retriers -> [pc : {"read", "reserved", "pay"}, order : Orders] \union {Idle}]
    /\ tries \in 0..MaxRetries
    /\ sweep \in SUBSET Orders

LEMMA OrderTypeInit == Init => OrderTypeOK
BY RetryAssumption DEF Init, OrderTypeOK, Age

\* Moving one order to a known status keeps the type of status.
LEMMA SetStatusType ==
    ASSUME OrderTypeOK, NEW o \in Orders, NEW new \in Status, SetStatus(o, new)
    PROVE  status' \in [Orders -> Status \union {"NONE"}]
BY DEF OrderTypeOK, SetStatus

LEMMA OrderTypeStep == OrderTypeOK /\ [Next]_vars => OrderTypeOK'
<1> SUFFICES ASSUME OrderTypeOK, [Next]_vars PROVE OrderTypeOK'
  OBVIOUS
<1>0. /\ {"AWAITING_PAYMENT", "PAYMENT_CONFIRMED", "PAYMENT_FAILED", "EXPIRED", "ACCEPTED", "PACKED",
          "SHIPPED", "DELIVERED", "CANCELLED", "REFUNDED", "PARTIALLY_REFUNDED"} \subseteq Status
      /\ {"fresh", "expirable", "stale"} \subseteq Age
      /\ {"invoice", "packing_slip", "shipment"} \subseteq Paper
  BY DEF Status, Age, Paper
<1>1. ASSUME NEW o \in Orders, OrderStep(o) PROVE OrderTypeOK'
  <2>1. CASE checkout(o)
    BY <1>0, <2>1, SetStatusType DEF checkout, OthersUnchanged, OrderTypeOK
  <2>2. CASE CancelUnderLock(o) /\ sweep' \in {sweep, sweep \ {o}}
    BY <1>0, <2>2, SetStatusType DEF CancelUnderLock, OthersUnchanged, OrderTypeOK
  <2>3. CASE accept_order(o) \/ mark_order_packed(o)
    BY <1>0, <2>3, SetStatusType DEF accept_order, mark_order_packed, AdvanceOrderStatus, OthersUnchanged, OrderTypeOK
  <2>4. CASE GetOlder(o)
    BY <1>0, <2>4 DEF GetOlder, OrderTypeOK
  <2>5. CASE release_expired_reservations(o)
    BY <1>0, <2>5, SetStatusType DEF release_expired_reservations, OthersUnchanged, OrderTypeOK
  <2>6. CASE StaleVisit(o)
    BY <2>2, <2>6 DEF StaleVisit, OrderTypeOK
  <2>7. CASE RecordCapture(o)
    BY <2>7 DEF RecordCapture, OrderTypeOK
  <2>8. CASE on_payment_captured(o)
    BY <1>0, <2>8, SetStatusType DEF on_payment_captured, OthersUnchanged, OrderTypeOK
  <2>9. CASE on_payment_failed(o)
    BY <1>0, <2>9, SetStatusType DEF on_payment_failed, OthersUnchanged, OrderTypeOK
  <2>10. CASE on_refund_processed(o)
    BY <1>0, <2>10, SetStatusType DEF on_refund_processed, OthersUnchanged, OrderTypeOK
  <2>11. CASE SyncOrderStatus(o)
    BY <1>0, <2>11, SetStatusType DEF SyncOrderStatus, OthersUnchanged, OrderTypeOK
  <2>12. ASSUME NEW step \in Paper, MakePaper(o, step) PROVE OrderTypeOK'
    <3>1. docs' \in [Orders -> SUBSET Paper]
      BY <2>12 DEF MakePaper, OrderTypeOK
    <3>2. pipeline' \subseteq Orders \X Paper
      BY <1>0, <2>12 DEF MakePaper, OrderTypeOK, Paper
    <3> QED BY <2>12, <3>1, <3>2 DEF MakePaper, OrderTypeOK
  <2>13. ASSUME NEW step \in Paper, PipelineDies(o, step) PROVE OrderTypeOK'
    BY <2>13 DEF PipelineDies, OrderTypeOK
  <2>14. CASE cancel_order(o)
    BY <2>2, <2>14 DEF cancel_order
  <2> QED BY <1>1, <2>1, <2>3, <2>4, <2>5, <2>6, <2>7, <2>8, <2>9, <2>10, <2>11, <2>12, <2>13, <2>14 DEF OrderStep
<1>2. ASSUME NEW r \in Retriers, RetryStep(r) PROVE OrderTypeOK'
  <2>1. ASSUME NEW o \in Orders, RetryRead(r, o) PROVE OrderTypeOK'
    BY <2>1, RetryAssumption DEF RetryRead, MoveRetry, OnlyRetryMoves, OrderTypeOK
  <2>2. ASSUME NEW o \in Orders, RetryReserve(r, o) PROVE OrderTypeOK'
    BY <2>2 DEF RetryReserve, MoveRetry, OnlyRetryMoves, OrderTypeOK
  <2>3. ASSUME NEW o \in Orders, RetrySave(r, o) PROVE OrderTypeOK'
    BY <1>0, <2>3, SetStatusType DEF RetrySave, MoveRetry, OnlyRetryMoves, OrderTypeOK
  <2>4. CASE RetryEnd(r)
    BY <2>4 DEF RetryEnd, OnlyRetryMoves, OrderTypeOK
  <2> QED BY <1>2, <2>1, <2>2, <2>3, <2>4 DEF RetryStep
<1>3. CASE StaleQuery
  BY <1>3 DEF StaleQuery, OrderTypeOK
<1>4. CASE StaffMovesStock \/ UNCHANGED vars
  BY <1>4 DEF StaffMovesStock, vars, orderVars, OrderTypeOK
<1> QED BY <1>1, <1>2, <1>3, <1>4 DEF Next

\* Every variable keeps its type: in particular a status is one the source names, and no
\* counter of stock goes negative, for every shop.
THEOREM TypeCorrect == Spec => []TypeOK
<1>1. Spec => []OrderTypeOK
  BY OrderTypeInit, OrderTypeStep, PTL DEF Spec
<1>2. Spec => []StockTypeOK
  BY LifecycleImplementsStockLedger, StockLedgerCorrect, PTL
<1>3. StockTypeOK /\ OrderTypeOK <=> TypeOK
  BY DEF TypeOK, OrderTypeOK
<1> QED BY <1>1, <1>2, <1>3, PTL

-----------------------------------------------------------------------------
(* Shipped only if paid                                                    *)

\* SyncOrderStatus looks at the shipment alone, so the invariant has to follow the money into the
\* paperwork: records, and calls that will make one, exist only for a captured order.
PaidInv ==
    \A o \in Orders :
        /\ status[o] \in PAID_STATUSES => captured[o]
        /\ docs[o] # {} => captured[o]
        /\ \A step \in Paper : <<o, step>> \in pipeline => captured[o]

LEMMA PaidInit == Init => PaidInv
BY DEF Init, PaidInv, PAID_STATUSES

LEMMA PaidStep == OrderTypeOK /\ PaidInv /\ [Next]_vars => PaidInv'
<1> SUFFICES ASSUME OrderTypeOK, PaidInv, [Next]_vars PROVE PaidInv'
  OBVIOUS
<1> USE DEF PaidInv, OrderTypeOK, PAID_STATUSES
<1>1. ASSUME NEW o \in Orders, OrderStep(o) PROVE PaidInv'
  <2>1. CASE checkout(o)
    BY <2>1 DEF checkout, SetStatus, OthersUnchanged
  <2>2. CASE CancelUnderLock(o)
    BY <2>2 DEF CancelUnderLock, SetStatus, OthersUnchanged
  <2>3. CASE accept_order(o) \/ mark_order_packed(o)
    BY <2>3 DEF accept_order, mark_order_packed, AdvanceOrderStatus, SetStatus, OthersUnchanged
  <2>4. CASE GetOlder(o)
    BY <2>4 DEF GetOlder
  <2>5. CASE release_expired_reservations(o)
    BY <2>5 DEF release_expired_reservations, SetStatus, OthersUnchanged
  <2>6. CASE StaleVisit(o)
    BY <2>2, <2>6 DEF StaleVisit
  <2>7. CASE RecordCapture(o)
    BY <2>7 DEF RecordCapture
  <2>8. CASE on_payment_captured(o)
    BY <2>8 DEF on_payment_captured, SetStatus, OthersUnchanged
  <2>9. CASE on_payment_failed(o)
    BY <2>9 DEF on_payment_failed, SetStatus, OthersUnchanged
  <2>10. CASE on_refund_processed(o)
    BY <2>10 DEF on_refund_processed, SetStatus, OthersUnchanged
  <2>11. CASE SyncOrderStatus(o)
    BY <2>11 DEF SyncOrderStatus, SetStatus, OthersUnchanged
  <2>12. ASSUME NEW step \in Paper, MakePaper(o, step) PROVE PaidInv'
    <3>1. captured[o]
      BY <2>12 DEF MakePaper
    <3>2. \A x \in Orders : docs'[x] # {} => docs[x] # {} \/ x = o
      BY <2>12 DEF MakePaper
    <3>3. \A x \in Orders, next \in Paper : <<x, next>> \in pipeline' => <<x, next>> \in pipeline \/ x = o
      BY <2>12 DEF MakePaper, Paper
    <3> QED BY <2>12, <3>1, <3>2, <3>3 DEF MakePaper
  <2>13. ASSUME NEW step \in Paper, PipelineDies(o, step) PROVE PaidInv'
    BY <2>13 DEF PipelineDies
  <2>14. CASE cancel_order(o)
    BY <2>2, <2>14 DEF cancel_order
  <2> QED BY <1>1, <2>1, <2>3, <2>4, <2>5, <2>6, <2>7, <2>8, <2>9, <2>10, <2>11, <2>12, <2>13, <2>14 DEF OrderStep
<1>2. ASSUME NEW r \in Retriers, RetryStep(r) PROVE PaidInv'
  BY <1>2 DEF RetryStep, RetryRead, RetryReserve, RetrySave, RetryEnd, OnlyRetryMoves, SetStatus
<1>3. CASE StaleQuery \/ StaffMovesStock \/ UNCHANGED vars
  BY <1>3 DEF StaleQuery, StaffMovesStock, vars, orderVars
<1> QED BY <1>1, <1>2, <1>3 DEF Next

\* No order is shipped, or on its way to it, without a captured payment (cart/models.py, the
\* docstring of Order), for every number of orders, retries and shipment updates.
THEOREM PaidBeforeShipped == Spec => []ShippedOnlyIfPaid
<1>1. PaidInv => ShippedOnlyIfPaid
  BY DEF PaidInv, ShippedOnlyIfPaid
<1>2. Init => OrderTypeOK /\ PaidInv
  BY OrderTypeInit, PaidInit
<1>3. OrderTypeOK /\ PaidInv /\ [Next]_vars => (OrderTypeOK /\ PaidInv)'
  BY OrderTypeStep, PaidStep
<1> QED BY <1>1, <1>2, <1>3, PTL DEF Spec

\* A paid order never waits, fails or expires again except by the unlocked save of payment_retry
\* (cart/views.py): neither the expiry sweep with an old list nor a late failure does it, for every
\* number of orders, retries and shipment updates.
THEOREM PaidStaysPaid == Spec => PaidOrdersStayPaid
<1>1. OrderTypeOK /\ [Next]_vars =>
        [\A o \in Orders : status[o] \in PAID_STATUSES /\ status'[o] \in Unpaid \union {"EXPIRED"} =>
            \E r \in Retriers : RetryAt(r, "reserved", o)]_vars
  <2> SUFFICES ASSUME OrderTypeOK, Next, NEW o \in Orders, status[o] \in PAID_STATUSES,
                      status'[o] \in Unpaid \union {"EXPIRED"}
               PROVE  \E r \in Retriers : RetryAt(r, "reserved", o)
    OBVIOUS
  <2>1. status'[o] # status[o]
    BY DEF PAID_STATUSES, Unpaid
  <2>2. ASSUME NEW p \in Orders, OrderStep(p) PROVE FALSE
    <3>1. \A new : SetStatus(p, new) => p = o /\ new \in Unpaid \union {"EXPIRED"} /\ new = status'[o]
      BY <2>1 DEF SetStatus, OrderTypeOK
    <3>2. UNCHANGED status => FALSE
      BY <2>1
    <3>3. ASSUME cancel_order(p) \/ StaleVisit(p) PROVE FALSE
      BY <3>1, <3>2, <3>3 DEF cancel_order, StaleVisit, CancelUnderLock, Unpaid
    <3>4. ASSUME checkout(p) \/ release_expired_reservations(p) \/ on_payment_captured(p) \/ on_payment_failed(p)
          PROVE  FALSE
      BY <3>1, <3>4 DEF checkout, release_expired_reservations, on_payment_captured, on_payment_failed, PAID_STATUSES
    <3>5. ASSUME accept_order(p) \/ mark_order_packed(p) \/ on_refund_processed(p) \/ SyncOrderStatus(p) PROVE FALSE
      BY <3>1, <3>5 DEF accept_order, mark_order_packed, AdvanceOrderStatus, on_refund_processed, SyncOrderStatus, Unpaid
    <3>6. ASSUME GetOlder(p) \/ RecordCapture(p) \/ \E step \in Paper : MakePaper(p, step) \/ PipelineDies(p, step)
          PROVE  FALSE
      BY <3>2, <3>6 DEF GetOlder, RecordCapture, MakePaper, PipelineDies
    <3> QED BY <2>2, <3>3, <3>4, <3>5, <3>6 DEF OrderStep
  <2>3. ASSUME NEW r \in Retriers, RetryStep(r) PROVE RetryAt(r, "reserved", o)
    <3>1. ASSUME NEW p \in Orders, RetrySave(r, p) PROVE RetryAt(r, "reserved", o)
      BY <2>1, <3>1 DEF RetrySave, SetStatus, OrderTypeOK
    <3>2. ASSUME NEW p \in Orders, RetryRead(r, p) \/ RetryReserve(r, p) PROVE FALSE
      BY <2>1, <3>2 DEF RetryRead, RetryReserve
    <3> QED BY <2>1, <2>3, <3>1, <3>2 DEF RetryStep, RetryEnd
  <2>4. ~(StaleQuery \/ StaffMovesStock)
    BY <2>1 DEF StaleQuery, StaffMovesStock, orderVars
  <2> QED BY <2>2, <2>3, <2>4 DEF Next
<1>2. Init => OrderTypeOK
  BY OrderTypeInit
<1>3. OrderTypeOK /\ [Next]_vars => OrderTypeOK'
  BY OrderTypeStep
<1> QED BY <1>1, <1>2, <1>3, PTL DEF Spec, PaidOrdersStayPaid

-----------------------------------------------------------------------------
(* Restored only what was sold                                             *)

\* What the batches written for an order say, given its status; inductive as it stands.
LEMMA RestoredStep == TypeOK /\ RestoredOnlySold /\ [Next]_vars => RestoredOnlySold'
<1> SUFFICES ASSUME TypeOK, RestoredOnlySold, [Next]_vars PROVE RestoredOnlySold'
  OBVIOUS
<1> USE DEF RestoredOnlySold, TypeOK, StockTypeOK, PAID_STATUSES, CANCELLABLE_STATUSES
<1>1. ASSUME NEW o \in Orders, OrderStep(o) PROVE RestoredOnlySold'
  <2>1. CASE checkout(o)
    BY <2>1 DEF checkout, SetStatus, reserve_stock
  <2>2. CASE CancelUnderLock(o)
    <3>1. CASE status[o] \in PAID_STATUSES
      BY <2>2, <3>1 DEF CancelUnderLock, SetStatus, restore_stock_for_cancellation
    <3>2. CASE status[o] \notin PAID_STATUSES
      BY <2>2, <3>2 DEF CancelUnderLock, SetStatus, release_reservation
    <3> QED BY <3>1, <3>2
  <2>3. CASE accept_order(o) \/ mark_order_packed(o)
    BY <2>3 DEF accept_order, mark_order_packed, AdvanceOrderStatus, SetStatus, stockVars
  <2>4. CASE GetOlder(o)
    BY <2>4 DEF GetOlder, stockVars
  <2>5. CASE release_expired_reservations(o)
    BY <2>5 DEF release_expired_reservations, SetStatus, release_reservation
  <2>6. CASE StaleVisit(o)
    BY <2>2, <2>6 DEF StaleVisit, stockVars
  <2>7. CASE RecordCapture(o)
    BY <2>7 DEF RecordCapture, stockVars
  <2>8. CASE on_payment_captured(o)
    BY <2>8 DEF on_payment_captured, SetStatus, convert_reservation_to_sale
  <2>9. CASE on_payment_failed(o)
    BY <2>9 DEF on_payment_failed, SetStatus, release_reservation
  <2>10. CASE on_refund_processed(o)
    BY <2>10 DEF on_refund_processed, SetStatus, stockVars
  <2>11. CASE SyncOrderStatus(o)
    BY <2>11 DEF SyncOrderStatus, SetStatus, stockVars
  <2>12. CASE \E step \in Paper : MakePaper(o, step) \/ PipelineDies(o, step)
    BY <2>12 DEF MakePaper, PipelineDies, stockVars
  <2>13. CASE cancel_order(o)
    BY <2>2, <2>13 DEF cancel_order
  <2> QED BY <1>1, <2>1, <2>3, <2>4, <2>5, <2>6, <2>7, <2>8, <2>9, <2>10, <2>11, <2>12, <2>13 DEF OrderStep
<1>2. ASSUME NEW r \in Retriers, RetryStep(r) PROVE RestoredOnlySold'
  BY <1>2 DEF RetryStep, RetryRead, RetryReserve, RetrySave, RetryEnd, OnlyRetryMoves, SetStatus,
              reserve_stock, stockVars
<1>3. CASE StaffMovesStock
  BY <1>3 DEF StaffMovesStock, Restock, Adjust, record_restock, record_adjustment, orderVars
<1>4. CASE StaleQuery \/ UNCHANGED vars
  BY <1>4 DEF StaleQuery, vars, orderVars, stockVars
<1> QED BY <1>1, <1>2, <1>3, <1>4 DEF Next

\* A cancellation restores stock only after a sale of the same order took it, and at most once
\* per sale, for every interleaving of captures, retries, sweeps, refunds and shipments.
THEOREM NothingRestoredUnsold == Spec => []RestoredOnlySold
<1>1. Init => RestoredOnlySold
  BY DEF Init, StockInit, RestoredOnlySold, PAID_STATUSES
<1> QED BY <1>1, TypeCorrect, RestoredStep, PTL DEF Spec

-----------------------------------------------------------------------------
(* Sold at most once, as far as it is true                                 *)

\* An order that could still be sold has not been sold, and neither has one that a request is
\* about to put back to AWAITING_PAYMENT.  Two requests inside that section break it.
SoldInv ==
    /\ \A o \in Orders :
        /\ sold[o] <= 1
        /\ status[o] \in {"NONE", "AWAITING_PAYMENT", "PAYMENT_FAILED"} => sold[o] = 0
    /\ \A r \in Retriers, o \in Orders :
        InRetry(r, o) => sold[o] = 0 /\ status[o] \notin {"NONE", "AWAITING_PAYMENT"}

LEMMA SoldInit == Init => SoldInv
BY RetryAssumption DEF Init, StockInit, SoldInv, InRetry, RetryAt, Idle

\* A step that leaves the retries and the sales alone, and moves no order into a status from
\* which it can be sold, keeps the invariant.
LEMMA SoldUnchanged ==
    ASSUME OrderTypeOK, SoldInv, NEW o \in Orders, NEW new, SetStatus(o, new),
           new \notin {"NONE", "AWAITING_PAYMENT", "PAYMENT_FAILED"},
           sold' = sold, retry' = retry
    PROVE  SoldInv'
BY DEF SoldInv, SetStatus, OrderTypeOK, InRetry, RetryAt

LEMMA SoldStep == TypeOK /\ SoldInv /\ RetriesDoNotOverlap /\ [Next]_vars => SoldInv'
<1> SUFFICES ASSUME TypeOK, SoldInv, RetriesDoNotOverlap, [Next]_vars PROVE SoldInv'
  OBVIOUS
<1>0. OrderTypeOK /\ sold \in [Orders -> Nat]
  BY DEF TypeOK, StockTypeOK, OrderTypeOK
<1>s. ASSUME sold' = sold, retry' = retry, status' = status PROVE SoldInv'
  BY <1>s DEF SoldInv, InRetry, RetryAt
<1>1. ASSUME NEW o \in Orders, OrderStep(o) PROVE SoldInv'
  <2>1. CASE checkout(o)
    BY <1>0, <2>1 DEF checkout, SetStatus, reserve_stock, OthersUnchanged, SoldInv, OrderTypeOK, InRetry, RetryAt
  <2>2. CASE CancelUnderLock(o)
    BY <1>0, <2>2, SoldUnchanged DEF CancelUnderLock, restore_stock_for_cancellation, release_reservation, OthersUnchanged
  <2>3. CASE accept_order(o) \/ mark_order_packed(o)
    BY <1>0, <2>3, SoldUnchanged DEF accept_order, mark_order_packed, AdvanceOrderStatus, OthersUnchanged, stockVars
  <2>4. CASE GetOlder(o)
    BY <1>s, <2>4 DEF GetOlder, stockVars
  <2>5. CASE release_expired_reservations(o)
    BY <1>0, <2>5, SoldUnchanged DEF release_expired_reservations, release_reservation, OthersUnchanged
  <2>6. CASE StaleVisit(o)
    BY <1>s, <2>2, <2>6 DEF StaleVisit, stockVars
  <2>7. CASE RecordCapture(o)
    BY <1>s, <2>7 DEF RecordCapture, stockVars
  <2>8. CASE on_payment_captured(o)
    <3>1. status[o] = "AWAITING_PAYMENT" /\ sold[o] = 0 /\ \A r \in Retriers : ~InRetry(r, o)
      BY <2>8 DEF on_payment_captured, SoldInv
    <3>2. sold' = [sold EXCEPT ![o] = 1] /\ retry' = retry /\ status' = [status EXCEPT ![o] = "PAYMENT_CONFIRMED"]
      BY <1>0, <2>8, <3>1 DEF on_payment_captured, convert_reservation_to_sale, SetStatus, OthersUnchanged
    <3> QED BY <1>0, <3>1, <3>2 DEF SoldInv, OrderTypeOK, InRetry, RetryAt
  <2>9. CASE on_payment_failed(o)
    BY <1>0, <2>9 DEF on_payment_failed, SetStatus, release_reservation, OthersUnchanged, SoldInv, OrderTypeOK, InRetry, RetryAt
  <2>10. CASE on_refund_processed(o)
    BY <1>0, <2>10, SoldUnchanged DEF on_refund_processed, OthersUnchanged, stockVars
  <2>11. CASE SyncOrderStatus(o)
    BY <1>0, <2>11, SoldUnchanged DEF SyncOrderStatus, OthersUnchanged, stockVars
  <2>12. CASE \E step \in Paper : MakePaper(o, step) \/ PipelineDies(o, step)
    BY <1>s, <2>12 DEF MakePaper, PipelineDies, stockVars
  <2>13. CASE cancel_order(o)
    BY <2>2, <2>13 DEF cancel_order
  <2> QED BY <1>1, <2>1, <2>3, <2>4, <2>5, <2>6, <2>7, <2>8, <2>9, <2>10, <2>11, <2>12, <2>13 DEF OrderStep
<1>2. ASSUME NEW r \in Retriers, RetryStep(r) PROVE SoldInv'
  <2>1. ASSUME NEW o \in Orders, RetryRead(r, o) PROVE SoldInv'
    BY <1>0, <2>1 DEF RetryRead, MoveRetry, OnlyRetryMoves, stockVars, SoldInv, OrderTypeOK, InRetry, RetryAt, Unpaid
  <2>2. ASSUME NEW o \in Orders, RetryReserve(r, o) PROVE SoldInv'
    BY <1>0, <2>2 DEF RetryReserve, reserve_stock, MoveRetry, OnlyRetryMoves, SoldInv, OrderTypeOK, InRetry, RetryAt
  <2>3. ASSUME NEW o \in Orders, RetrySave(r, o) PROVE SoldInv'
    <3>1. sold[o] = 0 /\ \A q \in Retriers : InRetry(q, o) => q = r
      BY <2>3 DEF RetrySave, SoldInv, RetriesDoNotOverlap, InRetry
    <3>2. /\ sold' = sold
          /\ status' = [status EXCEPT ![o] = "AWAITING_PAYMENT"]
          /\ retry' = [retry EXCEPT ![r] = [pc |-> "pay", order |-> o]]
      BY <2>3 DEF RetrySave, SetStatus, MoveRetry, stockVars
    <3>3. \A q \in Retriers : ~InRetry(q, o)'
      BY <1>0, <3>1, <3>2 DEF OrderTypeOK, InRetry, RetryAt
    <3>4. \A q \in Retriers, x \in Orders : InRetry(q, x)' => InRetry(q, x)
      BY <1>0, <3>2 DEF OrderTypeOK, InRetry, RetryAt
    <3> QED BY <1>0, <3>1, <3>2, <3>3, <3>4 DEF SoldInv, OrderTypeOK
  <2>4. CASE RetryEnd(r)
    BY <1>0, <2>4 DEF RetryEnd, OnlyRetryMoves, stockVars, SoldInv, OrderTypeOK, InRetry, RetryAt, Idle
  <2> QED BY <1>2, <2>1, <2>2, <2>3, <2>4 DEF RetryStep
<1>3. CASE StaleQuery
  BY <1>s, <1>3 DEF StaleQuery, stockVars
<1>4. CASE StaffMovesStock
  BY <1>s, <1>4 DEF StaffMovesStock, Restock, Adjust, record_restock, record_adjustment, orderVars
<1>5. CASE UNCHANGED vars
  BY <1>s, <1>5 DEF vars, orderVars, stockVars
<1> QED BY <1>1, <1>2, <1>3, <1>4, <1>5 DEF Next

\* Stock is decremented at most once for an order as long as no two payment_retry requests of
\* one order overlap (docs/payments.md, Idempotency); run retried_twice shows that the code,
\* which does not prevent the overlap, needs the condition.
THEOREM SoldOnceUnlessRetriesOverlap == Spec /\ []RetriesDoNotOverlap => []SoldAtMostOnce
<1>1. SoldInv => SoldAtMostOnce
  BY DEF SoldInv, SoldAtMostOnce
<1> QED BY <1>1, SoldInit, SoldStep, TypeCorrect, PTL DEF Spec

\* With one worker there is nothing to overlap with, and the promise holds as it is written.
THEOREM SoldOnceWithOneWorker ==
    ASSUME \A r1, r2 \in Retriers : r1 = r2
    PROVE  Spec => []SoldAtMostOnce
<1>1. RetriesDoNotOverlap
  BY DEF RetriesDoNotOverlap
<1> QED BY <1>1, SoldOnceUnlessRetriesOverlap, PTL
=============================================================================
