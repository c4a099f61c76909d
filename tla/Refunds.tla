------------------------------- MODULE Refunds -------------------------------
(***************************************************************************)
(* Refunds of one captured payment (payments/services.py, pipeline.py and  *)
(* the two staff pages that call them).  Nothing here takes a lock on the  *)
(* Payment row: a call works on the copy it has loaded and saves all of    *)
(* it.  So a call is a process of several steps,                           *)
(*                                                                         *)
(*   ask  ->  insert  ->  apply  ->  order  ->  return  ->  finish         *)
(*                                                                         *)
(* from the gateway's answer to the callbacks after the commit; a refund   *)
(* webhook enters it at apply and a reconciliation is a step of its own.   *)
(* Between two steps other workers run, and the worker may die.            *)
(*                                                                         *)
(* The workflow of the return requests that refunds belong to is module    *)
(* Returns; here their status is only what refunds write.                  *)
(***************************************************************************)
EXTENDS Integers, FiniteSetsExt

CONSTANTS
    Refunds,    \* bound: the refunds the gateway can be asked for
    NoRefund,
    Requests,   \* bound: the return requests of the order
    NoRequest,  \* the return request of a standalone refund
    Workers,    \* the processes that serve staff pages and webhooks
    Reconcilers,\* those of them that staff reconcile payments on
    Paid,       \* Payment.amount
    Amounts,    \* what staff may enter
    MaxLost     \* bound: calls that may die

ASSUME RefundsAssumption ==
    /\ IsFiniteSet(Refunds)
    /\ Reconcilers \subseteq Workers
    /\ NoRefund \notin Refunds /\ NoRequest \notin Requests
    /\ Paid \in Nat \ {0} /\ Amounts \subseteq Nat \ {0} /\ MaxLost \in Nat

VARIABLES
    payment,        \* the Payment row: its status, and how often it counts each refund
    gateway,        \* Razorpay's refunds
    row,            \* our Refund rows
    notice,         \* the webhook of each refund's result: not "sent", or "answered"
    order,          \* Order.status
    returnStatus,   \* ReturnRequest.status, "none" while there is no such request
    call,           \* what each worker is doing
    lost,           \* how many calls have died
    stale,          \* history: what was ever saved from a copy that had been overtaken
    overlap         \* history: a refund was asked for while another one was still open

refundVars == <<payment, gateway, row, notice, order, returnStatus, call, lost, stale, overlap>>

Result == {"processed", "failed"}   \* _REFUND_TERMINAL_STATUSES
ReturnStatus == {"none", "requested", "approved", "rejected", "received", "refund_initiated",
                 "refunded", "cancelled"}
PaymentRow == [status : {"captured", "partially_refunded", "refunded"}, counted : [Refunds -> Nat]]

Uncounted == [r \in Refunds |-> 0]
Idle == [step |-> "idle", source |-> "none", request |-> NoRequest, amount |-> 0,
         refund |-> NoRefund, result |-> "pending",
         copy |-> [status |-> "captured", counted |-> Uncounted]]

Free(w) == call[w].step = "idle"
At(w, step) == call[w].step = step
GoTo(w, step) == call' = [call EXCEPT ![w].step = step]
Hang(w) == call' = [call EXCEPT ![w] = Idle]

\* refunded_amount of a copy of the Payment row
RefundedAmount(p) == MapThenSumSet(LAMBDA r : p.counted[r] * gateway[r].amount, Refunds)

\* what the gateway has paid back or is about to
MoneyBack == MapThenSumSet(LAMBDA r : IF gateway[r].state = "failed" THEN 0 ELSE gateway[r].amount, Refunds)
MoneyGone == MapThenSumSet(LAMBDA r : IF gateway[r].state = "processed" THEN gateway[r].amount ELSE 0, Refunds)

\* a refund the gateway has accepted and the Payment row does not count yet
Open(r) == gateway[r].state = "pending" \/ (gateway[r].state = "processed" /\ payment.counted[r] = 0)

\* GatewayRefund: what the gateway knows of a refund
GatewayRefund == [state : {"none", "pending"} \union Result, amount : Amounts \union {0}]

RefundInit(statuses) ==
    /\ payment = [status |-> "captured", counted |-> Uncounted]
    /\ gateway = [r \in Refunds |-> [state |-> "none", amount |-> 0]]
    /\ row = [r \in Refunds |-> [status |-> "none", request |-> NoRequest]]
    /\ notice = [r \in Refunds |-> "none"]
    /\ order = "delivered"
    /\ returnStatus = statuses
    /\ call = [w \in Workers |-> Idle]
    /\ lost = 0
    /\ stale = {}
    /\ overlap = FALSE

\* a save of the whole Payment row; it is stale when the row has moved on since it was loaded
SavePayment(copy, new) ==
    /\ payment' = new
    /\ stale' = IF payment = copy THEN stale ELSE stale \union {"payment"}

-----------------------------------------------------------------------------
(* initiate_refund                                                         *)

\* Mutant of Refundable: looks at the status and at the sign, not at the balance.
RefundableWhileOpen(amount) == payment.status \in {"captured", "partially_refunded"} /\ amount > 0

Refundable(amount) ==
    /\ payment.status \in {"captured", "partially_refunded"}
    /\ amount > 0
    /\ RefundedAmount(payment) + amount <= Paid

\* the refunds the gateway has heard of, and one it has not
Known == {r \in Refunds : gateway[r].state # "none"}
NewRefund == CHOOSE r \in Refunds : r \notin Known

\* The payment is loaded and the checks pass; a call that fails them leaves nothing.
Begin(w, source, q, amount) ==
    /\ Free(w) /\ Known # Refunds
    /\ Refundable(amount)
    /\ call' = [call EXCEPT ![w] = [Idle EXCEPT !.step = "ask", !.source = source, !.request = q,
                                                !.amount = amount, !.copy = payment]]
    /\ overlap' = (overlap \/ (\E v \in Workers : At(v, "ask")) \/ (\E r \in Refunds : Open(r)))
    /\ UNCHANGED <<payment, gateway, row, notice, order, returnStatus, lost, stale>>

\* The admin's refund form: on its own, or for a return whose page offered the form since it was
\* received.  The form does not look at the return's status again.
refund_view(w) ==
    \E amount \in Amounts :
        \/ Begin(w, "staff", NoRequest, amount)
        \/ \E q \in Requests :
            /\ returnStatus[q] \in {"received", "refund_initiated", "refunded"}
            /\ Begin(w, "staff", q, amount)

\* the form of the store dashboard, which knows of no returns
store_dashboard_refund_payment(w) == \E amount \in Amounts : Begin(w, "staff", NoRequest, amount)

initiate_return_refund(w) ==
    \E q \in Requests, amount \in Amounts :
        /\ returnStatus[q] = "received"
        /\ Begin(w, "return", q, amount)

\* gateway.initiate_refund: the gateway answers at once with a result, or "pending", or raises
AskGateway(w) ==
    /\ At(w, "ask")
    /\ \/ \E state \in Result \union {"pending"} :
            /\ Known # Refunds
            /\ gateway' = [gateway EXCEPT ![NewRefund] = [state |-> state, amount |-> call[w].amount]]
            /\ notice' = [notice EXCEPT ![NewRefund] = IF state = "pending" THEN "none" ELSE "sent"]
            /\ call' = [call EXCEPT ![w].step = "insert", ![w].amount = 0, ![w].refund = NewRefund,
                                        ![w].result = state]
       \/ /\ Hang(w)
          /\ UNCHANGED <<gateway, notice>>
    /\ UNCHANGED <<payment, row, order, returnStatus, lost, stale, overlap>>

\* Where a call goes once its refund needs no more: initiate_return_refund and process_webhook
\* have something left to save.
Rest(w) == IF call[w].source = "staff" THEN "idle" ELSE "finish"
Leave(w) == IF Rest(w) = "idle" THEN Hang(w) ELSE GoTo(w, "finish")

InsertRefund(w) ==
    /\ At(w, "insert")
    /\ row' = [row EXCEPT ![call[w].refund] = [status |-> "initiated", request |-> call[w].request]]
    /\ IF call[w].result \in Result THEN GoTo(w, "apply") ELSE Leave(w)
    /\ UNCHANGED <<payment, gateway, notice, order, returnStatus, lost, stale, overlap>>

-----------------------------------------------------------------------------
(* _apply_refund_result and what it calls                                  *)

\* Mutant of WithRefund: the copy is brought up to date with the row before the amount is added,
\* although the row may already count it.
WithRefundRefreshed(copy, r) ==
    LET counted == [payment.counted EXCEPT ![r] = @ + 1]
    IN  [status |-> "partially_refunded", counted |-> counted]

\* The copy with the refund's amount added, and the status that follows from the sum.
WithRefund(copy, r) ==
    LET counted == [copy.counted EXCEPT ![r] = @ + 1]
        full    == RefundedAmount([copy EXCEPT !.counted = counted]) >= Paid
    IN  [status |-> IF full THEN "refunded" ELSE "partially_refunded", counted |-> counted]

\* Mutant of ApplyRefundResult: a failed result takes the amount back out.
ApplyTakingBack(w) ==
    LET r   == call[w].refund
        new == IF call[w].result = "processed" THEN WithRefund(call[w].copy, r)
               ELSE [call[w].copy EXCEPT !.counted[r] = @ - 1]
    IN  /\ At(w, "apply")
        /\ row' = [row EXCEPT ![r].status = call[w].result]
        /\ SavePayment(call[w].copy, new)
        /\ call' = [call EXCEPT ![w].step = "order", ![w].copy = new]
        /\ UNCHANGED <<gateway, notice, order, returnStatus, lost, overlap>>

\* Mutant of ReturnRefunded: a failed refund sends the return back to where it was approved.
ReturnToApproved(w) ==
    /\ At(w, "return")
    /\ IF call[w].request \in Requests
       THEN returnStatus' = [returnStatus EXCEPT ![call[w].request] =
                                IF call[w].result = "processed" THEN "refunded" ELSE "approved"]
       ELSE UNCHANGED returnStatus
    /\ Leave(w)
    /\ UNCHANGED <<payment, gateway, row, notice, order, lost, stale, overlap>>

\* One transaction: the Refund row and, for money that went back, the Payment row, both saved
\* from the copies the call works on.
ApplyRefundResult(w) ==
    LET r   == call[w].refund
        new == WithRefund(call[w].copy, r)
    IN  /\ At(w, "apply")
        /\ row' = [row EXCEPT ![r].status = call[w].result]
        /\ IF call[w].result = "processed"
           THEN /\ SavePayment(call[w].copy, new)
                /\ call' = [call EXCEPT ![w].step = "order", ![w].copy = new]
           ELSE /\ GoTo(w, "return")
                /\ UNCHANGED <<payment, stale>>
        /\ UNCHANGED <<gateway, notice, order, returnStatus, lost, overlap>>

\* on_refund_processed, first half: the order's status whatever it was
OrderRefunded(w) ==
    /\ At(w, "order")
    /\ order' = call[w].copy.status
    /\ GoTo(w, "return")
    /\ UNCHANGED <<payment, gateway, row, notice, returnStatus, lost, stale, overlap>>

\* mark_return_refunded, mark_return_refund_failed: no look at the status there is
ReturnRefunded(w) ==
    /\ At(w, "return")
    /\ IF call[w].request \in Requests
       THEN returnStatus' = [returnStatus EXCEPT ![call[w].request] =
                                IF call[w].result = "processed" THEN "refunded" ELSE "received"]
       ELSE UNCHANGED returnStatus
    /\ Leave(w)
    /\ UNCHANGED <<payment, gateway, row, notice, order, lost, stale, overlap>>

\* the last save: REFUND_INITIATED, whatever has become of the return, or the event's processed_at
Finish(w) ==
    /\ At(w, "finish")
    /\ IF call[w].source = "return"
       THEN /\ returnStatus' = [returnStatus EXCEPT ![call[w].request] = "refund_initiated"]
            /\ stale' = IF returnStatus[call[w].request] = "received" THEN stale
                        ELSE stale \union {"status"}
            /\ UNCHANGED notice
       ELSE /\ notice' = [notice EXCEPT ![call[w].refund] = "answered"]
            /\ UNCHANGED <<returnStatus, stale>>
    /\ Hang(w)
    /\ UNCHANGED <<payment, gateway, row, order, lost, overlap>>

-----------------------------------------------------------------------------
(* Webhooks, reconciliation, faults                                        *)

GatewaySettles(r) ==
    /\ gateway[r].state = "pending"
    /\ \E state \in Result : gateway' = [gateway EXCEPT ![r].state = state]
    /\ notice' = [notice EXCEPT ![r] = "sent"]
    /\ UNCHANGED <<payment, row, order, returnStatus, call, lost, stale, overlap>>

\* Mutant of NewsFor: applies what the event says without comparing it with the row.
NewsAnyway(r) == row[r].status # "none"

\* whether the event tells the Refund row anything: it exists and has not got this result
NewsFor(r) == row[r].status \notin {"none", gateway[r].state}

\* Mutant of TakeNotice: the event is marked as processed before it is dispatched.
TakeNoticeAnswering(w, r) ==
    /\ Free(w)
    /\ notice[r] = "sent"
    /\ notice' = [notice EXCEPT ![r] = "answered"]
    /\ IF NewsFor(r)
       THEN call' = [call EXCEPT ![w] = [Idle EXCEPT !.step = "apply", !.source = "webhook",
                            !.request = row[r].request, !.refund = r,
                            !.result = gateway[r].state, !.copy = payment]]
       ELSE UNCHANGED call
    /\ UNCHANGED <<payment, gateway, row, order, returnStatus, lost, stale, overlap>>

\* process_webhook of refund.processed and refund.failed: refund and payment are read by one
\* query.  A refund nobody knows is logged, and the event is done like one that was applied.
TakeNotice(w, r) ==
    /\ Free(w)
    /\ notice[r] = "sent"
    /\ IF NewsFor(r)
       THEN /\ call' = [call EXCEPT ![w] = [Idle EXCEPT !.step = "apply", !.source = "webhook",
                            !.request = row[r].request, !.refund = r,
                            !.result = gateway[r].state, !.copy = payment]]
            /\ UNCHANGED notice
       ELSE /\ notice' = [notice EXCEPT ![r] = "answered"]
            /\ UNCHANGED call
    /\ UNCHANGED <<payment, gateway, row, order, returnStatus, lost, stale, overlap>>

\* reconcile_payment on a payment that is already captured.  The callback it may start finds
\* an order that does not wait for a payment, and does nothing.
BeginReconcile(w) ==
    /\ Free(w) /\ w \in Reconcilers
    /\ call' = [call EXCEPT ![w] = [Idle EXCEPT !.step = "reconcile", !.source = "staff", !.copy = payment]]
    /\ UNCHANGED <<payment, gateway, row, notice, order, returnStatus, lost, stale, overlap>>

\* the status of the payment at the gateway, which has no word for a partial refund
FetchedStatus == IF MoneyGone >= Paid THEN "refunded" ELSE "captured"

Reconcile(w) ==
    /\ At(w, "reconcile")
    /\ IF call[w].copy.status = FetchedStatus THEN UNCHANGED <<payment, stale>>
       ELSE SavePayment(call[w].copy, [call[w].copy EXCEPT !.status = FetchedStatus])
    /\ Hang(w)
    /\ UNCHANGED <<gateway, row, notice, order, returnStatus, lost, overlap>>

\* the worker dies or its connection breaks; what it has committed stays
CallLost(w) ==
    /\ ~Free(w)
    /\ lost < MaxLost
    /\ lost' = lost + 1
    /\ Hang(w)
    /\ UNCHANGED <<payment, gateway, row, notice, order, returnStatus, stale, overlap>>

Proceed(w) ==
    \/ AskGateway(w) \/ InsertRefund(w) \/ ApplyRefundResult(w) \/ OrderRefunded(w)
    \/ ReturnRefunded(w) \/ Finish(w) \/ Reconcile(w)

\* what a free worker may take up
TakeUp(w) ==
    \/ refund_view(w)
    \/ store_dashboard_refund_payment(w)
    \/ initiate_return_refund(w)
    \/ \E r \in Refunds : TakeNotice(w, r)
    \/ BeginReconcile(w)

RefundStep ==
    \/ \E w \in Workers : TakeUp(w) \/ Proceed(w) \/ CallLost(w)
    \/ \E r \in Refunds : GatewaySettles(r)

\* Refunds on their own: the return requests have all been received.
ReceivedInit == RefundInit([q \in Requests |-> "received"])

RefundFairness ==
    /\ \A w \in Workers : WF_refundVars(Proceed(w))
    /\ \A r \in Refunds :
        /\ WF_refundVars(GatewaySettles(r))
        /\ SF_refundVars(\E w \in Workers : TakeNotice(w, r))

RefundSpec == ReceivedInit /\ [][RefundStep]_refundVars /\ RefundFairness

-----------------------------------------------------------------------------
(* Properties                                                              *)

\* The type invariant.
RefundTypeOK ==
    /\ payment \in PaymentRow
    /\ gateway \in [Refunds -> GatewayRefund]
    /\ row \in [Refunds -> [status : {"none", "initiated"} \union Result,
                            request : Requests \union {NoRequest}]]
    /\ notice \in [Refunds -> {"none", "sent", "answered"}]
    /\ order \in {"delivered", "partially_refunded", "refunded"}
    /\ returnStatus \in [Requests -> ReturnStatus]
    /\ call \in [Workers -> [step : {"idle", "ask", "insert", "apply", "order", "return", "finish", "reconcile"},
                             source : {"none", "staff", "return", "webhook"},
                             request : Requests \union {NoRequest}, amount : Amounts \union {0},
                             refund : Refunds \union {NoRefund},
                             result : Result \union {"pending"}, copy : PaymentRow]]
    /\ lost \in 0..MaxLost
    /\ stale \subseteq {"payment", "status", "claims"}
    /\ overlap \in BOOLEAN

\* "Either way, the same _apply_refund_result is used, so a refund initiated from the admin and
\* one confirmed asynchronously via webhook can't double-apply" (docs/payments.md:142): whatever
\* overlaps, repeats, arrives early or breaks off, one result per refund and no refund counted
\* twice or without having gone through.
Ledger == INSTANCE RefundLedger WITH
    result  <- [r \in Refunds |-> IF row[r].status \in Result THEN row[r].status ELSE "open"],
    counted <- payment.counted
KeepsRefundLedger == Ledger!Spec

\* refunded_amount is the sum of the refunds that went through, as long as no Payment row was
\* saved over a newer one: neither a repeated event, nor a lost call, nor a reconciliation that
\* resets the status makes it wrong.
RefundedAmountIsExact ==
    "payment" \notin stale =>
        \A r \in Refunds : payment.counted[r] = 1 <=> row[r].status = "processed"

\* If staff wait for each refund's result before they ask for the next one, the gateway never
\* pays back more than was paid.  (A refund that is pending, or whose row was never inserted,
\* is not in the balance that initiate_refund checks.)
PaysBackAtMostWhatWasPaid == (~overlap /\ "payment" \notin stale) => MoneyBack <= Paid

\* The gateway's result of a refund reaches its row, also when the call that started the refund
\* is lost, unless the event came before the row and was answered as that of an unknown refund.
RefundResultsArrive ==
    \A r \in Refunds : (row[r].status = "initiated" /\ notice[r] # "answered") ~> row[r].status \in Result
=============================================================================
