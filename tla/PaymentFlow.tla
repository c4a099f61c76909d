----------------------------- MODULE PaymentFlow -----------------------------
(***************************************************************************)
(* How a payment reaches its order: PaymentService (payments/services.py)  *)
(* with its three callers, the browser's verification, the gateway's       *)
(* webhook and the admin's reconciliation, in front of the callbacks of    *)
(* payments/pipeline.py.                                                   *)
(*                                                                         *)
(* All three read the Payment row, fetch the payment from the gateway,     *)
(* save the row and, after that transaction committed, run the pipeline.   *)
(* None holds a lock over these steps, and a worker can be lost between    *)
(* any two of them.  The gateway is external: it moves a payment when the  *)
(* buyer or the bank does, and delivers an event for each move late, out   *)
(* of order and more than once, until a delivery is answered with success. *)
(*                                                                         *)
(* The module takes checkout, cancellation, the sweeps and payment_retry   *)
(* from OrderLifecycle and implements it; what happens to an order after   *)
(* it is confirmed (staff, refunds, shipments) is left to that module.     *)
(***************************************************************************)
EXTENDS OrderLifecycle

CONSTANTS
    MaxAttempts,    \* bound: Payment rows, each with a gateway order of its own
    MaxPays,        \* bound: gateway payments a buyer makes in one gateway order
    Workers,        \* web workers that can be inside PaymentService at the same time
    MaxFaults,      \* bound: calls lost to a dead worker or an unreachable gateway
    RowLocks        \* the database knows SELECT ... FOR UPDATE (PostgreSQL does, SQLite does not)

ASSUME PaymentBounds == MaxAttempts \in Nat /\ MaxPays \in Nat /\ MaxFaults \in Nat
ASSUME RowLocksAssumption == RowLocks \in BOOLEAN

Attempts == 1..MaxAttempts
Pays == 1..MaxPays

VARIABLES
    payment,    \* the Payment rows: order, status and gateway_payment_id (0: blank)
    gateway,    \* the gateway's own record of every payment of every gateway order
    hook,       \* per webhook event: not sent yet, sent, in WebhookEvent, answered with success
    worker,     \* what each worker is doing
    faults      \* how many calls were lost

paymentVars == <<payment, gateway, hook, worker, faults>>
flowVars == <<vars, paymentVars>>

PaymentStatus == {"created", "authorized", "captured", "failed"}
TERMINAL_STATUSES == {"captured", "failed"}     \* no refunds here, and no code cancels a Payment
NoPayment == [order |-> NoOrder, status |-> "none", pay |-> 0]

\* One event for every state the gateway puts a payment in.  order.paid takes the same path as
\* payment.captured.
Events == Attempts \X Pays \X {"authorized", "captured", "failed"}
NoEvent == <<0, 0, "none">>

Free == [pc |-> "idle", attempt |-> 0, pay |-> 0, event |-> NoEvent,
         copy |-> NoPayment, fetched |-> "none"]

FlowInit ==
    /\ Init
    /\ payment = [a \in Attempts |-> NoPayment]
    /\ gateway = [a \in Attempts |-> [k \in Pays |-> "none"]]
    /\ hook = [e \in Events |-> "unsent"]
    /\ worker = [w \in Workers |-> Free]
    /\ faults = 0

OrderOf(a) == payment[a].order

-----------------------------------------------------------------------------
(* Starting an attempt                                                     *)

\* create_order at the gateway, then the Payment row; only then can a buyer pay.
create_payment_for_order(o) ==
    \E a \in Attempts :
        /\ \A b \in Attempts : payment[b] = NoPayment <=> b >= a
        /\ payment' = [payment EXCEPT ![a] = [order |-> o, status |-> "created", pay |-> 0]]
        /\ UNCHANGED <<gateway, hook, worker, faults>>

\* The payment page reuses a live attempt.  It opens for an order whose payment failed too, and
\* then neither holds stock for it nor moves it back to AWAITING_PAYMENT.
checkout_payment(o) ==
    /\ status[o] \in Unpaid
    /\ \A a \in Attempts : OrderOf(a) = o => payment[a].status \in TERMINAL_STATUSES
    /\ create_payment_for_order(o)
    /\ UNCHANGED vars

RetryPay(r) ==
    /\ retry[r].pc = "pay"
    /\ create_payment_for_order(retry[r].order)
    /\ RetryEnd(r)

-----------------------------------------------------------------------------
(* The gateway and the buyer in front of it                                *)

\* A buyer whose payment failed may try again in the same checkout window.
CanPay(a, k) ==
    /\ payment[a] # NoPayment
    /\ k > 1 => gateway[a][k - 1] = "failed"

GatewayMoves(a, k, from, to) ==
    /\ gateway[a][k] = from
    /\ gateway' = [gateway EXCEPT ![a][k] = to]
    /\ hook' = [hook EXCEPT ![<<a, k, to>>] = "sent"]
    /\ UNCHANGED <<vars, payment, worker, faults>>

BuyerPays(a, k) == CanPay(a, k) /\ GatewayMoves(a, k, "none", "authorized")
BuyerFails(a, k) == CanPay(a, k) /\ GatewayMoves(a, k, "none", "failed")
GatewayCaptures(a, k) == GatewayMoves(a, k, "authorized", "captured")

-----------------------------------------------------------------------------
(* The three ways into PaymentService.  Each starts from a copy of the row. *)

Start(w, a, k, e) ==
    /\ worker[w] = Free
    /\ worker' = [worker EXCEPT ![w] = [pc |-> "fetch", attempt |-> a, pay |-> k, event |-> e,
                                        copy |-> payment[a], fetched |-> "none"]]
    /\ UNCHANGED <<vars, payment, gateway, faults>>

\* The browser holds a signature once the gateway has taken the payment, and may send it late.
verify_client_callback(w, a, k) ==
    /\ gateway[a][k] \in {"authorized", "captured"}
    /\ Start(w, a, k, NoEvent)
    /\ UNCHANGED hook

reconcile_payment(w, a) ==
    /\ payment[a].pay # 0
    /\ Start(w, a, payment[a].pay, NoEvent)
    /\ UNCHANGED hook

\* Mutant of process_webhook: takes every event it has a record of for a duplicate.
ProcessWebhookOnce(w, e) ==
    \/ /\ hook[e] = "sent"
       /\ hook' = [hook EXCEPT ![e] = "recorded"]
       /\ Start(w, e[1], e[2], e)
    \/ /\ hook[e] = "recorded" /\ worker[w] = Free
       /\ hook' = [hook EXCEPT ![e] = "answered"]
       /\ UNCHANGED <<vars, payment, gateway, worker, faults>>

\* process_webhook up to the row it needs.  An event with processed_at set is answered at once
\* and changes nothing; any other is taken up again.  Where the database has row locks,
\* _find_payment asks for one outside any transaction and Django raises: the event stays
\* recorded with a processing_error, and the gateway is told to deliver it again.
process_webhook(w, e) ==
    /\ hook[e] \in {"sent", "recorded"}
    /\ hook' = [hook EXCEPT ![e] = "recorded"]
    /\ IF RowLocks THEN worker[w] = Free /\ UNCHANGED <<vars, payment, gateway, worker, faults>>
                   ELSE Start(w, e[1], e[2], e)

-----------------------------------------------------------------------------
(* One call, step by step                                                  *)

At(w, pc) == worker[w].pc = pc
Goto(w, pc) == worker' = [worker EXCEPT ![w].pc = pc]

\* The rest of a call: a webhook's event still gets its processed_at, any other call is over.
Finish(w) ==
    worker' = [worker EXCEPT ![w] =
        IF worker[w].event = NoEvent THEN Free ELSE [Free EXCEPT !.pc = "respond", !.event = worker[w].event]]
WorkerOrder(w) == OrderOf(worker[w].attempt)

\* Mutant of fetch_payment: believes the browser, whose signature was right.
FetchTrustingTheBrowser(w) ==
    /\ At(w, "fetch")
    /\ worker' = [worker EXCEPT ![w].pc = "apply",
                                ![w].fetched = IF worker[w].event = NoEvent
                                               THEN "captured"
                                               ELSE gateway[worker[w].attempt][worker[w].pay]]
    /\ UNCHANGED <<vars, payment, gateway, hook, faults>>

fetch_payment(w) ==
    /\ At(w, "fetch")
    /\ worker' = [worker EXCEPT ![w].pc = "apply",
                                ![w].fetched = gateway[worker[w].attempt][worker[w].pay]]
    /\ UNCHANGED <<vars, payment, gateway, hook, faults>>

AlreadyApplied(w) ==
    worker[w].copy.status = worker[w].fetched /\ worker[w].copy.pay = worker[w].pay

\* Mutant of HasCallback: expects every capture to follow an authorization it has seen.
HasCallbackAfterAuthorized(w) == worker[w].fetched \in TERMINAL_STATUSES /\ worker[w].copy.status = "authorized"

\* a callback, captured or failed, that waits for the commit
HasCallback(w) == worker[w].fetched \in TERMINAL_STATUSES /\ worker[w].copy.status # worker[w].fetched

\* Compares with the copy, not with the row, and saves every field of the copy.
ApplyGatewayPaymentState(w) ==
    /\ At(w, "apply")
    /\ UNCHANGED <<gateway, hook, faults>>
    /\ \/ /\ AlreadyApplied(w)
          /\ Finish(w)
          /\ UNCHANGED <<vars, payment>>
       \/ /\ ~AlreadyApplied(w)
          /\ payment' = [payment EXCEPT ![worker[w].attempt] =
                            [worker[w].copy EXCEPT !.status = worker[w].fetched, !.pay = worker[w].pay]]
          /\ IF HasCallback(w) THEN Goto(w, worker[w].fetched) ELSE Finish(w)
          /\ IF worker[w].fetched = "captured" THEN RecordCapture(WorkerOrder(w)) ELSE UNCHANGED vars

\* Mutant of RunPipeline: a failure is applied to the order whatever its status.
RunPipelineUnguarded(w) ==
    LET o == WorkerOrder(w)
    IN  /\ UNCHANGED <<payment, gateway, hook, faults>>
        /\ \/ At(w, "captured") /\ on_payment_captured(o) /\ Goto(w, "papers")
           \/ /\ At(w, "captured") /\ status[o] # "AWAITING_PAYMENT"
              /\ Finish(w)
              /\ UNCHANGED vars
           \/ /\ At(w, "failed")
              /\ release_reservation(o)
              /\ SetStatus(o, "PAYMENT_FAILED")
              /\ Finish(w)
              /\ OthersUnchanged /\ UNCHANGED <<pipeline, sweep>>

\* on_payment_captured and on_payment_failed look at the order under its lock; an order that is
\* not waiting for this payment is left as it is.
RunPipeline(w) ==
    LET o == WorkerOrder(w)
    IN  /\ UNCHANGED <<payment, gateway, hook, faults>>
        /\ \/ At(w, "captured") /\ on_payment_captured(o) /\ Goto(w, "papers")
           \/ At(w, "failed") /\ on_payment_failed(o) /\ Finish(w)
           \/ /\ At(w, "captured") \/ At(w, "failed")
              /\ status[o] # "AWAITING_PAYMENT"
              /\ Finish(w)
              /\ UNCHANGED vars

MakePapers(w) ==
    /\ At(w, "papers")
    /\ \E step \in Paper :
        /\ MakePaper(WorkerOrder(w), step)
        /\ IF step = "shipment" THEN Finish(w) ELSE Goto(w, "papers")
    /\ UNCHANGED <<payment, gateway, hook, faults>>

\* The event gets its processed_at and the gateway its answer.
Respond(w) ==
    /\ At(w, "respond")
    /\ worker' = [worker EXCEPT ![w] = Free]
    /\ hook' = [hook EXCEPT ![worker[w].event] = "answered"]
    /\ UNCHANGED <<vars, payment, gateway, faults>>

\* The worker dies, or the gateway cannot be reached, or the papers cannot be made: what was
\* committed stays, the rest is not done, and a webhook's event stays without a processed_at.
CallLost(w) ==
    /\ worker[w] # Free
    /\ faults < MaxFaults
    /\ faults' = faults + 1
    /\ worker' = [worker EXCEPT ![w] = Free]
    /\ IF At(w, "papers") THEN \E step \in Paper : PipelineDies(WorkerOrder(w), step)
                          ELSE UNCHANGED vars
    /\ UNCHANGED <<payment, gateway, hook>>

-----------------------------------------------------------------------------

WorkerStep(w) ==
    \/ fetch_payment(w)
    \/ ApplyGatewayPaymentState(w)
    \/ RunPipeline(w)
    \/ MakePapers(w)
    \/ Respond(w)

OrderMoves ==
    \/ \E o \in Orders :
        \/ checkout(o)
        \/ cancel_order(o)
        \/ GetOlder(o)
        \/ release_expired_reservations(o)
        \/ StaleVisit(o)
    \/ \E r \in Retriers : RetryStep(r)
    \/ StaleQuery

FlowNext ==
    \/ OrderMoves /\ UNCHANGED paymentVars
    \/ \E o \in Orders : checkout_payment(o)
    \/ \E r \in Retriers : RetryPay(r)
    \/ \E a \in Attempts, k \in Pays : BuyerPays(a, k) \/ BuyerFails(a, k) \/ GatewayCaptures(a, k)
    \/ \E w \in Workers :
        \/ \E a \in Attempts, k \in Pays : verify_client_callback(w, a, k)
        \/ \E a \in Attempts : reconcile_payment(w, a)
        \/ \E e \in Events : process_webhook(w, e)
        \/ WorkerStep(w)
        \/ CallLost(w)

FlowSpec == FlowInit /\ [][FlowNext]_flowVars

\* The gateway delivers the event of a capture again and again until it is answered, a worker
\* goes on until its call is over, and the sweeps run; buyers and staff promise nothing.
FlowFairness ==
    /\ WF_flowVars(StaleQuery /\ UNCHANGED paymentVars)
    /\ \A o \in Orders :
        /\ WF_flowVars(GetOlder(o) /\ UNCHANGED paymentVars)
        /\ WF_flowVars(release_expired_reservations(o) /\ UNCHANGED paymentVars)
        /\ WF_flowVars(StaleVisit(o) /\ UNCHANGED paymentVars)
    /\ \A w \in Workers : WF_flowVars(WorkerStep(w))
    /\ \A a \in Attempts, k \in Pays :
        SF_flowVars(\E w \in Workers : process_webhook(w, <<a, k, "captured">>))

FairFlowSpec == FlowSpec /\ FlowFairness

-----------------------------------------------------------------------------
(* Properties                                                              *)

\* The type invariant.
FlowTypeOK ==
    /\ TypeOK
    /\ payment \in [Attempts -> {NoPayment} \union [order : Orders, status : PaymentStatus, pay : 0..MaxPays]]
    /\ gateway \in [Attempts -> [Pays -> {"none", "authorized", "captured", "failed"}]]
    /\ hook \in [Events -> {"unsent", "sent", "recorded", "answered"}]
    /\ \A w \in Workers :
        \/ worker[w] = Free
        \/ worker[w] \in {[Free EXCEPT !.pc = "respond", !.event = e] : e \in Events}
        \/ /\ worker[w].pc \in {"fetch", "apply", "captured", "failed", "papers"}
           /\ worker[w].attempt \in Attempts /\ worker[w].pay \in Pays
           /\ worker[w].event \in Events \union {NoEvent}
           /\ worker[w].copy \in [order : Orders, status : PaymentStatus, pay : 0..MaxPays]
           /\ worker[w].fetched \in PaymentStatus \union {"none"}
    /\ faults \in 0..MaxFaults

\* Every step of the payment code is a step OrderLifecycle allows, so what is checked and proved
\* there holds here: no race of the three callers does more to an order than the pipeline may.
ImplementsOrderLifecycle == Spec

\* An order is confirmed only if the gateway itself holds the captured money, whatever a browser
\* reports and however events and calls race (payments/services.py, the module docstring).
ConfirmedOnlyByTheGateway ==
    \A o \in Orders : status[o] \in PAID_STATUSES =>
        \E a \in Attempts, k \in Pays : OrderOf(a) = o /\ gateway[a][k] = "captured"

\* A capture event that was answered with success has reached the Payment row: a delivery that
\* broke off is taken up again and not mistaken for a duplicate (docs/payments.md, Idempotency).
AnsweredMeansRecorded ==
    \A a \in Attempts, k \in Pays : hook[<<a, k, "captured">>] = "answered" => captured[OrderOf(a)]

\* Once no call is running, an order whose capture is recorded still waits for its payment only
\* if a call was lost or a retry reopened it: the races of browser, webhook and staff alone never
\* leave a paid order behind.
LeftWaitingOnlyByAFault ==
    (\A w \in Workers : worker[w] = Free) /\ faults = 0 /\ tries = 0 =>
        \A o \in Orders : captured[o] => status[o] # "AWAITING_PAYMENT"

\* The webhook confirms a payment on its own: money the gateway captured gets recorded although
\* no browser ever calls back and although a call is lost on the way (docs/payments.md, The flow).
CapturesGetRecorded ==
    \A a \in Attempts, k \in Pays :
        gateway[a][k] = "captured" ~> (OrderOf(a) \in Orders /\ captured[OrderOf(a)])

\* A captured payment is closed for good: no late gateway event moves it anywhere else
\* (payments/models.py, the comment on TERMINAL_STATUSES).
CapturedPaymentsStayCaptured ==
    [][\A a \in Attempts : payment[a].status = "captured" => payment'[a].status = "captured"]_flowVars
=============================================================================
