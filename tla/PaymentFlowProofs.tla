-------------------------- MODULE PaymentFlowProofs --------------------------
(***************************************************************************)
(* Proofs about PaymentFlow: the payment code implements OrderLifecycle,   *)
(* only the gateway can get an order confirmed, an event is answered only  *)
(* when its capture is recorded, and the races of browser, webhook and     *)
(* staff alone leave no paid order behind; for any number of orders,       *)
(* payment attempts, web workers and lost calls, on a database with row    *)
(* locks and on one without.                                               *)
(***************************************************************************)
EXTENDS PaymentFlow, OrderLifecycleProofs

Row == [order : Orders \union {NoOrder}, status : PaymentStatus \union {"none"}, pay : 0..MaxPays]
GatewayStatus == {"none", "authorized", "captured", "failed"}
Call == [pc : {"idle", "fetch", "apply", "captured", "failed", "papers", "respond"},
         attempt : 0..MaxAttempts, pay : 0..MaxPays, event : Events \union {NoEvent},
         copy : Row, fetched : PaymentStatus \union {"none"}]

\* the events the gateway still delivers
Unanswered == {"sent", "recorded"}

\* past the start of a call and before its last step
InCall(w) == worker[w].pc \in {"fetch", "apply", "captured", "failed", "papers"}

FlowTypes ==
    /\ payment \in [Attempts -> Row]
    /\ gateway \in [Attempts -> [Pays -> GatewayStatus]]
    /\ hook \in [Events -> {"unsent", "sent", "recorded", "answered"}]
    /\ worker \in [Workers -> Call]

\* A call works for an order that exists, because an event or a signature comes from a gateway
\* payment, a gateway payment from a Payment row, and a row never changes its order.
CallsHaveOrders ==
    /\ \A a \in Attempts : payment[a] = NoPayment \/ OrderOf(a) \in Orders
    /\ \A a \in Attempts, k \in Pays : gateway[a][k] # "none" => OrderOf(a) \in Orders
    /\ \A e \in Events : hook[e] \in Unanswered => gateway[e[1]][e[2]] # "none"
    /\ \A w \in Workers : InCall(w) =>
        /\ worker[w].attempt \in Attempts /\ worker[w].pay \in Pays
        /\ WorkerOrder(w) \in Orders
        /\ worker[w].copy.order = WorkerOrder(w)

FlowInv == FlowTypes /\ CallsHaveOrders

LEMMA FreeIsCall == Free \in Call /\ NoPayment \in Row /\ Free.pc = "idle"
BY PaymentBounds DEF Free, Call, NoPayment, Row

\* A new attempt takes an unused row, so every older row keeps its order.
LEMMA CreateKeepsOrders ==
    ASSUME FlowInv, NEW o \in Orders, create_payment_for_order(o)
    PROVE  /\ payment' \in [Attempts -> Row]
           /\ \A a \in Attempts : payment'[a] = payment[a] \/ (payment[a] = NoPayment /\ payment'[a].order = o)
<1>1. PICK a \in Attempts :
        /\ \A b \in Attempts : payment[b] = NoPayment <=> b >= a
        /\ payment' = [payment EXCEPT ![a] = [order |-> o, status |-> "created", pay |-> 0]]
  BY DEF create_payment_for_order
<1>2. [order |-> o, status |-> "created", pay |-> 0] \in Row
  BY PaymentBounds DEF Row, PaymentStatus
<1>3. payment[a] = NoPayment
  BY <1>1 DEF Attempts
<1> QED BY <1>1, <1>2, <1>3 DEF FlowInv, FlowTypes

LEMMA FlowInitInv == FlowInit => FlowInv
<1> SUFFICES ASSUME FlowInit PROVE FlowInv
  OBVIOUS
<1>1. FlowTypes
  BY FreeIsCall DEF FlowInit, FlowTypes, GatewayStatus
<1>2. CallsHaveOrders
  BY FreeIsCall DEF FlowInit, CallsHaveOrders, InCall, Events, OrderOf, Unanswered
<1> QED BY <1>1, <1>2 DEF FlowInv

-----------------------------------------------------------------------------
(* The invariant of the payment side                                       *)

\* Steps that move the record of one worker, and save rows without changing whose they are.
LEMMA WorkerMoves ==
    ASSUME FlowInv, NEW w \in Workers, NEW c \in Call,
           worker' = [worker EXCEPT ![w] = c],
           c.pc \in {"fetch", "apply", "captured", "failed", "papers"} =>
                /\ c.attempt \in Attempts /\ c.pay \in Pays
                /\ OrderOf(c.attempt) \in Orders
                /\ c.copy.order = OrderOf(c.attempt),
           payment' \in [Attempts -> Row],
           \A a \in Attempts : IF payment[a] = NoPayment THEN payment'[a] = NoPayment
                                                        ELSE payment'[a].order = OrderOf(a),
           gateway' = gateway,
           hook' \in [Events -> {"unsent", "sent", "recorded", "answered"}],
           \A e \in Events : hook'[e] \in Unanswered => hook[e] \in Unanswered
    PROVE  FlowInv'
<1>1. FlowTypes'
  BY DEF FlowInv, FlowTypes
<1>2. \A a \in Attempts : OrderOf(a) \in Orders => OrderOf(a)' = OrderOf(a)
  BY RetryAssumption DEF OrderOf, NoPayment
<1>3. \A a \in Attempts : payment'[a] = NoPayment \/ OrderOf(a)' \in Orders
  BY DEF FlowInv, CallsHaveOrders, OrderOf
<1>4. ASSUME NEW v \in Workers, InCall(v)'
      PROVE  /\ worker'[v].attempt \in Attempts /\ worker'[v].pay \in Pays
             /\ WorkerOrder(v)' \in Orders
             /\ worker'[v].copy.order = WorkerOrder(v)'
  <2>1. CASE v = w
    BY <1>2, <1>4, <2>1 DEF FlowInv, FlowTypes, InCall, WorkerOrder, OrderOf
  <2>2. CASE v # w
    BY <1>2, <1>4, <2>2 DEF FlowInv, FlowTypes, CallsHaveOrders, InCall, WorkerOrder, OrderOf
  <2> QED BY <2>1, <2>2
<1>5. CallsHaveOrders'
  BY <1>2, <1>3, <1>4 DEF FlowInv, CallsHaveOrders
<1> QED BY <1>1, <1>5 DEF FlowInv

\* Saving nothing is such a step.
LEMMA SameRows ==
    ASSUME FlowInv, payment' = payment
    PROVE  /\ payment' \in [Attempts -> Row]
           /\ \A a \in Attempts : IF payment[a] = NoPayment THEN payment'[a] = NoPayment
                                                           ELSE payment'[a].order = OrderOf(a)
BY DEF FlowInv, FlowTypes, OrderOf

\* What Finish leaves of a call.
LEMMA FinishedCall ==
    ASSUME FlowInv, NEW w \in Workers, Finish(w)
    PROVE  \E c \in Call : worker' = [worker EXCEPT ![w] = c] /\ c.pc \in {"idle", "respond"}
<1> DEFINE c == IF worker[w].event = NoEvent THEN Free ELSE [Free EXCEPT !.pc = "respond", !.event = worker[w].event]
<1>1. c \in Call /\ c.pc \in {"idle", "respond"}
  BY FreeIsCall DEF FlowInv, FlowTypes, Call, Free
<1> QED BY <1>1 DEF Finish

LEMMA CreateInv ==
    ASSUME FlowInv, NEW o \in Orders, create_payment_for_order(o)
    PROVE  FlowInv'
<1>1. UNCHANGED <<gateway, hook, worker>>
  BY DEF create_payment_for_order
<1>2. FlowTypes'
  BY <1>1, CreateKeepsOrders DEF FlowInv, FlowTypes
<1>3. \A a \in Attempts : OrderOf(a) \in Orders => OrderOf(a)' = OrderOf(a)
  BY CreateKeepsOrders, RetryAssumption DEF OrderOf, NoPayment
<1>4. CallsHaveOrders'
  BY <1>1, <1>3, CreateKeepsOrders DEF FlowInv, FlowTypes, CallsHaveOrders, InCall, WorkerOrder, OrderOf
<1> QED BY <1>2, <1>4 DEF FlowInv

LEMMA GatewayInv ==
    ASSUME FlowInv, NEW a \in Attempts, NEW k \in Pays, OrderOf(a) \in Orders,
           NEW from \in GatewayStatus, NEW to \in {"authorized", "captured", "failed"},
           GatewayMoves(a, k, from, to)
    PROVE  FlowInv'
<1>1. FlowTypes'
  BY DEF FlowInv, FlowTypes, GatewayMoves, GatewayStatus
<1>2. UNCHANGED <<payment, worker>>
  BY DEF GatewayMoves
<1>3. \A b \in Attempts, l \in Pays : gateway'[b][l] = IF b = a /\ l = k THEN to ELSE gateway[b][l]
  BY DEF FlowInv, FlowTypes, GatewayMoves
<1>4. \A e \in Events : hook'[e] \in Unanswered => e = <<a, k, to>> \/ hook[e] \in Unanswered
  BY DEF FlowInv, FlowTypes, GatewayMoves, Unanswered
<1>5. \A e \in Events : hook'[e] \in Unanswered => gateway'[e[1]][e[2]] # "none"
  BY <1>3, <1>4 DEF FlowInv, CallsHaveOrders, Events
<1> QED BY <1>1, <1>2, <1>3, <1>5 DEF FlowInv, CallsHaveOrders, InCall, WorkerOrder, OrderOf

LEMMA StartInv ==
    ASSUME FlowInv, NEW w \in Workers, NEW a \in Attempts, NEW k \in Pays, OrderOf(a) \in Orders,
           NEW e \in Events \union {NoEvent}, Start(w, a, k, e),
           hook' \in [Events -> {"unsent", "sent", "recorded", "answered"}],
           \A f \in Events : hook'[f] \in Unanswered => hook[f] \in Unanswered
    PROVE  FlowInv'
<1> DEFINE c == [pc |-> "fetch", attempt |-> a, pay |-> k, event |-> e, copy |-> payment[a], fetched |-> "none"]
<1>1. c \in Call
  <2>1. payment[a] \in Row
    BY DEF FlowInv, FlowTypes
  <2>2. a \in 0..MaxAttempts /\ k \in 0..MaxPays
    BY PaymentBounds DEF Attempts, Pays
  <2> QED BY <2>1, <2>2 DEF Call
<1>2. c.pc = "fetch" /\ c.attempt = a /\ c.pay = k /\ c.copy = payment[a]
  OBVIOUS
<1>3. worker' = [worker EXCEPT ![w] = c] /\ payment' = payment /\ gateway' = gateway
  BY DEF Start
<1> HIDE DEF c
<1> QED BY <1>1, <1>2, <1>3, WorkerMoves, SameRows DEF OrderOf

\* A call that goes on, with a new pc and perhaps what it has fetched.
LEMMA GoOnInv ==
    ASSUME FlowInv, NEW w \in Workers, InCall(w),
           NEW pc \in {"apply", "captured", "failed", "papers"}, NEW f \in PaymentStatus \union {"none"},
           worker' = [worker EXCEPT ![w] = [worker[w] EXCEPT !.pc = pc, !.fetched = f]],
           UNCHANGED <<payment, gateway, hook>>
    PROVE  FlowInv'
<1> DEFINE c == [worker[w] EXCEPT !.pc = pc, !.fetched = f]
<1>1. c \in Call
  BY DEF FlowInv, FlowTypes, Call
<1>2. c.attempt = worker[w].attempt /\ c.pay = worker[w].pay /\ c.copy = worker[w].copy
  BY DEF FlowInv, FlowTypes, Call
<1>3. worker' = [worker EXCEPT ![w] = c]
  OBVIOUS
<1>4. hook \in [Events -> {"unsent", "sent", "recorded", "answered"}]
  BY DEF FlowInv, FlowTypes
<1>5. /\ c.attempt \in Attempts /\ c.pay \in Pays
      /\ OrderOf(c.attempt) \in Orders
      /\ c.copy.order = OrderOf(c.attempt)
  BY <1>2 DEF FlowInv, CallsHaveOrders, WorkerOrder
<1> HIDE DEF c
<1> QED BY <1>1, <1>3, <1>4, <1>5, WorkerMoves, SameRows

LEMMA EndInv ==
    ASSUME FlowInv, NEW w \in Workers, NEW c \in Call, c.pc \in {"idle", "respond"},
           worker' = [worker EXCEPT ![w] = c], UNCHANGED <<payment, gateway, hook>>
    PROVE  FlowInv'
<1>1. hook \in [Events -> {"unsent", "sent", "recorded", "answered"}]
  BY DEF FlowInv, FlowTypes
<1> QED BY <1>1, WorkerMoves, SameRows

\* The step that saves the Payment row.
LEMMA ApplyInv ==
    ASSUME FlowInv, NEW w \in Workers, ApplyGatewayPaymentState(w)
    PROVE  FlowInv'
<1>1. InCall(w) /\ UNCHANGED <<gateway, hook>>
  BY DEF ApplyGatewayPaymentState, At, InCall
<1>2. worker[w].attempt \in Attempts /\ worker[w].pay \in Pays /\ WorkerOrder(w) \in Orders
      /\ worker[w].copy.order = WorkerOrder(w) /\ worker[w] \in Call
  BY <1>1 DEF FlowInv, FlowTypes, CallsHaveOrders
<1>3. CASE AlreadyApplied(w)
  <2>1. Finish(w) /\ payment' = payment
    BY <1>3 DEF ApplyGatewayPaymentState, vars
  <2> QED BY <1>1, <2>1, FinishedCall, EndInv
<1>4. CASE ~AlreadyApplied(w)
  <2> DEFINE row == [worker[w].copy EXCEPT !.status = worker[w].fetched, !.pay = worker[w].pay]
  <2>1. payment' = [payment EXCEPT ![worker[w].attempt] = row]
    BY <1>4 DEF ApplyGatewayPaymentState
  <2>2. row \in Row /\ row.order = WorkerOrder(w)
    BY <1>2, PaymentBounds DEF Call, Row, Pays
  <2>3. payment[worker[w].attempt] # NoPayment
    BY <1>2, RetryAssumption DEF WorkerOrder, OrderOf, NoPayment
  <2> HIDE DEF row
  <2>4. /\ payment' \in [Attempts -> Row]
        /\ \A a \in Attempts : IF payment[a] = NoPayment THEN payment'[a] = NoPayment
                                                        ELSE payment'[a].order = OrderOf(a)
    BY <1>2, <2>1, <2>2, <2>3 DEF FlowInv, FlowTypes, WorkerOrder, OrderOf
  <2>5. PICK c \in Call :
            /\ worker' = [worker EXCEPT ![w] = c]
            /\ c.pc \in {"idle", "respond"} \/
               (c.attempt = worker[w].attempt /\ c.pay = worker[w].pay /\ c.copy = worker[w].copy)
    <3>1. CASE HasCallback(w)
      <4> DEFINE c == [worker[w] EXCEPT !.pc = worker[w].fetched]
      <4>1. worker' = [worker EXCEPT ![w] = c]
        BY <1>4, <3>1 DEF ApplyGatewayPaymentState, Goto
      <4>2. c \in Call /\ c.attempt = worker[w].attempt /\ c.pay = worker[w].pay /\ c.copy = worker[w].copy
        BY <1>2, <3>1 DEF HasCallback, TERMINAL_STATUSES, Call
      <4> QED BY <4>1, <4>2
    <3>2. CASE ~HasCallback(w)
      BY <1>4, <3>2, FinishedCall DEF ApplyGatewayPaymentState
    <3> QED BY <3>1, <3>2
  <2>6. hook' \in [Events -> {"unsent", "sent", "recorded", "answered"}]
    BY <1>1 DEF FlowInv, FlowTypes
  <2> QED BY <1>1, <1>2, <2>4, <2>5, <2>6, WorkerMoves DEF WorkerOrder
<1> QED BY <1>3, <1>4

\* The other steps of a call.
LEMMA WorkerStepInv ==
    ASSUME FlowInv, NEW w \in Workers, WorkerStep(w) \/ CallLost(w)
    PROVE  FlowInv'
<1>0. worker[w] \in Call /\ Free \in Call /\ Free.pc = "idle"
      /\ hook \in [Events -> {"unsent", "sent", "recorded", "answered"}]
  BY FreeIsCall DEF FlowInv, FlowTypes
<1>1. CASE fetch_payment(w)
  <2> DEFINE f == gateway[worker[w].attempt][worker[w].pay]
  <2>1. InCall(w) /\ UNCHANGED <<payment, gateway, hook>>
    BY <1>1 DEF fetch_payment, At, InCall
  <2>2. f \in PaymentStatus \union {"none"}
    BY <2>1 DEF FlowInv, FlowTypes, CallsHaveOrders, GatewayStatus, PaymentStatus
  <2>3. worker' = [worker EXCEPT ![w] = [worker[w] EXCEPT !.pc = "apply", !.fetched = f]]
    BY <1>0, <1>1 DEF fetch_payment, FlowInv, FlowTypes
  <2> HIDE DEF f
  <2> QED BY <2>1, <2>2, <2>3, GoOnInv
<1>2. CASE ApplyGatewayPaymentState(w)
  BY <1>2, ApplyInv
<1>3. ASSUME InCall(w), Goto(w, "papers"), UNCHANGED <<payment, gateway, hook>> PROVE FlowInv'
  <2>1. worker' = [worker EXCEPT ![w] = [worker[w] EXCEPT !.pc = "papers", !.fetched = worker[w].fetched]]
    BY <1>0, <1>3 DEF Goto, Call
  <2>2. worker[w].fetched \in PaymentStatus \union {"none"}
    BY <1>0 DEF Call
  <2> QED BY <1>3, <2>1, <2>2, GoOnInv
<1>4. ASSUME Finish(w), UNCHANGED <<payment, gateway, hook>> PROVE FlowInv'
  BY <1>4, FinishedCall, EndInv
<1>5. CASE RunPipeline(w)
  BY <1>3, <1>4, <1>5 DEF RunPipeline, At, InCall
<1>6. CASE MakePapers(w)
  BY <1>3, <1>4, <1>6 DEF MakePapers, At, InCall
<1>7. CASE Respond(w)
  <2>1. worker' = [worker EXCEPT ![w] = Free] /\ UNCHANGED <<payment, gateway>>
    BY <1>7 DEF Respond
  <2>2. hook' \in [Events -> {"unsent", "sent", "recorded", "answered"}]
    BY <1>0, <1>7 DEF Respond
  <2>3. \A e \in Events : hook'[e] \in Unanswered => hook[e] \in Unanswered
    BY <1>0, <1>7 DEF Respond, Unanswered
  <2> QED BY <1>0, <2>1, <2>2, <2>3, WorkerMoves, SameRows
<1>8. CASE CallLost(w)
  BY <1>0, <1>8, EndInv DEF CallLost
<1> QED BY <1>1, <1>2, <1>5, <1>6, <1>7, <1>8 DEF WorkerStep

\* A retry about to make its payment attempt names an order.
LEMMA RetryPayOrder ==
    ASSUME OrderTypeOK, NEW r \in Retriers, RetryPay(r)
    PROVE  /\ retry[r].order \in Orders
           /\ create_payment_for_order(retry[r].order)
           /\ RetryEnd(r)
BY DEF OrderTypeOK, RetryPay, Idle

LEMMA FlowStepInv == FlowInv /\ OrderTypeOK /\ [FlowNext]_flowVars => FlowInv'
<1> SUFFICES ASSUME FlowInv, OrderTypeOK, [FlowNext]_flowVars PROVE FlowInv'
  OBVIOUS
<1>1. ASSUME UNCHANGED paymentVars PROVE FlowInv'
  BY <1>1 DEF paymentVars, FlowInv, FlowTypes, CallsHaveOrders, InCall, WorkerOrder, OrderOf
<1>2. ASSUME NEW o \in Orders, checkout_payment(o) PROVE FlowInv'
  BY <1>2, CreateInv DEF checkout_payment
<1>3. ASSUME NEW r \in Retriers, RetryPay(r) PROVE FlowInv'
  BY <1>3, RetryPayOrder, CreateInv
<1>4. ASSUME NEW a \in Attempts, NEW k \in Pays, BuyerPays(a, k) \/ BuyerFails(a, k) PROVE FlowInv'
  <2>1. OrderOf(a) \in Orders
    BY <1>4 DEF BuyerPays, BuyerFails, CanPay, FlowInv, CallsHaveOrders
  <2> QED BY <1>4, <2>1, GatewayInv DEF BuyerPays, BuyerFails, GatewayStatus
<1>5. ASSUME NEW a \in Attempts, NEW k \in Pays, GatewayCaptures(a, k) PROVE FlowInv'
  <2>1. OrderOf(a) \in Orders
    BY <1>5 DEF GatewayCaptures, GatewayMoves, FlowInv, CallsHaveOrders
  <2> QED BY <1>5, <2>1, GatewayInv DEF GatewayCaptures, GatewayStatus
<1>6. ASSUME NEW w \in Workers, NEW a \in Attempts, NEW k \in Pays, OrderOf(a) \in Orders,
             Start(w, a, k, NoEvent), UNCHANGED hook
      PROVE  FlowInv'
  <2>1. hook' \in [Events -> {"unsent", "sent", "recorded", "answered"}]
    BY <1>6 DEF FlowInv, FlowTypes
  <2> QED BY <1>6, <2>1, StartInv
<1>7. ASSUME NEW w \in Workers, NEW a \in Attempts, NEW k \in Pays, verify_client_callback(w, a, k)
      PROVE  FlowInv'
  BY <1>6, <1>7 DEF verify_client_callback, FlowInv, CallsHaveOrders
<1>8. ASSUME NEW w \in Workers, NEW a \in Attempts, reconcile_payment(w, a) PROVE FlowInv'
  <2>1. payment[a].pay \in Pays
    BY <1>8, PaymentBounds DEF reconcile_payment, FlowInv, FlowTypes, Row, Pays
  <2>2. OrderOf(a) \in Orders
    BY <1>8 DEF reconcile_payment, FlowInv, CallsHaveOrders, NoPayment
  <2> QED BY <1>6, <1>8, <2>1, <2>2 DEF reconcile_payment
<1>9. ASSUME NEW w \in Workers, NEW e \in Events, process_webhook(w, e) PROVE FlowInv'
  <2>1. e[1] \in Attempts /\ e[2] \in Pays /\ OrderOf(e[1]) \in Orders
    BY <1>9 DEF process_webhook, FlowInv, CallsHaveOrders, Events, Unanswered
  <2>2. /\ hook' \in [Events -> {"unsent", "sent", "recorded", "answered"}]
        /\ \A f \in Events : hook'[f] \in Unanswered => hook[f] \in Unanswered
    BY <1>9 DEF process_webhook, FlowInv, FlowTypes, Unanswered
  <2>3. CASE RowLocks
    <3>1. UNCHANGED <<payment, gateway, worker>>
      BY <1>9, <2>3 DEF process_webhook
    <3>2. FlowTypes'
      BY <2>2, <3>1 DEF FlowInv, FlowTypes
    <3>3. CallsHaveOrders'
      BY <2>2, <3>1 DEF FlowInv, CallsHaveOrders, InCall, WorkerOrder, OrderOf
    <3> QED BY <3>2, <3>3 DEF FlowInv
  <2>4. CASE ~RowLocks
    BY <1>9, <2>1, <2>2, <2>4, StartInv DEF process_webhook
  <2> QED BY <2>3, <2>4
<1>10. ASSUME NEW w \in Workers, WorkerStep(w) \/ CallLost(w) PROVE FlowInv'
  BY <1>10, WorkerStepInv
<1>11. CASE FlowNext
  BY <1>1, <1>2, <1>3, <1>4, <1>5, <1>7, <1>8, <1>9, <1>10, <1>11 DEF FlowNext
<1> QED BY <1>1, <1>11 DEF flowVars, paymentVars

-----------------------------------------------------------------------------
(* The refinement                                                          *)

LEMMA FlowStepIsLifecycleStep == FlowInv /\ OrderTypeOK /\ [FlowNext]_flowVars => [Next]_vars
<1> SUFFICES ASSUME FlowInv, OrderTypeOK, [FlowNext]_flowVars PROVE Next \/ UNCHANGED vars
  OBVIOUS
<1>1. CASE OrderMoves
  BY <1>1 DEF OrderMoves, Next, OrderStep
<1>2. ASSUME NEW o \in Orders, checkout_payment(o) PROVE UNCHANGED vars
  BY <1>2 DEF checkout_payment
<1>3. ASSUME NEW r \in Retriers, RetryPay(r) PROVE Next
  BY <1>3, RetryPayOrder DEF Next, RetryStep
<1>4. ASSUME NEW a \in Attempts, NEW k \in Pays, BuyerPays(a, k) \/ BuyerFails(a, k) \/ GatewayCaptures(a, k)
      PROVE  UNCHANGED vars
  BY <1>4 DEF BuyerPays, BuyerFails, GatewayCaptures, GatewayMoves
<1>5. ASSUME NEW w \in Workers, NEW a \in Attempts, NEW k \in Pays,
             verify_client_callback(w, a, k) \/ reconcile_payment(w, a)
      PROVE  UNCHANGED vars
  BY <1>5 DEF verify_client_callback, reconcile_payment, Start
<1>6. ASSUME NEW w \in Workers, NEW a \in Attempts, reconcile_payment(w, a) PROVE UNCHANGED vars
  BY <1>6 DEF reconcile_payment, Start
<1>7. ASSUME NEW w \in Workers, NEW e \in Events, process_webhook(w, e) PROVE UNCHANGED vars
  BY <1>7 DEF process_webhook, Start
<1>8. ASSUME NEW w \in Workers, WorkerStep(w) \/ CallLost(w) PROVE Next \/ UNCHANGED vars
  <2>1. InCall(w) => WorkerOrder(w) \in Orders
    BY DEF FlowInv, CallsHaveOrders
  <2>2. CASE fetch_payment(w) \/ Respond(w)
    BY <2>2 DEF fetch_payment, Respond
  <2>3. CASE ApplyGatewayPaymentState(w)
    <3>1. RecordCapture(WorkerOrder(w)) \/ UNCHANGED vars
      BY <2>3 DEF ApplyGatewayPaymentState
    <3> QED BY <2>1, <2>3, <3>1 DEF ApplyGatewayPaymentState, At, InCall, Next, OrderStep
  <2>4. CASE RunPipeline(w)
    BY <2>1, <2>4 DEF RunPipeline, At, InCall, Next, OrderStep
  <2>5. CASE MakePapers(w)
    BY <2>1, <2>5 DEF MakePapers, At, InCall, Next, OrderStep
  <2>6. CASE CallLost(w)
    BY <2>1, <2>6 DEF CallLost, At, InCall, Next, OrderStep
  <2> QED BY <1>8, <2>2, <2>3, <2>4, <2>5, <2>6 DEF WorkerStep
<1>9. CASE FlowNext
  BY <1>1, <1>2, <1>3, <1>4, <1>5, <1>6, <1>7, <1>8, <1>9 DEF FlowNext
<1> QED BY <1>9 DEF flowVars

\* The payment code does to orders only what OrderLifecycle lets it: two callers that race, an
\* event delivered twice or late, or a call lost half way add nothing to what is proved there.
THEOREM PaymentsImplementLifecycle == FlowSpec => ImplementsOrderLifecycle
<1>1. FlowInit => Init /\ FlowInv /\ OrderTypeOK
  BY FlowInitInv, OrderTypeInit DEF FlowInit
<1>2. FlowInv /\ OrderTypeOK /\ [FlowNext]_flowVars => (FlowInv /\ OrderTypeOK)'
  BY FlowStepInv, FlowStepIsLifecycleStep, OrderTypeStep
<1> QED BY <1>1, <1>2, FlowStepIsLifecycleStep, PTL DEF FlowSpec, Spec, ImplementsOrderLifecycle

-----------------------------------------------------------------------------
(* Only the gateway confirms                                               *)

\* What is recorded, or is about to be, is what the gateway holds: a capture is final there.
MoneyInv ==
    /\ \A o \in Orders : captured[o] =>
            \E a \in Attempts, k \in Pays : OrderOf(a) = o /\ gateway[a][k] = "captured"
    /\ \A w \in Workers : InCall(w) /\ worker[w].fetched = "captured" =>
            gateway[worker[w].attempt][worker[w].pay] = "captured"

\* Rows keep their orders and captures stay captured, whatever step is taken.
LEMMA MoneyIsStable ==
    ASSUME FlowInv, OrderTypeOK, [FlowNext]_flowVars
    PROVE  /\ \A a \in Attempts : OrderOf(a) \in Orders => OrderOf(a)' = OrderOf(a)
           /\ \A a \in Attempts, k \in Pays : gateway[a][k] = "captured" => gateway'[a][k] = "captured"
<1> DEFINE Stable == /\ \A a \in Attempts : OrderOf(a) \in Orders => OrderOf(a)' = OrderOf(a)
                     /\ \A a \in Attempts, k \in Pays : gateway[a][k] = "captured" => gateway'[a][k] = "captured"
<1> SUFFICES Stable
  OBVIOUS
<1>1. ASSUME UNCHANGED <<payment, gateway>> PROVE Stable
  BY <1>1 DEF OrderOf
<1>2. ASSUME NEW o \in Orders, create_payment_for_order(o) PROVE Stable
  <2>1. gateway' = gateway
    BY <1>2 DEF create_payment_for_order
  <2>2. \A a \in Attempts : payment'[a] = payment[a] \/ payment[a] = NoPayment
    BY <1>2, CreateKeepsOrders
  <2>3. NoPayment.order \notin Orders
    BY RetryAssumption DEF NoPayment
  <2> QED BY <2>1, <2>2, <2>3 DEF OrderOf
<1>3. ASSUME NEW a \in Attempts, NEW k \in Pays, BuyerPays(a, k) \/ BuyerFails(a, k) \/ GatewayCaptures(a, k)
      PROVE  Stable
  <2>1. PICK from \in {"none", "authorized"}, to \in GatewayStatus : GatewayMoves(a, k, from, to)
    BY <1>3 DEF BuyerPays, BuyerFails, GatewayCaptures, GatewayStatus
  <2>2. \A b \in Attempts, l \in Pays : gateway'[b][l] = IF b = a /\ l = k THEN to ELSE gateway[b][l]
    BY <2>1 DEF FlowInv, FlowTypes, GatewayMoves
  <2> QED BY <2>1, <2>2 DEF GatewayMoves, OrderOf
<1>4. ASSUME NEW w \in Workers, ApplyGatewayPaymentState(w) PROVE Stable
  <2>1. InCall(w) /\ gateway' = gateway
    BY <1>4 DEF ApplyGatewayPaymentState, At, InCall
  <2>2. worker[w] \in Call /\ worker[w].copy.order = WorkerOrder(w)
    BY <2>1 DEF FlowInv, FlowTypes, CallsHaveOrders
  <2>3. [worker[w].copy EXCEPT !.status = worker[w].fetched, !.pay = worker[w].pay].order = WorkerOrder(w)
    BY <2>2 DEF Call, Row
  <2> QED BY <1>4, <2>1, <2>3 DEF ApplyGatewayPaymentState, OrderOf, WorkerOrder, FlowInv, FlowTypes
<1>5. CASE FlowNext
  <2>1. CASE OrderMoves /\ UNCHANGED paymentVars
    BY <1>1, <2>1 DEF paymentVars
  <2>2. ASSUME NEW o \in Orders, checkout_payment(o) PROVE Stable
    BY <1>2, <2>2 DEF checkout_payment
  <2>3. ASSUME NEW r \in Retriers, RetryPay(r) PROVE Stable
    BY <1>2, <2>3, RetryPayOrder
  <2>4. ASSUME NEW w \in Workers, NEW a \in Attempts, NEW k \in Pays, verify_client_callback(w, a, k)
        PROVE  Stable
    BY <1>1, <2>4 DEF verify_client_callback, Start
  <2>5. ASSUME NEW w \in Workers, NEW a \in Attempts, reconcile_payment(w, a) PROVE Stable
    BY <1>1, <2>5 DEF reconcile_payment, Start
  <2>6. ASSUME NEW w \in Workers, NEW e \in Events, process_webhook(w, e) PROVE Stable
    BY <1>1, <2>6 DEF process_webhook, Start
  <2>7. ASSUME NEW w \in Workers, WorkerStep(w) \/ CallLost(w) PROVE Stable
    BY <1>1, <1>4, <2>7 DEF WorkerStep, fetch_payment, RunPipeline, MakePapers, Respond, CallLost
  <2> QED BY <1>3, <1>5, <2>1, <2>2, <2>3, <2>4, <2>5, <2>6, <2>7 DEF FlowNext
<1> QED BY <1>1, <1>5 DEF flowVars, paymentVars

\* A capture is recorded by the call that saves the row, and that call fetched it.
LEMMA RecordedByApply ==
    ASSUME FlowInv, OrderTypeOK, [FlowNext]_flowVars, NEW o \in Orders, captured'[o], ~captured[o]
    PROVE  \E w \in Workers : ApplyGatewayPaymentState(w) /\ worker[w].fetched = "captured" /\ WorkerOrder(w) = o
<1>1. ASSUME OrderMoves PROVE captured' = captured
  BY <1>1 DEF OrderMoves, checkout, cancel_order, CancelUnderLock, GetOlder, release_expired_reservations,
              StaleVisit, StaleQuery, RetryStep, RetryRead, RetryReserve, RetrySave, RetryEnd,
              OthersUnchanged, OnlyRetryMoves
<1>2. ASSUME NEW w \in Workers, ApplyGatewayPaymentState(w)
      PROVE  \E v \in Workers : ApplyGatewayPaymentState(v) /\ worker[v].fetched = "captured" /\ WorkerOrder(v) = o
  <2>2. worker[w].fetched = "captured" /\ RecordCapture(WorkerOrder(w))
    BY <1>2 DEF ApplyGatewayPaymentState, vars, orderVars
  <2>3. WorkerOrder(w) = o
    BY <2>2 DEF RecordCapture, OrderTypeOK
  <2> QED BY <1>2, <2>2, <2>3
<1>3. ASSUME NEW w \in Workers, WorkerStep(w) \/ CallLost(w), ~ApplyGatewayPaymentState(w)
      PROVE  captured' = captured
  BY <1>3 DEF WorkerStep, fetch_payment, RunPipeline, MakePapers, Respond, CallLost, MakePaper, PipelineDies,
              on_payment_captured, on_payment_failed, OthersUnchanged, vars, orderVars
<1>4. ASSUME NEW r \in Retriers, RetryPay(r) PROVE captured' = captured
  BY <1>4, RetryPayOrder DEF RetryEnd, OnlyRetryMoves
<1>5. ASSUME UNCHANGED vars PROVE captured' = captured
  BY <1>5 DEF vars, orderVars
<1>6. FlowNext
  BY DEF flowVars, vars, orderVars
<1>7. ASSUME NEW a \in Attempts, NEW k \in Pays, BuyerPays(a, k) \/ BuyerFails(a, k) \/ GatewayCaptures(a, k)
      PROVE  UNCHANGED vars
  BY <1>7 DEF BuyerPays, BuyerFails, GatewayCaptures, GatewayMoves
<1>8. ASSUME NEW w \in Workers PROVE
        /\ \A a \in Attempts, k \in Pays : verify_client_callback(w, a, k) => UNCHANGED vars
        /\ \A a \in Attempts : reconcile_payment(w, a) => UNCHANGED vars
        /\ \A e \in Events : process_webhook(w, e) => UNCHANGED vars
  BY DEF verify_client_callback, reconcile_payment, process_webhook, Start
<1>9. ASSUME NEW x \in Orders, checkout_payment(x) PROVE UNCHANGED vars
  BY <1>9 DEF checkout_payment
<1> QED BY <1>1, <1>2, <1>3, <1>4, <1>5, <1>6, <1>7, <1>8, <1>9 DEF FlowNext

LEMMA CaptureIsFetched ==
    ASSUME FlowInv, OrderTypeOK, [FlowNext]_flowVars, NEW o \in Orders, captured'[o], ~captured[o]
    PROVE  \E w \in Workers : InCall(w) /\ worker[w].fetched = "captured" /\ WorkerOrder(w) = o
BY RecordedByApply DEF ApplyGatewayPaymentState, At, InCall

\* A capture that a call holds came out of the gateway.
LEMMA FetchIsGateway ==
    ASSUME FlowInv, MoneyInv, OrderTypeOK, [FlowNext]_flowVars,
           NEW w \in Workers, InCall(w)', worker'[w].fetched = "captured"
    PROVE  gateway[worker'[w].attempt][worker'[w].pay] = "captured"
           /\ worker'[w].attempt \in Attempts /\ worker'[w].pay \in Pays
<1> DEFINE Goal == /\ gateway[worker'[w].attempt][worker'[w].pay] = "captured"
                   /\ worker'[w].attempt \in Attempts /\ worker'[w].pay \in Pays
<1> SUFFICES Goal
  OBVIOUS
<1>0. worker \in [Workers -> Call]
  BY DEF FlowInv, FlowTypes
<1>1. ASSUME worker'[w] = worker[w] PROVE Goal
  BY <1>1 DEF MoneyInv, FlowInv, CallsHaveOrders, InCall
<1>2. ASSUME NEW v \in Workers, NEW pc, InCall(v), Goto(v, pc) PROVE Goal
  <2>1. CASE v = w
    <3>1. /\ worker'[w].attempt = worker[w].attempt /\ worker'[w].pay = worker[w].pay
          /\ worker'[w].fetched = worker[w].fetched
      BY <1>0, <1>2, <2>1 DEF Goto, Call
    <3> QED BY <1>2, <2>1, <3>1 DEF MoneyInv, FlowInv, CallsHaveOrders
  <2>2. CASE v # w
    BY <1>0, <1>1, <1>2, <2>2 DEF Goto
  <2> QED BY <2>1, <2>2
<1>3. ASSUME NEW v \in Workers, NEW c, worker' = [worker EXCEPT ![v] = c],
             c.pc \notin {"fetch", "apply", "captured", "failed", "papers"} \/ c.fetched # "captured"
      PROVE  Goal
  <2>1. CASE v = w
    BY <1>0, <1>3, <2>1 DEF InCall
  <2>2. CASE v # w
    BY <1>0, <1>1, <1>3, <2>2
  <2> QED BY <2>1, <2>2
<1>4. ASSUME NEW v \in Workers, Finish(v) PROVE Goal
  BY <1>3, <1>4, FinishedCall
<1>5. ASSUME NEW v \in Workers, NEW a, NEW k, NEW e, Start(v, a, k, e) PROVE Goal
  <2> DEFINE c == [pc |-> "fetch", attempt |-> a, pay |-> k, event |-> e, copy |-> payment[a], fetched |-> "none"]
  <2>1. worker' = [worker EXCEPT ![v] = c] /\ c.fetched # "captured"
    BY <1>5 DEF Start
  <2> HIDE DEF c
  <2> QED BY <1>3, <2>1
<1>6. ASSUME NEW v \in Workers, fetch_payment(v) PROVE Goal
  <2>1. CASE v = w
    <3>1. /\ worker'[w].attempt = worker[w].attempt /\ worker'[w].pay = worker[w].pay
          /\ worker'[w].fetched = gateway[worker[w].attempt][worker[w].pay]
      BY <1>0, <1>6, <2>1 DEF fetch_payment, Call
    <3>2. InCall(v)
      BY <1>6 DEF fetch_payment, At, InCall
    <3> QED BY <2>1, <3>1, <3>2 DEF FlowInv, CallsHaveOrders
  <2>2. CASE v # w
    BY <1>0, <1>1, <1>6, <2>2 DEF fetch_payment
  <2> QED BY <2>1, <2>2
<1>7. ASSUME NEW v \in Workers, worker' = [worker EXCEPT ![v] = Free] PROVE Goal
  BY <1>3, <1>7, FreeIsCall
<1>8. ASSUME NEW v \in Workers, WorkerStep(v) \/ CallLost(v) PROVE Goal
  <2>1. CASE ApplyGatewayPaymentState(v)
    BY <1>2, <1>4, <2>1 DEF ApplyGatewayPaymentState, At, InCall
  <2>2. CASE RunPipeline(v)
    BY <1>2, <1>4, <2>2 DEF RunPipeline, At, InCall
  <2>3. CASE MakePapers(v)
    BY <1>2, <1>4, <2>3 DEF MakePapers, At, InCall
  <2>4. CASE Respond(v) \/ CallLost(v)
    BY <1>7, <2>4 DEF Respond, CallLost
  <2> QED BY <1>6, <1>8, <2>1, <2>2, <2>3, <2>4 DEF WorkerStep
<1>9. CASE UNCHANGED worker
  BY <1>1, <1>9
<1>10. CASE FlowNext
  <2>1. ASSUME NEW r \in Retriers, RetryPay(r) PROVE UNCHANGED worker
    BY <2>1, RetryPayOrder DEF create_payment_for_order
  <2>2. ASSUME NEW o \in Orders, checkout_payment(o) PROVE UNCHANGED worker
    BY <2>2 DEF checkout_payment, create_payment_for_order
  <2>3. ASSUME NEW a \in Attempts, NEW k \in Pays, BuyerPays(a, k) \/ BuyerFails(a, k) \/ GatewayCaptures(a, k)
        PROVE  UNCHANGED worker
    BY <2>3 DEF BuyerPays, BuyerFails, GatewayCaptures, GatewayMoves
  <2>4. ASSUME NEW v \in Workers, NEW e \in Events, process_webhook(v, e) PROVE Goal
    BY <1>5, <1>9, <2>4 DEF process_webhook
  <2>5. ASSUME NEW v \in Workers, NEW a \in Attempts, NEW k \in Pays, verify_client_callback(v, a, k)
        PROVE  Goal
    BY <1>5, <2>5 DEF verify_client_callback
  <2>6. ASSUME NEW v \in Workers, NEW a \in Attempts, reconcile_payment(v, a) PROVE Goal
    BY <1>5, <2>6 DEF reconcile_payment
  <2>7. CASE UNCHANGED paymentVars
    BY <1>9, <2>7 DEF paymentVars
  <2> HIDE DEF Goal
  <2> QED BY <1>8, <1>9, <1>10, <2>1, <2>2, <2>3, <2>4, <2>5, <2>6, <2>7 DEF FlowNext
<1> QED BY <1>9, <1>10 DEF flowVars, paymentVars

LEMMA MoneyStep == FlowInv /\ OrderTypeOK /\ MoneyInv /\ [FlowNext]_flowVars => MoneyInv'
<1> SUFFICES ASSUME FlowInv, OrderTypeOK, MoneyInv, [FlowNext]_flowVars PROVE MoneyInv'
  OBVIOUS
<1>1. ASSUME NEW o \in Orders, captured'[o]
      PROVE  \E a \in Attempts, k \in Pays : OrderOf(a)' = o /\ gateway'[a][k] = "captured"
  <2>1. PICK a \in Attempts, k \in Pays : OrderOf(a) = o /\ gateway[a][k] = "captured"
    <3>1. CASE captured[o]
      BY <3>1 DEF MoneyInv
    <3>2. CASE ~captured[o]
      <4>1. PICK w \in Workers : InCall(w) /\ worker[w].fetched = "captured" /\ WorkerOrder(w) = o
        BY <1>1, <3>2, CaptureIsFetched
      <4> QED BY <4>1 DEF MoneyInv, FlowInv, CallsHaveOrders, WorkerOrder
    <3> QED BY <3>1, <3>2
  <2> QED BY <2>1, MoneyIsStable
<1>2. ASSUME NEW w \in Workers, InCall(w)', worker'[w].fetched = "captured"
      PROVE  gateway'[worker'[w].attempt][worker'[w].pay] = "captured"
  BY <1>2, FetchIsGateway, MoneyIsStable
<1> QED BY <1>1, <1>2 DEF MoneyInv

\* An order is confirmed, shipped or delivered only if the gateway itself holds the captured money
\* for it (payments/services.py, the module docstring), however browsers, events, staff and
\* retries race and wherever calls are lost.
THEOREM OnlyTheGatewayConfirms == FlowSpec => []ConfirmedOnlyByTheGateway
<1>1. FlowInit => FlowInv /\ OrderTypeOK /\ MoneyInv
  <2> SUFFICES ASSUME FlowInit PROVE MoneyInv
    BY FlowInitInv, OrderTypeInit DEF FlowInit
  <2> QED BY FreeIsCall DEF FlowInit, Init, MoneyInv, InCall
<1>2. FlowInv /\ OrderTypeOK /\ MoneyInv /\ [FlowNext]_flowVars => (FlowInv /\ OrderTypeOK /\ MoneyInv)'
  BY FlowStepInv, FlowStepIsLifecycleStep, OrderTypeStep, MoneyStep
<1>3. FlowSpec => []ShippedOnlyIfPaid
  BY PaymentsImplementLifecycle, PaidBeforeShipped, PTL DEF ImplementsOrderLifecycle
<1>4. MoneyInv /\ ShippedOnlyIfPaid => ConfirmedOnlyByTheGateway
  BY DEF MoneyInv, ShippedOnlyIfPaid, ConfirmedOnlyByTheGateway
<1> QED BY <1>1, <1>2, <1>3, <1>4, PTL DEF FlowSpec

-----------------------------------------------------------------------------
(* What rows, events and calls say is true                                 *)
(*                                                                         *)
(* A call carries its copy of the row and what it fetched over steps that  *)
(* hold no lock, so both may be old when they are used.  They stay true in *)
(* one direction: orders of rows, captures at the gateway and recorded     *)
(* captures are never taken back (Kept), and everything a call says        *)
(* (CallTrue) rests on these alone.                                        *)

LiveRow == [order : Orders, status : PaymentStatus, pay : 0..MaxPays]

\* A row that says captured belongs to an order whose capture is recorded, and the gateway payment
\* a row names exists.
RowsTrue ==
    \A a \in Attempts :
        /\ payment[a] = NoPayment \/ payment[a] \in LiveRow
        /\ payment[a].status = "captured" => captured[OrderOf(a)]
        /\ payment[a].pay # 0 => gateway[a][payment[a].pay] # "none"

\* An event tells of a capture that is there, and was answered only when that was recorded.
EventsTrue ==
    \A e \in Events : e[3] = "captured" =>
        /\ hook[e] \in Unanswered => gateway[e[1]][e[2]] = "captured"
        /\ hook[e] = "answered" => OrderOf(e[1]) \in Orders /\ captured[OrderOf(e[1])]

\* The call a worker makes, in a state with these rows, gateway payments and recorded captures:
\* one made for an event fetches the payment the event is about.
FetchTrue(c, rows, held, paid) ==
    /\ c.copy \in LiveRow
    /\ held[c.attempt][c.pay] # "none"
    /\ c.event # NoEvent => c.event[1] = c.attempt /\ c.event[2] = c.pay
    /\ c.event[3] = "captured" => held[c.attempt][c.pay] = "captured"
    /\ c.copy.status = "captured" => paid[rows[c.attempt].order]

\* A call that only has to answer its event.
AnswerTrue(c, rows, paid) ==
    \E e \in Events : /\ c = [Free EXCEPT !.pc = "respond", !.event = e]
                      /\ e[3] = "captured" => rows[e[1]].order \in Orders /\ paid[rows[e[1]].order]

\* What a call has fetched, and what it still has to do once it saved that.
CallTrue(c, rows, held, paid) ==
    /\ c.pc \in {"fetch", "apply", "captured", "failed", "papers"} => FetchTrue(c, rows, held, paid)
    /\ c.pc \in {"apply", "captured", "failed", "papers"} =>
        /\ c.fetched # "none"
        /\ c.event[3] = "captured" => c.fetched = "captured"
    /\ c.pc \in {"captured", "failed"} => c.fetched = c.pc
    /\ c.pc \in {"captured", "papers"} => paid[rows[c.attempt].order]
    /\ c.pc = "papers" => c.fetched = "captured"
    /\ c.pc = "idle" => c = Free
    /\ c.pc = "respond" => AnswerTrue(c, rows, paid)

CallsTrue == \A w \in Workers : CallTrue(worker[w], payment, gateway, captured)

TrueInv == RowsTrue /\ EventsTrue /\ CallsTrue /\ faults \in 0..MaxFaults

\* What no step takes back: whose a row is, that the gateway holds a payment, a capture there, and
\* that a capture is recorded.
Kept(rows, held, paid, rows2, held2, paid2) ==
    /\ \A a \in Attempts : rows[a].order \in Orders => rows2[a].order = rows[a].order
    /\ \A a \in Attempts, k \in Pays : /\ held[a][k] = "captured" => held2[a][k] = "captured"
                                       /\ held[a][k] # "none" => held2[a][k] # "none"
    /\ \A o \in Orders : paid[o] => paid2[o]

KeptByStep == Kept(payment, gateway, captured, payment', gateway', captured')

\* A call works for a row that has an order.
Placed(c, rows) ==
    c.pc \in {"fetch", "apply", "captured", "failed", "papers"} =>
        c.attempt \in Attempts /\ c.pay \in Pays /\ rows[c.attempt].order \in Orders

\* Captures stay recorded.
LEMMA CapturesStay == OrderTypeOK /\ [Next]_vars => \A o \in Orders : captured[o] => captured'[o]
<1> SUFFICES ASSUME OrderTypeOK, [Next]_vars, NEW o \in Orders, captured[o] PROVE captured'[o]
  OBVIOUS
<1>1. CASE UNCHANGED vars
  BY <1>1 DEF vars, orderVars
<1>2. ASSUME NEW p \in Orders, OrderStep(p) PROVE captured'[o]
  <2>1. CASE RecordCapture(p)
    BY <2>1 DEF RecordCapture, OrderTypeOK
  <2> QED BY <1>2, <2>1 DEF OrderStep, checkout, cancel_order, accept_order, mark_order_packed, GetOlder,
             release_expired_reservations, StaleVisit, on_payment_captured, on_payment_failed,
             on_refund_processed, SyncOrderStatus, MakePaper, PipelineDies, CancelUnderLock,
             AdvanceOrderStatus, OthersUnchanged
<1>3. ASSUME NEW r \in Retriers, RetryStep(r) PROVE captured'[o]
  BY <1>3 DEF RetryStep, RetryRead, RetryReserve, RetrySave, RetryEnd, OnlyRetryMoves
<1>4. CASE StaleQuery \/ StaffMovesStock
  BY <1>4 DEF StaleQuery, StaffMovesStock, orderVars
<1> QED BY <1>1, <1>2, <1>3, <1>4 DEF Next

\* The gateway never forgets a payment.
LEMMA GatewayRemembers ==
    ASSUME FlowInv, [FlowNext]_flowVars, NEW a \in Attempts, NEW k \in Pays, gateway[a][k] # "none"
    PROVE  gateway'[a][k] # "none"
<1>1. ASSUME NEW b \in Attempts, NEW l \in Pays, BuyerPays(b, l) \/ BuyerFails(b, l) \/ GatewayCaptures(b, l)
      PROVE  gateway'[a][k] # "none"
  <2>1. PICK from \in {"none", "authorized"}, to \in {"authorized", "captured", "failed"} :
            GatewayMoves(b, l, from, to)
    BY <1>1 DEF BuyerPays, BuyerFails, GatewayCaptures
  <2>2. gateway'[a][k] = IF a = b /\ k = l THEN to ELSE gateway[a][k]
    BY <2>1 DEF FlowInv, FlowTypes, GatewayMoves
  <2> QED BY <2>1, <2>2
<1>2. ASSUME gateway' = gateway PROVE gateway'[a][k] # "none"
  BY <1>2
<1>3. ASSUME NEW o \in Orders, checkout_payment(o) PROVE gateway' = gateway
  BY <1>3 DEF checkout_payment, create_payment_for_order
<1>4. ASSUME NEW r \in Retriers, RetryPay(r) PROVE gateway' = gateway
  BY <1>4 DEF RetryPay, create_payment_for_order
<1>5. ASSUME NEW w \in Workers PROVE
        /\ \A b \in Attempts, l \in Pays : verify_client_callback(w, b, l) => gateway' = gateway
        /\ \A b \in Attempts : reconcile_payment(w, b) => gateway' = gateway
        /\ \A e \in Events : process_webhook(w, e) => gateway' = gateway
  BY DEF verify_client_callback, reconcile_payment, process_webhook, Start
<1>6. ASSUME NEW w \in Workers, WorkerStep(w) \/ CallLost(w) PROVE gateway' = gateway
  BY <1>6 DEF WorkerStep, fetch_payment, ApplyGatewayPaymentState, RunPipeline, MakePapers, Respond, CallLost
<1>7. CASE UNCHANGED paymentVars
  BY <1>2, <1>7 DEF paymentVars
<1> QED BY <1>1, <1>2, <1>3, <1>4, <1>5, <1>6, <1>7 DEF FlowNext, flowVars

LEMMA StepKeeps == FlowInv /\ OrderTypeOK /\ [FlowNext]_flowVars => KeptByStep
<1> SUFFICES ASSUME FlowInv, OrderTypeOK, [FlowNext]_flowVars PROVE KeptByStep
  OBVIOUS
<1>1. [Next]_vars
  BY FlowStepIsLifecycleStep
<1>2. \A o \in Orders : captured[o] => captured'[o]
  BY <1>1, CapturesStay
<1>3. /\ \A a \in Attempts : payment[a].order \in Orders => payment'[a].order = payment[a].order
      /\ \A a \in Attempts, k \in Pays : gateway[a][k] = "captured" => gateway'[a][k] = "captured"
  BY MoneyIsStable DEF OrderOf
<1> QED BY <1>2, <1>3, GatewayRemembers DEF KeptByStep, Kept

\* So what a call says stays true while the others move.
LEMMA CallStaysTrue ==
    ASSUME NEW c, NEW rows, NEW held, NEW paid, NEW rows2, NEW held2, NEW paid2,
           Kept(rows, held, paid, rows2, held2, paid2), Placed(c, rows), CallTrue(c, rows, held, paid)
    PROVE  CallTrue(c, rows2, held2, paid2)
<1>1. ASSUME c.pc \in {"fetch", "apply", "captured", "failed", "papers"} PROVE FetchTrue(c, rows2, held2, paid2)
  BY <1>1 DEF Kept, Placed, CallTrue, FetchTrue
<1>2. ASSUME c.pc \in {"captured", "papers"} PROVE paid2[rows2[c.attempt].order]
  BY <1>2 DEF Kept, Placed, CallTrue
<1>3. ASSUME c.pc = "respond" PROVE AnswerTrue(c, rows2, paid2)
  <2>1. PICK e \in Events : /\ c = [Free EXCEPT !.pc = "respond", !.event = e]
                            /\ e[3] = "captured" => rows[e[1]].order \in Orders /\ paid[rows[e[1]].order]
    BY <1>3 DEF CallTrue, AnswerTrue
  <2>2. e[1] \in Attempts
    BY DEF Events
  <2>3. e[3] = "captured" => rows2[e[1]].order \in Orders /\ paid2[rows2[e[1]].order]
    BY <2>1, <2>2 DEF Kept
  <2> QED BY <2>1, <2>3 DEF AnswerTrue
<1> QED BY <1>1, <1>2, <1>3 DEF CallTrue

\* Every call is in its place.
LEMMA CallsPlaced == FlowInv => \A w \in Workers : worker[w] \in Call /\ Placed(worker[w], payment)
BY DEF FlowInv, FlowTypes, CallsHaveOrders, InCall, WorkerOrder, OrderOf, Placed

LEMMA OthersTrue ==
    ASSUME FlowInv, TrueInv, KeptByStep, NEW w \in Workers, worker'[w] = worker[w]
    PROVE  CallTrue(worker'[w], payment', gateway', captured')
<1>1. PICK c : c = worker[w]
  OBVIOUS
<1>2. Placed(c, payment) /\ CallTrue(c, payment, gateway, captured)
  BY <1>1, CallsPlaced DEF TrueInv, CallsTrue
<1> QED BY <1>1, <1>2, CallStaysTrue DEF KeptByStep

\* A step that moves one worker: it is enough to look at the call it makes.
LEMMA OneCallMoves ==
    ASSUME FlowInv, TrueInv, KeptByStep, NEW w \in Workers, NEW c,
           worker' = [worker EXCEPT ![w] = c], CallTrue(c, payment', gateway', captured')
    PROVE  CallsTrue'
<1>1. \A v \in Workers : worker'[v] = IF v = w THEN c ELSE worker[v]
  BY DEF FlowInv, FlowTypes
<1>2. \A v \in Workers : CallTrue(worker'[v], payment', gateway', captured')
  BY <1>1, OthersTrue
<1> QED BY <1>2 DEF CallsTrue

LEMMA NobodyMoves == FlowInv /\ TrueInv /\ KeptByStep /\ worker' = worker => CallsTrue'
BY OthersTrue DEF CallsTrue

LEMMA FreeIsTrue == \A rows, held, paid : CallTrue(Free, rows, held, paid)
BY DEF CallTrue, Free

\* Rows and events that nobody touches stay true.
LEMMA RowsStayTrue == FlowInv /\ RowsTrue /\ KeptByStep /\ payment' = payment => RowsTrue'
<1> SUFFICES ASSUME FlowInv, RowsTrue, KeptByStep, payment' = payment, NEW a \in Attempts
             PROVE  /\ payment[a] = NoPayment \/ payment[a] \in LiveRow
                    /\ payment[a].status = "captured" => captured'[payment[a].order]
                    /\ payment[a].pay # 0 => gateway'[a][payment[a].pay] # "none"
  BY DEF RowsTrue, OrderOf
<1>1. payment[a] \in Row /\ (payment[a].pay # 0 => payment[a].pay \in Pays)
  BY PaymentBounds DEF FlowInv, FlowTypes, Row, Pays
<1>2. payment[a].status = "captured" => payment[a].order \in Orders
  BY DEF RowsTrue, LiveRow, NoPayment
<1> QED BY <1>1, <1>2 DEF RowsTrue, KeptByStep, Kept, OrderOf

LEMMA EventStaysTrue ==
    ASSUME FlowInv, EventsTrue, KeptByStep, NEW e \in Events, e[3] = "captured", hook'[e] = hook[e]
    PROVE  /\ hook'[e] \in Unanswered => gateway'[e[1]][e[2]] = "captured"
           /\ hook'[e] = "answered" => payment'[e[1]].order \in Orders /\ captured'[payment'[e[1]].order]
<1>1. e[1] \in Attempts /\ e[2] \in Pays
  BY DEF Events
<1>2. hook[e] \in Unanswered => gateway[e[1]][e[2]] = "captured"
  BY DEF EventsTrue
<1>3. hook[e] = "answered" => payment[e[1]].order \in Orders /\ captured[payment[e[1]].order]
  BY DEF EventsTrue, OrderOf
<1>4. payment[e[1]].order \in Orders => payment'[e[1]].order = payment[e[1]].order
  BY <1>1 DEF KeptByStep, Kept
<1> QED BY <1>1, <1>2, <1>3, <1>4 DEF KeptByStep, Kept

LEMMA EventsStayTrue == FlowInv /\ EventsTrue /\ KeptByStep /\ hook' = hook => EventsTrue'
BY EventStaysTrue DEF EventsTrue, OrderOf

-----------------------------------------------------------------------------

LEMMA TrueInit == FlowInit => TrueInv
<1> SUFFICES ASSUME FlowInit PROVE TrueInv
  OBVIOUS
<1>1. RowsTrue
  BY DEF FlowInit, RowsTrue, NoPayment
<1>2. EventsTrue
  BY DEF FlowInit, EventsTrue, Unanswered
<1>3. CallsTrue
  BY FreeIsTrue DEF FlowInit, CallsTrue
<1>4. faults \in 0..MaxFaults
  BY PaymentBounds DEF FlowInit
<1> QED BY <1>1, <1>2, <1>3, <1>4 DEF TrueInv

\* What the order code does alone touches no row, no event and no call.
LEMMA OrdersMoveTrue == FlowInv /\ TrueInv /\ KeptByStep /\ UNCHANGED paymentVars => TrueInv'
BY RowsStayTrue, EventsStayTrue, NobodyMoves DEF paymentVars, TrueInv

LEMMA CreateTrue ==
    ASSUME FlowInv, TrueInv, KeptByStep, NEW o \in Orders, create_payment_for_order(o)
    PROVE  TrueInv'
<1>1. UNCHANGED <<gateway, hook, worker, faults>>
  BY DEF create_payment_for_order
<1>2. PICK a \in Attempts :
        payment' = [payment EXCEPT ![a] = [order |-> o, status |-> "created", pay |-> 0]]
  BY DEF create_payment_for_order
<1>3. [order |-> o, status |-> "created", pay |-> 0] \in LiveRow
  BY PaymentBounds DEF LiveRow, PaymentStatus
<1>4. ASSUME NEW b \in Attempts
      PROVE  /\ payment'[b] = NoPayment \/ payment'[b] \in LiveRow
             /\ payment'[b].status = "captured" => captured'[payment'[b].order]
             /\ payment'[b].pay # 0 => gateway'[b][payment'[b].pay] # "none"
  <2>1. CASE b = a
    BY <1>2, <1>3, <2>1 DEF FlowInv, FlowTypes
  <2>2. CASE b # a
    <3>1. payment'[b] = payment[b]
      BY <1>2, <2>2 DEF FlowInv, FlowTypes
    <3>2. payment[b].status = "captured" => payment[b].order \in Orders
      BY DEF TrueInv, RowsTrue, LiveRow, NoPayment
    <3> QED BY <1>1, <3>1, <3>2 DEF TrueInv, RowsTrue, KeptByStep, Kept, OrderOf
  <2> QED BY <2>1, <2>2
<1>5. RowsTrue'
  BY <1>4 DEF RowsTrue, OrderOf
<1> QED BY <1>1, <1>5, EventsStayTrue, NobodyMoves DEF TrueInv

LEMMA GatewayTrue ==
    ASSUME FlowInv, TrueInv, KeptByStep, NEW a \in Attempts, NEW k \in Pays,
           NEW from \in GatewayStatus, NEW to \in {"authorized", "captured", "failed"},
           GatewayMoves(a, k, from, to)
    PROVE  TrueInv'
<1>1. UNCHANGED <<payment, worker, faults, captured>>
  BY DEF GatewayMoves, vars, orderVars
<1>2. gateway'[a][k] = to
  BY DEF GatewayMoves, FlowInv, FlowTypes
<1>3. ASSUME NEW e \in Events, e[3] = "captured"
      PROVE  /\ hook'[e] \in Unanswered => gateway'[e[1]][e[2]] = "captured"
             /\ hook'[e] = "answered" => payment'[e[1]].order \in Orders /\ captured'[payment'[e[1]].order]
  <2>1. CASE e = <<a, k, to>>
    BY <1>2, <1>3, <2>1 DEF GatewayMoves, FlowInv, FlowTypes, Unanswered
  <2>2. CASE e # <<a, k, to>>
    <3>1. hook'[e] = hook[e]
      BY <2>2 DEF GatewayMoves, FlowInv, FlowTypes
    <3> QED BY <1>3, <3>1, EventStaysTrue DEF TrueInv
  <2> QED BY <2>1, <2>2
<1>4. EventsTrue'
  BY <1>3 DEF EventsTrue, OrderOf
<1> QED BY <1>1, <1>4, RowsStayTrue, NobodyMoves DEF TrueInv

\* A call that starts on a gateway payment, for its event or for none.
LEMMA StartTrue ==
    ASSUME FlowInv, TrueInv, KeptByStep, NEW w \in Workers, NEW a \in Attempts, NEW k \in Pays,
           NEW e \in Events \union {NoEvent}, Start(w, a, k, e), gateway[a][k] # "none",
           e # NoEvent => e[1] = a /\ e[2] = k,
           e[3] = "captured" => gateway[a][k] = "captured"
    PROVE  CallsTrue'
<1>1. PICK c : c = [pc |-> "fetch", attempt |-> a, pay |-> k, event |-> e, copy |-> payment[a], fetched |-> "none"]
  OBVIOUS
<1>2. worker' = [worker EXCEPT ![w] = c] /\ payment' = payment /\ gateway' = gateway /\ captured' = captured
  BY <1>1 DEF Start, vars, orderVars
<1>3. payment[a] \in LiveRow
  BY RetryAssumption DEF FlowInv, CallsHaveOrders, TrueInv, RowsTrue, OrderOf, NoPayment
<1>4. FetchTrue(c, payment, gateway, captured)
  BY <1>1, <1>3 DEF FetchTrue, TrueInv, RowsTrue, OrderOf
<1>5. CallTrue(c, payment', gateway', captured')
  BY <1>1, <1>2, <1>4 DEF CallTrue
<1> QED BY <1>2, <1>5, OneCallMoves

\* What Finish leaves: nothing, or an event to answer.
LEMMA FinishTrue ==
    ASSUME FlowInv, TrueInv, KeptByStep, NEW w \in Workers, InCall(w), Finish(w),
           worker[w].event[3] = "captured" => captured'[WorkerOrder(w)]
    PROVE  CallsTrue'
<1>1. PICK c : c = IF worker[w].event = NoEvent THEN Free
                   ELSE [Free EXCEPT !.pc = "respond", !.event = worker[w].event]
  OBVIOUS
<1>2. worker' = [worker EXCEPT ![w] = c]
  BY <1>1 DEF Finish
<1>3. CASE worker[w].event = NoEvent
  BY <1>1, <1>2, <1>3, FreeIsTrue, OneCallMoves
<1>4. CASE worker[w].event # NoEvent
  <2>1. PICK e \in Events : e = worker[w].event
    BY <1>4, CallsPlaced DEF Call
  <2>2. c = [Free EXCEPT !.pc = "respond", !.event = e] /\ c.pc = "respond"
    BY <1>1, <1>4, <2>1 DEF Free
  <2>3. e[1] = worker[w].attempt
    BY <1>4, <2>1 DEF TrueInv, CallsTrue, CallTrue, FetchTrue, InCall
  <2>4. payment'[e[1]].order = WorkerOrder(w) /\ WorkerOrder(w) \in Orders
    BY <2>3 DEF FlowInv, CallsHaveOrders, KeptByStep, Kept, WorkerOrder, OrderOf
  <2>5. AnswerTrue(c, payment', captured')
    BY <2>1, <2>2, <2>4 DEF AnswerTrue
  <2>6. CallTrue(c, payment', gateway', captured')
    BY <2>2, <2>5 DEF CallTrue
  <2> QED BY <1>2, <2>6, OneCallMoves
<1> QED BY <1>3, <1>4

\* A call that goes on, with a new pc and perhaps what it has fetched.
LEMMA GoOnTrue ==
    ASSUME FlowInv, TrueInv, KeptByStep, NEW w \in Workers, InCall(w),
           NEW pc \in {"apply", "captured", "failed", "papers"}, NEW f \in PaymentStatus,
           worker' = [worker EXCEPT ![w] = [worker[w] EXCEPT !.pc = pc, !.fetched = f]],
           worker[w].event[3] = "captured" => f = "captured",
           pc \in {"captured", "failed"} => f = pc,
           pc \in {"captured", "papers"} => captured'[WorkerOrder(w)],
           pc = "papers" => f = "captured"
    PROVE  CallsTrue'
<1>1. PICK b : b = worker[w]
  OBVIOUS
<1>2. PICK c : c = [b EXCEPT !.pc = pc, !.fetched = f]
  OBVIOUS
<1>3. b \in Call /\ Placed(b, payment) /\ CallTrue(b, payment, gateway, captured)
  BY <1>1, CallsPlaced DEF TrueInv, CallsTrue
<1>4. /\ c.pc = pc /\ c.fetched = f /\ c.attempt = b.attempt /\ c.pay = b.pay /\ c.event = b.event
      /\ c.copy = b.copy
  BY <1>2, <1>3 DEF Call
<1>5. CallTrue(b, payment', gateway', captured')
  BY <1>3, CallStaysTrue DEF KeptByStep
<1>6. FetchTrue(b, payment', gateway', captured')
  BY <1>1, <1>5 DEF CallTrue, InCall
<1>7. FetchTrue(c, payment', gateway', captured')
  BY <1>4, <1>6 DEF FetchTrue
<1>8. payment'[c.attempt].order = WorkerOrder(w)
  BY <1>1, <1>4 DEF FlowInv, CallsHaveOrders, KeptByStep, Kept, WorkerOrder, OrderOf
<1>9. f # "none"
  BY DEF PaymentStatus
<1>10. CallTrue(c, payment', gateway', captured')
  BY <1>1, <1>4, <1>7, <1>8, <1>9 DEF CallTrue
<1> QED BY <1>1, <1>2, <1>10, OneCallMoves

\* The facts a running call carries.
LEMMA CallFacts ==
    ASSUME FlowInv, TrueInv, NEW w \in Workers, InCall(w)
    PROVE  /\ worker[w] \in Call /\ worker[w].attempt \in Attempts /\ worker[w].pay \in Pays
           /\ WorkerOrder(w) \in Orders
           /\ CallTrue(worker[w], payment, gateway, captured)
           /\ FetchTrue(worker[w], payment, gateway, captured)
BY DEF FlowInv, FlowTypes, CallsHaveOrders, TrueInv, CallsTrue, CallTrue, InCall

LEMMA FetchStepTrue ==
    ASSUME FlowInv, TrueInv, KeptByStep, NEW w \in Workers, fetch_payment(w)
    PROVE  TrueInv'
<1>1. InCall(w) /\ UNCHANGED <<payment, gateway, hook, faults>>
  BY DEF fetch_payment, At, InCall
<1>2. PICK f : f = gateway[worker[w].attempt][worker[w].pay]
  OBVIOUS
<1>3. f \in PaymentStatus
  BY <1>1, <1>2, CallFacts DEF FlowInv, FlowTypes, GatewayStatus, PaymentStatus, FetchTrue
<1>4. worker[w].event[3] = "captured" => f = "captured"
  BY <1>1, <1>2, CallFacts DEF FetchTrue
<1>5. worker' = [worker EXCEPT ![w] = [worker[w] EXCEPT !.pc = "apply", !.fetched = f]]
  BY <1>1, <1>2, CallFacts DEF fetch_payment, FlowInv, FlowTypes
<1>6. CallsTrue'
  BY <1>1, <1>3, <1>4, <1>5, GoOnTrue
<1> QED BY <1>1, <1>6, RowsStayTrue, EventsStayTrue DEF TrueInv

\* A row that was saved says what was fetched.
LEMMA SavedRowsTrue ==
    ASSUME FlowInv, TrueInv, KeptByStep, NEW w \in Workers, At(w, "apply"),
           payment' = [payment EXCEPT ![worker[w].attempt] =
                          [worker[w].copy EXCEPT !.status = worker[w].fetched, !.pay = worker[w].pay]],
           worker[w].fetched = "captured" => captured'[WorkerOrder(w)]
    PROVE  RowsTrue'
<1>1. PICK row : row = [worker[w].copy EXCEPT !.status = worker[w].fetched, !.pay = worker[w].pay]
  OBVIOUS
<1>2. InCall(w)
  BY DEF At, InCall
<1>3. worker[w].copy \in LiveRow /\ worker[w].fetched \in PaymentStatus
  BY <1>2, CallFacts DEF CallTrue, FetchTrue, Call, At
<1>4. row \in LiveRow /\ row.status = worker[w].fetched /\ row.pay = worker[w].pay
  <2>1. PICK copy \in LiveRow, st \in PaymentStatus, k \in Pays :
            copy = worker[w].copy /\ st = worker[w].fetched /\ k = worker[w].pay
    BY <1>2, <1>3, CallFacts
  <2>2. k \in 0..MaxPays
    BY PaymentBounds DEF Pays
  <2>3. row = [copy EXCEPT !.status = st, !.pay = k]
    BY <1>1, <2>1
  <2>4. row \in LiveRow /\ row.status = st /\ row.pay = k
    BY ONLY <2>2, <2>3, copy \in LiveRow, st \in PaymentStatus DEF LiveRow
  <2> QED BY <2>1, <2>4
<1>5. ASSUME NEW a \in Attempts
      PROVE  /\ payment'[a] = NoPayment \/ payment'[a] \in LiveRow
             /\ payment'[a].status = "captured" => captured'[payment'[a].order]
             /\ payment'[a].pay # 0 => gateway'[a][payment'[a].pay] # "none"
  <2>1. CASE a = worker[w].attempt
    <3>1. payment'[a] = row
      BY <1>1, <1>2, <2>1 DEF FlowInv, FlowTypes
    <3>2. payment'[a].order = WorkerOrder(w)
      BY <1>2, <2>1, CallFacts DEF KeptByStep, Kept, WorkerOrder, OrderOf
    <3>3. gateway'[a][row.pay] # "none"
      BY <1>2, <1>4, <2>1, CallFacts DEF FetchTrue, KeptByStep, Kept
    <3> QED BY <1>4, <3>1, <3>2, <3>3
  <2>2. CASE a # worker[w].attempt
    <3>1. payment'[a] = payment[a]
      BY <2>2 DEF FlowInv, FlowTypes
    <3>2. payment[a].status = "captured" => payment[a].order \in Orders
      BY DEF TrueInv, RowsTrue, LiveRow, NoPayment
    <3>3. payment[a].pay # 0 => payment[a].pay \in Pays
      BY PaymentBounds DEF FlowInv, FlowTypes, Row, Pays
    <3> QED BY <3>1, <3>2, <3>3 DEF TrueInv, RowsTrue, KeptByStep, Kept, OrderOf
  <2> QED BY <2>1, <2>2
<1> QED BY <1>5 DEF RowsTrue, OrderOf

LEMMA ApplyTrue ==
    ASSUME FlowInv, OrderTypeOK, TrueInv, KeptByStep, NEW w \in Workers, ApplyGatewayPaymentState(w)
    PROVE  TrueInv'
<1>1. InCall(w) /\ At(w, "apply") /\ UNCHANGED <<gateway, hook, faults>>
  BY DEF ApplyGatewayPaymentState, At, InCall
<1>2. /\ worker[w].fetched \in PaymentStatus
      /\ worker[w].event[3] = "captured" => worker[w].fetched = "captured"
      /\ worker[w].copy.status = "captured" => captured[WorkerOrder(w)]
  BY <1>1, CallFacts DEF CallTrue, FetchTrue, Call, At, WorkerOrder, OrderOf
<1>3. WorkerOrder(w) \in Orders
  BY <1>1, CallFacts
<1>4. EventsTrue'
  BY <1>1, EventsStayTrue DEF TrueInv
<1>5. CASE AlreadyApplied(w)
  <2>1. Finish(w) /\ UNCHANGED <<payment, captured>>
    BY <1>5 DEF ApplyGatewayPaymentState, vars, orderVars
  <2>2. worker[w].event[3] = "captured" => captured'[WorkerOrder(w)]
    BY <1>2, <1>5, <2>1 DEF AlreadyApplied
  <2>3. CallsTrue'
    BY <1>1, <2>1, <2>2, FinishTrue
  <2> QED BY <1>1, <1>4, <2>1, <2>3, RowsStayTrue DEF TrueInv
<1>6. CASE ~AlreadyApplied(w)
  <2>1. payment' = [payment EXCEPT ![worker[w].attempt] =
                      [worker[w].copy EXCEPT !.status = worker[w].fetched, !.pay = worker[w].pay]]
    BY <1>6 DEF ApplyGatewayPaymentState
  <2>2. worker[w].fetched = "captured" => captured'[WorkerOrder(w)]
    <3> SUFFICES ASSUME worker[w].fetched = "captured" PROVE captured'[WorkerOrder(w)]
      OBVIOUS
    <3>1. RecordCapture(WorkerOrder(w))
      BY <1>6 DEF ApplyGatewayPaymentState
    <3> QED BY <1>3, <3>1 DEF RecordCapture, OrderTypeOK
  <2>3. RowsTrue'
    BY <1>1, <2>1, <2>2, SavedRowsTrue
  <2>4. CASE HasCallback(w)
    <3>1. PICK pc : pc = worker[w].fetched
      OBVIOUS
    <3>2. pc \in {"captured", "failed"}
      BY <2>4, <3>1 DEF HasCallback, TERMINAL_STATUSES
    <3>3. worker' = [worker EXCEPT ![w] = [worker[w] EXCEPT !.pc = pc, !.fetched = pc]]
      BY <1>1, <1>6, <2>4, <3>1, CallFacts DEF ApplyGatewayPaymentState, Goto, Call
    <3>4. CallsTrue'
      BY <1>1, <1>2, <2>2, <3>1, <3>2, <3>3, GoOnTrue
    <3> QED BY <1>1, <1>4, <2>3, <3>4 DEF TrueInv
  <2>5. CASE ~HasCallback(w)
    <3>1. Finish(w)
      BY <1>6, <2>5 DEF ApplyGatewayPaymentState
    <3>2. CallsTrue'
      BY <1>1, <1>2, <2>2, <3>1, FinishTrue
    <3> QED BY <1>1, <1>4, <2>3, <3>2 DEF TrueInv
  <2> QED BY <2>4, <2>5
<1> QED BY <1>5, <1>6

\* The steps after the row was saved.
LEMMA PipelineTrue ==
    ASSUME FlowInv, TrueInv, KeptByStep, NEW w \in Workers, RunPipeline(w) \/ MakePapers(w)
    PROVE  TrueInv'
<1>1. InCall(w) /\ UNCHANGED <<payment, gateway, hook, faults>>
  BY DEF RunPipeline, MakePapers, At, InCall
<1>2. worker[w].pc \in {"captured", "failed", "papers"}
  BY DEF RunPipeline, MakePapers, At
<1>3. /\ worker[w].pc # "failed" => worker[w].fetched = "captured" /\ captured[WorkerOrder(w)]
      /\ worker[w].event[3] = "captured" => worker[w].pc # "failed"
  <2>1. CallTrue(worker[w], payment, gateway, captured)
    BY <1>1, CallFacts
  <2>2. CASE worker[w].pc = "captured"
    BY <2>1, <2>2 DEF CallTrue, WorkerOrder, OrderOf
  <2>3. CASE worker[w].pc = "failed"
    BY <2>1, <2>3 DEF CallTrue
  <2>4. CASE worker[w].pc = "papers"
    <3>1. worker[w].fetched = "captured"
      BY <2>1, <2>4 DEF CallTrue
    <3>2. captured[WorkerOrder(w)]
      BY <2>1, <2>4 DEF CallTrue, WorkerOrder, OrderOf
    <3> QED BY <2>4, <3>1, <3>2
  <2> QED BY <1>2, <2>2, <2>3, <2>4
<1>4. worker[w].pc # "failed" => captured'[WorkerOrder(w)]
  BY <1>1, <1>3, CallFacts DEF KeptByStep, Kept
<1>5. CASE Finish(w)
  <2>1. CallsTrue'
    BY <1>1, <1>3, <1>4, <1>5, FinishTrue
  <2> QED BY <1>1, <2>1, RowsStayTrue, EventsStayTrue DEF TrueInv
<1>6. CASE worker[w].pc # "failed" /\ Goto(w, "papers")
  <2>1. worker' = [worker EXCEPT ![w] = [worker[w] EXCEPT !.pc = "papers", !.fetched = "captured"]]
    BY <1>1, <1>3, <1>6, CallFacts DEF Goto, Call
  <2>2. "captured" \in PaymentStatus
    BY DEF PaymentStatus
  <2>3. CallsTrue'
    BY <1>1, <1>4, <1>6, <2>1, <2>2, GoOnTrue
  <2> QED BY <1>1, <2>3, RowsStayTrue, EventsStayTrue DEF TrueInv
<1> QED BY <1>2, <1>5, <1>6 DEF RunPipeline, MakePapers, At

\* Events that a worker marks, one at a time.
LEMMA MarkedEventTrue ==
    ASSUME FlowInv, TrueInv, KeptByStep, NEW f \in Events, NEW mark \in {"recorded", "answered"},
           hook' = [hook EXCEPT ![f] = mark],
           mark = "recorded" => hook[f] \in Unanswered,
           mark = "answered" /\ f[3] = "captured" =>
                payment[f[1]].order \in Orders /\ captured[payment[f[1]].order]
    PROVE  EventsTrue'
<1>0. f[1] \in Attempts /\ f[2] \in Pays
  BY DEF Events
<1>1. ASSUME NEW e \in Events, e[3] = "captured"
      PROVE  /\ hook'[e] \in Unanswered => gateway'[e[1]][e[2]] = "captured"
             /\ hook'[e] = "answered" => payment'[e[1]].order \in Orders /\ captured'[payment'[e[1]].order]
  <2>1. CASE e # f
    <3>1. hook'[e] = hook[e]
      BY <2>1 DEF FlowInv, FlowTypes
    <3> QED BY <1>1, <3>1, EventStaysTrue DEF TrueInv
  <2>2. CASE e = f /\ mark = "recorded"
    <3>1. hook'[e] = "recorded"
      BY <2>2 DEF FlowInv, FlowTypes
    <3>2. gateway[e[1]][e[2]] = "captured"
      BY <1>1, <2>2 DEF TrueInv, EventsTrue
    <3> QED BY <1>0, <2>2, <3>1, <3>2 DEF KeptByStep, Kept
  <2>3. CASE e = f /\ mark = "answered"
    <3>1. hook'[e] = "answered"
      BY <2>3 DEF FlowInv, FlowTypes
    <3>2. payment[e[1]].order \in Orders /\ captured[payment[e[1]].order]
      BY <1>1, <2>3
    <3> QED BY <1>0, <2>3, <3>1, <3>2 DEF KeptByStep, Kept, Unanswered
  <2> QED BY <2>1, <2>2, <2>3
<1> QED BY <1>1 DEF EventsTrue, OrderOf

LEMMA RespondTrue ==
    ASSUME FlowInv, TrueInv, KeptByStep, NEW w \in Workers, Respond(w)
    PROVE  TrueInv'
<1>1. worker' = [worker EXCEPT ![w] = Free] /\ UNCHANGED <<payment, gateway, captured, faults>>
  BY DEF Respond, vars, orderVars
<1>2. CallsTrue'
  BY <1>1, FreeIsTrue, OneCallMoves
<1>3. AnswerTrue(worker[w], payment, captured)
  BY DEF Respond, At, TrueInv, CallsTrue, CallTrue
<1>4. PICK f \in Events : /\ worker[w] = [Free EXCEPT !.pc = "respond", !.event = f]
                          /\ f[3] = "captured" => payment[f[1]].order \in Orders /\ captured[payment[f[1]].order]
  BY <1>3 DEF AnswerTrue
<1>5. worker[w].event = f
  BY <1>4 DEF Free
<1>6. hook' = [hook EXCEPT ![f] = "answered"]
  BY <1>5 DEF Respond
<1>7. EventsTrue'
  BY <1>4, <1>6, MarkedEventTrue
<1> QED BY <1>1, <1>2, <1>7, RowsStayTrue DEF TrueInv

LEMMA LostTrue ==
    ASSUME FlowInv, TrueInv, KeptByStep, NEW w \in Workers, CallLost(w)
    PROVE  TrueInv'
<1>1. worker' = [worker EXCEPT ![w] = Free] /\ UNCHANGED <<payment, gateway, hook>>
  BY DEF CallLost
<1>2. CallsTrue'
  BY <1>1, FreeIsTrue, OneCallMoves
<1>3. faults' \in 0..MaxFaults
  BY PaymentBounds DEF CallLost, TrueInv
<1> QED BY <1>1, <1>2, <1>3, RowsStayTrue, EventsStayTrue DEF TrueInv

\* The three ways in.
LEMMA EntryTrue ==
    ASSUME FlowInv, TrueInv, KeptByStep, NEW w \in Workers, NEW a \in Attempts,
           \/ \E k \in Pays : verify_client_callback(w, a, k)
           \/ reconcile_payment(w, a)
    PROVE  TrueInv'
<1>1. PICK k \in Pays : gateway[a][k] # "none" /\ Start(w, a, k, NoEvent) /\ UNCHANGED hook
  <2>1. CASE reconcile_payment(w, a)
    <3>1. payment[a].pay \in Pays
      BY <2>1, PaymentBounds DEF reconcile_payment, FlowInv, FlowTypes, Row, Pays
    <3>2. gateway[a][payment[a].pay] # "none"
      BY <2>1 DEF reconcile_payment, TrueInv, RowsTrue
    <3> QED BY <2>1, <3>1, <3>2 DEF reconcile_payment
  <2>2. CASE \E k \in Pays : verify_client_callback(w, a, k)
    BY <2>2 DEF verify_client_callback
  <2> QED BY <2>1, <2>2
<1>2. NoEvent[3] # "captured"
  BY DEF NoEvent
<1>3. CallsTrue'
  BY <1>1, <1>2, StartTrue
<1>4. UNCHANGED <<payment, hook, faults>>
  BY <1>1 DEF Start
<1> QED BY <1>3, <1>4, RowsStayTrue, EventsStayTrue DEF TrueInv

LEMMA WebhookTrue ==
    ASSUME FlowInv, TrueInv, KeptByStep, NEW w \in Workers, NEW e \in Events, process_webhook(w, e)
    PROVE  TrueInv'
<1>1. hook' = [hook EXCEPT ![e] = "recorded"] /\ hook[e] \in Unanswered
  BY DEF process_webhook, Unanswered
<1>2. EventsTrue'
  BY <1>1, MarkedEventTrue
<1>3. UNCHANGED <<payment, faults>>
  BY DEF process_webhook, Start
<1>4. CASE RowLocks
  <2>1. UNCHANGED worker
    BY <1>4 DEF process_webhook
  <2> QED BY <1>2, <1>3, <2>1, NobodyMoves, RowsStayTrue DEF TrueInv
<1>5. CASE ~RowLocks
  <2>1. Start(w, e[1], e[2], e)
    BY <1>5 DEF process_webhook
  <2>2. e[1] \in Attempts /\ e[2] \in Pays /\ gateway[e[1]][e[2]] # "none"
    BY <1>1 DEF Events, FlowInv, CallsHaveOrders
  <2>3. e[3] = "captured" => gateway[e[1]][e[2]] = "captured"
    BY <1>1 DEF TrueInv, EventsTrue
  <2>4. CallsTrue'
    BY <2>1, <2>2, <2>3, StartTrue
  <2> QED BY <1>2, <1>3, <2>4, RowsStayTrue DEF TrueInv
<1> QED BY <1>4, <1>5

LEMMA TrueStep == FlowInv /\ OrderTypeOK /\ TrueInv /\ [FlowNext]_flowVars => TrueInv'
<1> SUFFICES ASSUME FlowInv, OrderTypeOK, TrueInv, [FlowNext]_flowVars PROVE TrueInv'
  OBVIOUS
<1>0. KeptByStep
  BY StepKeeps
<1>1. CASE UNCHANGED paymentVars
  BY <1>0, <1>1, OrdersMoveTrue
<1>2. ASSUME NEW o \in Orders, checkout_payment(o) PROVE TrueInv'
  BY <1>0, <1>2, CreateTrue DEF checkout_payment
<1>3. ASSUME NEW r \in Retriers, RetryPay(r) PROVE TrueInv'
  BY <1>0, <1>3, RetryPayOrder, CreateTrue
<1>4. ASSUME NEW a \in Attempts, NEW k \in Pays, BuyerPays(a, k) \/ BuyerFails(a, k) \/ GatewayCaptures(a, k)
      PROVE  TrueInv'
  <2>1. PICK from \in GatewayStatus, to \in {"authorized", "captured", "failed"} : GatewayMoves(a, k, from, to)
    BY <1>4 DEF BuyerPays, BuyerFails, GatewayCaptures, GatewayStatus
  <2> QED BY <1>0, <2>1, GatewayTrue
<1>5. ASSUME NEW w \in Workers, NEW a \in Attempts, NEW k \in Pays, verify_client_callback(w, a, k)
      PROVE  TrueInv'
  BY <1>0, <1>5, EntryTrue
<1>6. ASSUME NEW w \in Workers, NEW a \in Attempts, reconcile_payment(w, a) PROVE TrueInv'
  BY <1>0, <1>6, EntryTrue
<1>7. ASSUME NEW w \in Workers, NEW e \in Events, process_webhook(w, e) PROVE TrueInv'
  BY <1>0, <1>7, WebhookTrue
<1>8. ASSUME NEW w \in Workers, WorkerStep(w) \/ CallLost(w) PROVE TrueInv'
  BY <1>0, <1>8, FetchStepTrue, ApplyTrue, PipelineTrue, RespondTrue, LostTrue DEF WorkerStep
<1>9. CASE FlowNext
  BY <1>1, <1>2, <1>3, <1>4, <1>5, <1>6, <1>7, <1>8, <1>9 DEF FlowNext
<1> QED BY <1>1, <1>9 DEF flowVars, paymentVars

-----------------------------------------------------------------------------
(* A paid order is not left behind                                         *)

\* A retry has been counted before it moves, and no capture comes before its order.
OrdersTrue ==
    /\ tries = 0 => \A r \in Retriers : retry[r] = Idle
    /\ \A o \in Orders : captured[o] => status[o] # "NONE"

\* Without a fault and without a retry, the call that recorded a capture has still to confirm
\* the order that waits for it.
BeingConfirmed ==
    faults = 0 /\ tries = 0 => \A o \in Orders : captured[o] /\ status[o] = "AWAITING_PAYMENT" =>
        \E w \in Workers : At(w, "captured") /\ WorkerOrder(w) = o

\* What a step of an order does to its status and to its capture.
LEMMA StatusMoves ==
    ASSUME OrderTypeOK, OrdersTrue, [Next]_vars, NEW o \in Orders
    PROVE  /\ status'[o] = "NONE" => status[o] = "NONE" /\ captured'[o] = captured[o]
           /\ status'[o] = "AWAITING_PAYMENT" /\ tries = 0 =>
                \/ status[o] = "AWAITING_PAYMENT"
                \/ captured'[o] = captured[o] /\ status[o] = "NONE"
<1> DEFINE Goal == /\ status'[o] = "NONE" => status[o] = "NONE" /\ captured'[o] = captured[o]
                   /\ status'[o] = "AWAITING_PAYMENT" /\ tries = 0 =>
                        \/ status[o] = "AWAITING_PAYMENT"
                        \/ captured'[o] = captured[o] /\ status[o] = "NONE"
<1> SUFFICES Goal
  OBVIOUS
<1>1. CASE UNCHANGED vars
  BY <1>1 DEF vars, orderVars
<1>2. ASSUME UNCHANGED <<status, captured>> PROVE Goal
  BY <1>2
<1>3. ASSUME NEW p \in Orders, NEW new \in Status \ {"AWAITING_PAYMENT"}, SetStatus(p, new),
             UNCHANGED captured
      PROVE  Goal
  BY <1>3 DEF SetStatus, OrderTypeOK, Status
<1>4. ASSUME NEW p \in Orders, OrderStep(p) PROVE Goal
  <2>1. CASE checkout(p)
    BY <2>1 DEF checkout, SetStatus, OrderTypeOK, OthersUnchanged
  <2>2. CASE RecordCapture(p)
    <3>1. status' = status /\ captured' = [captured EXCEPT ![p] = TRUE] /\ status[p] # "NONE"
      BY <2>2 DEF RecordCapture
    <3> QED BY <3>1 DEF OrderTypeOK
  <2>3. CASE cancel_order(p) \/ StaleVisit(p)
    BY <1>2, <1>3, <2>3 DEF cancel_order, StaleVisit, CancelUnderLock, OthersUnchanged, Status
  <2>4. CASE accept_order(p) \/ mark_order_packed(p)
    BY <1>3, <2>4 DEF accept_order, mark_order_packed, AdvanceOrderStatus, OthersUnchanged, Status
  <2>5. CASE release_expired_reservations(p) \/ on_payment_captured(p) \/ on_payment_failed(p)
    BY <1>3, <2>5 DEF release_expired_reservations, on_payment_captured, on_payment_failed, OthersUnchanged, Status
  <2>6. CASE on_refund_processed(p) \/ SyncOrderStatus(p)
    BY <1>3, <2>6 DEF on_refund_processed, SyncOrderStatus, OthersUnchanged, Status
  <2>7. CASE GetOlder(p) \/ \E step \in Paper : MakePaper(p, step) \/ PipelineDies(p, step)
    BY <1>2, <2>7 DEF GetOlder, MakePaper, PipelineDies
  <2> QED BY <1>4, <2>1, <2>2, <2>3, <2>4, <2>5, <2>6, <2>7 DEF OrderStep
<1>5. ASSUME NEW r \in Retriers, RetryStep(r) PROVE Goal
  <2>1. ASSUME NEW p \in Orders, RetryRead(r, p) \/ RetryReserve(r, p) PROVE Goal
    BY <1>2, <2>1 DEF RetryRead, RetryReserve, OnlyRetryMoves
  <2>2. ASSUME NEW p \in Orders, RetrySave(r, p) PROVE Goal
    <3>1. tries # 0
      BY <2>2 DEF OrdersTrue, RetrySave, RetryAt, Idle
    <3>2. status' = [status EXCEPT ![p] = "AWAITING_PAYMENT"] /\ captured' = captured
      BY <2>2 DEF RetrySave, SetStatus, OnlyRetryMoves
    <3> QED BY <3>1, <3>2 DEF OrderTypeOK
  <2>3. CASE RetryEnd(r)
    BY <1>2, <2>3 DEF RetryEnd, OnlyRetryMoves
  <2> QED BY <1>5, <2>1, <2>2, <2>3 DEF RetryStep
<1>6. CASE StaleQuery \/ StaffMovesStock
  BY <1>2, <1>6 DEF StaleQuery, StaffMovesStock, orderVars
<1> QED BY <1>1, <1>4, <1>5, <1>6 DEF Next

LEMMA RetriesAreCounted ==
    ASSUME OrderTypeOK, OrdersTrue, tries \in Nat, [Next]_vars
    PROVE  tries' = 0 => tries = 0 /\ \A r \in Retriers : retry'[r] = Idle
<1>1. ASSUME UNCHANGED <<retry, tries>> PROVE tries' = 0 => tries = 0 /\ \A r \in Retriers : retry'[r] = Idle
  BY <1>1 DEF OrdersTrue
<1>2. ASSUME NEW r \in Retriers, RetryStep(r)
      PROVE  tries' = 0 => tries = 0 /\ \A q \in Retriers : retry'[q] = Idle
  <2>1. ASSUME NEW p \in Orders, RetryRead(r, p) PROVE tries' # 0
    BY <2>1 DEF RetryRead
  <2>2. ASSUME tries' = tries, retry[r] # Idle PROVE tries' # 0
    BY <2>2 DEF OrdersTrue
  <2>3. ASSUME NEW p \in Orders, RetryReserve(r, p) \/ RetrySave(r, p) PROVE tries' # 0
    BY <2>2, <2>3 DEF RetryReserve, RetrySave, RetryAt, Idle
  <2>4. CASE RetryEnd(r)
    BY <2>2, <2>4 DEF RetryEnd
  <2> QED BY <1>2, <2>1, <2>3, <2>4 DEF RetryStep
<1>3. ASSUME NEW p \in Orders, OrderStep(p) PROVE UNCHANGED <<retry, tries>>
  BY <1>3 DEF OrderStep, checkout, cancel_order, accept_order, mark_order_packed, GetOlder, RecordCapture,
              release_expired_reservations, StaleVisit, on_payment_captured, on_payment_failed,
              on_refund_processed, SyncOrderStatus, MakePaper, PipelineDies, CancelUnderLock,
              AdvanceOrderStatus, OthersUnchanged
<1>4. ASSUME StaleQuery \/ StaffMovesStock \/ UNCHANGED vars PROVE UNCHANGED <<retry, tries>>
  BY <1>4 DEF StaleQuery, StaffMovesStock, orderVars, vars
<1> QED BY <1>1, <1>2, <1>3, <1>4 DEF Next

LEMMA OrdersTrueStep == OrderTypeOK /\ OrdersTrue /\ tries \in Nat /\ [Next]_vars => OrdersTrue'
<1> SUFFICES ASSUME OrderTypeOK, OrdersTrue, tries \in Nat, [Next]_vars PROVE OrdersTrue'
  OBVIOUS
<1>1. ASSUME NEW o \in Orders, captured'[o] PROVE status'[o] # "NONE"
  BY <1>1, StatusMoves DEF OrdersTrue
<1> QED BY <1>1, RetriesAreCounted DEF OrdersTrue

\* The call that confirms an order goes on until the order is not waiting any more.
LEMMA ConfirmingCallStays ==
    ASSUME FlowInv, OrderTypeOK, TrueInv, KeptByStep, FlowNext, faults' = 0,
           NEW w \in Workers, NEW o \in Orders, At(w, "captured"), WorkerOrder(w) = o,
           status'[o] = "AWAITING_PAYMENT"
    PROVE  worker'[w] = worker[w]
<1> DEFINE Goal == worker'[w] = worker[w]
<1>0. worker[w].pc = "captured" /\ worker[w] # Free
  BY DEF At, Free
<1>1. ASSUME worker' = worker PROVE Goal
  BY <1>1
<1>2. ASSUME NEW v \in Workers, NEW c, worker' = [worker EXCEPT ![v] = c], v # w PROVE Goal
  BY <1>2 DEF FlowInv, FlowTypes
<1>3. ASSUME NEW v \in Workers, NEW a, NEW k, NEW e, Start(v, a, k, e) PROVE Goal
  <2>1. v # w
    BY <1>0, <1>3 DEF Start
  <2> QED BY <1>2, <1>3, <2>1 DEF Start
<1>4. ASSUME NEW v \in Workers, Finish(v) \/ (\E pc : Goto(v, pc)), v # w PROVE Goal
  BY <1>2, <1>4 DEF Finish, Goto
<1>5. ASSUME NEW v \in Workers, RunPipeline(v) PROVE Goal
  <2>1. CASE v = w
    <3>1. CASE on_payment_captured(o)
      BY <2>1, <3>1 DEF on_payment_captured, SetStatus, OrderTypeOK
    <3>2. CASE status[o] # "AWAITING_PAYMENT" /\ UNCHANGED vars
      BY <3>2 DEF vars, orderVars
    <3> QED BY <1>0, <1>5, <2>1, <3>1, <3>2 DEF RunPipeline, At
  <2>2. CASE v # w
    BY <1>4, <1>5, <2>2 DEF RunPipeline
  <2> QED BY <2>1, <2>2
<1>6. ASSUME NEW v \in Workers, ApplyGatewayPaymentState(v) PROVE Goal
  <2>1. v # w
    BY <1>0, <1>6 DEF ApplyGatewayPaymentState, At
  <2> QED BY <1>4, <1>6, <2>1 DEF ApplyGatewayPaymentState
<1>7. ASSUME NEW v \in Workers, MakePapers(v) PROVE Goal
  <2>1. v # w
    BY <1>0, <1>7 DEF MakePapers, At
  <2> QED BY <1>4, <1>7, <2>1 DEF MakePapers
<1>8. ASSUME NEW v \in Workers, fetch_payment(v) \/ Respond(v) PROVE Goal
  <2>1. v # w
    BY <1>0, <1>8 DEF fetch_payment, Respond, At
  <2> QED BY <1>8, <2>1 DEF fetch_payment, Respond, FlowInv, FlowTypes
<1>9. ASSUME NEW v \in Workers PROVE ~CallLost(v)
  BY DEF CallLost, TrueInv
<1>10. ASSUME NEW x \in Orders, checkout_payment(x) PROVE Goal
  BY <1>1, <1>10 DEF checkout_payment, create_payment_for_order
<1>11. ASSUME NEW r \in Retriers, RetryPay(r) PROVE Goal
  BY <1>1, <1>11 DEF RetryPay, create_payment_for_order
<1>12. ASSUME NEW a \in Attempts, NEW k \in Pays, BuyerPays(a, k) \/ BuyerFails(a, k) \/ GatewayCaptures(a, k)
       PROVE  Goal
  BY <1>1, <1>12 DEF BuyerPays, BuyerFails, GatewayCaptures, GatewayMoves
<1>13. ASSUME NEW v \in Workers,
              \/ \E b \in Attempts, l \in Pays : verify_client_callback(v, b, l)
              \/ \E b \in Attempts : reconcile_payment(v, b)
              \/ \E e \in Events : process_webhook(v, e)
       PROVE  Goal
  BY <1>1, <1>3, <1>13 DEF verify_client_callback, reconcile_payment, process_webhook
<1>14. ASSUME UNCHANGED paymentVars PROVE Goal
  BY <1>1, <1>14 DEF paymentVars
<1>15. ASSUME NEW v \in Workers, WorkerStep(v) PROVE Goal
  BY <1>5, <1>6, <1>7, <1>8, <1>15 DEF WorkerStep
<1> HIDE DEF Goal
<1>16. Goal
  <2>1. ASSUME NEW v \in Workers,
               \/ \E a \in Attempts, k \in Pays : verify_client_callback(v, a, k)
               \/ \E a \in Attempts : reconcile_payment(v, a)
               \/ \E e \in Events : process_webhook(v, e)
               \/ WorkerStep(v)
               \/ CallLost(v)
        PROVE  Goal
    BY <1>9, <1>13, <1>15, <2>1
  <2> QED BY <1>10, <1>11, <1>12, <1>14, <2>1 DEF FlowNext
<1> QED BY <1>16 DEF Goal

\* The call that records a capture goes on to confirm the order.
LEMMA RecordingCallConfirms ==
    ASSUME FlowInv, OrderTypeOK, TrueInv, [FlowNext]_flowVars, NEW o \in Orders,
           captured'[o], ~captured[o]
    PROVE  \E w \in Workers : worker'[w].pc = "captured" /\ WorkerOrder(w) = o
                              /\ worker'[w].attempt = worker[w].attempt
                              /\ worker[w].attempt \in Attempts
<1>1. PICK w \in Workers : ApplyGatewayPaymentState(w) /\ worker[w].fetched = "captured" /\ WorkerOrder(w) = o
  BY RecordedByApply
<1>2. InCall(w)
  BY <1>1 DEF ApplyGatewayPaymentState, At, InCall
<1>3. worker[w].copy.status # "captured"
  BY <1>1, <1>2, CallFacts DEF FetchTrue, WorkerOrder, OrderOf
<1>4. HasCallback(w) /\ ~AlreadyApplied(w)
  BY <1>1, <1>3 DEF HasCallback, AlreadyApplied, TERMINAL_STATUSES
<1>5. worker' = [worker EXCEPT ![w].pc = "captured"]
  BY <1>1, <1>4 DEF ApplyGatewayPaymentState, Goto
<1>6. worker'[w].pc = "captured" /\ worker'[w].attempt = worker[w].attempt
  BY <1>2, <1>5, CallFacts DEF FlowInv, FlowTypes, Call
<1> QED BY <1>1, <1>2, <1>6, CallFacts

\* Lost calls are never forgotten.
LEMMA FaultsGrow ==
    ASSUME TrueInv, [FlowNext]_flowVars, faults' = 0
    PROVE  faults = 0
<1>1. ASSUME NEW w \in Workers PROVE CallLost(w) => faults' # 0
  BY DEF CallLost, TrueInv
<1>2. ASSUME NEW r \in Retriers, RetryPay(r) PROVE faults' = faults
  BY <1>2 DEF RetryPay, create_payment_for_order
<1>3. ASSUME NEW o \in Orders, checkout_payment(o) PROVE faults' = faults
  BY <1>3 DEF checkout_payment, create_payment_for_order
<1>4. ASSUME NEW a \in Attempts, NEW k \in Pays, BuyerPays(a, k) \/ BuyerFails(a, k) \/ GatewayCaptures(a, k)
      PROVE  faults' = faults
  BY <1>4 DEF BuyerPays, BuyerFails, GatewayCaptures, GatewayMoves
<1>5. ASSUME NEW w \in Workers PROVE
        /\ \A b \in Attempts, l \in Pays : verify_client_callback(w, b, l) => faults' = faults
        /\ \A b \in Attempts : reconcile_payment(w, b) => faults' = faults
        /\ \A e \in Events : process_webhook(w, e) => faults' = faults
        /\ WorkerStep(w) => faults' = faults
  BY DEF verify_client_callback, reconcile_payment, process_webhook, Start, WorkerStep, fetch_payment,
         ApplyGatewayPaymentState, RunPipeline, MakePapers, Respond
<1>6. CASE UNCHANGED paymentVars
  BY <1>6 DEF paymentVars
<1> QED BY <1>1, <1>2, <1>3, <1>4, <1>5, <1>6 DEF FlowNext, flowVars

LEMMA BeingConfirmedStep ==
    FlowInv /\ OrderTypeOK /\ TrueInv /\ OrdersTrue /\ BeingConfirmed /\ [FlowNext]_flowVars => BeingConfirmed'
<1> SUFFICES ASSUME FlowInv, OrderTypeOK, TrueInv, OrdersTrue, BeingConfirmed, [FlowNext]_flowVars,
                    faults' = 0, tries' = 0, NEW o \in Orders, captured'[o], status'[o] = "AWAITING_PAYMENT"
             PROVE  \E w \in Workers : worker'[w].pc = "captured" /\ payment'[worker'[w].attempt].order = o
  BY DEF BeingConfirmed, At, WorkerOrder, OrderOf
<1>1. KeptByStep /\ [Next]_vars /\ tries \in Nat
  BY StepKeeps, FlowStepIsLifecycleStep, RetryAssumption DEF OrderTypeOK
<1>2. tries = 0
  BY <1>1, RetriesAreCounted
<1>3. faults = 0
  BY FaultsGrow
<1>4. CASE captured[o]
  <2>1. status[o] = "AWAITING_PAYMENT"
    BY <1>1, <1>2, <1>4, StatusMoves DEF OrdersTrue
  <2>2. PICK w \in Workers : At(w, "captured") /\ WorkerOrder(w) = o
    BY <1>2, <1>3, <1>4, <2>1 DEF BeingConfirmed
  <2>3. worker'[w] = worker[w]
    <3>1. CASE FlowNext
      BY <1>1, <2>2, <3>1, ConfirmingCallStays
    <3>2. CASE UNCHANGED flowVars
      BY <3>2 DEF flowVars, paymentVars
    <3> QED BY <3>1, <3>2
  <2>4. worker[w].attempt \in Attempts
    BY <2>2 DEF FlowInv, CallsHaveOrders, InCall, At
  <2>5. payment'[worker[w].attempt].order = o
    BY <1>1, <2>2, <2>4 DEF KeptByStep, Kept, WorkerOrder, OrderOf
  <2> QED BY <2>2, <2>3, <2>5 DEF At
<1>5. CASE ~captured[o]
  <2>1. PICK w \in Workers : worker'[w].pc = "captured" /\ WorkerOrder(w) = o
                             /\ worker'[w].attempt = worker[w].attempt /\ worker[w].attempt \in Attempts
    BY <1>5, RecordingCallConfirms
  <2>2. payment'[worker[w].attempt].order = o
    BY <1>1, <2>1 DEF KeptByStep, Kept, WorkerOrder, OrderOf
  <2> QED BY <2>1, <2>2
<1> QED BY <1>4, <1>5

-----------------------------------------------------------------------------

PaymentInv == FlowInv /\ OrderTypeOK /\ TrueInv /\ OrdersTrue /\ BeingConfirmed

\* The invariant that the results below rest on holds in every run of the flow.
THEOREM PaymentInvHolds == FlowSpec => []PaymentInv
<1>1. FlowInit => PaymentInv
  <2> SUFFICES ASSUME FlowInit PROVE PaymentInv
    OBVIOUS
  <2>1. FlowInv /\ OrderTypeOK /\ TrueInv
    BY FlowInitInv, OrderTypeInit, TrueInit DEF FlowInit
  <2>2. OrdersTrue /\ BeingConfirmed
    BY DEF FlowInit, Init, OrdersTrue, BeingConfirmed
  <2> QED BY <2>1, <2>2 DEF PaymentInv
<1>2. PaymentInv /\ [FlowNext]_flowVars => PaymentInv'
  <2> SUFFICES ASSUME PaymentInv, [FlowNext]_flowVars PROVE PaymentInv'
    OBVIOUS
  <2>1. [Next]_vars /\ tries \in Nat
    BY FlowStepIsLifecycleStep, RetryAssumption DEF PaymentInv, OrderTypeOK
  <2>2. FlowInv' /\ OrderTypeOK'
    BY <2>1, FlowStepInv, OrderTypeStep DEF PaymentInv
  <2>3. TrueInv'
    BY TrueStep DEF PaymentInv
  <2>4. OrdersTrue'
    BY <2>1, OrdersTrueStep DEF PaymentInv
  <2>5. BeingConfirmed'
    BY BeingConfirmedStep DEF PaymentInv
  <2> QED BY <2>2, <2>3, <2>4, <2>5 DEF PaymentInv
<1> QED BY <1>1, <1>2, PTL DEF FlowSpec

\* Every variable of the payment code keeps its type: no call works for a row that is not there or
\* saves a status the gateway never gave, in whatever order the three callers run.
THEOREM FlowTypesHold == FlowSpec => []FlowTypeOK
<1>1. FlowSpec => []TypeOK
  BY PaymentsImplementLifecycle, TypeCorrect, PTL DEF ImplementsOrderLifecycle
<1>2. PaymentInv /\ TypeOK => FlowTypeOK
  <2> SUFFICES ASSUME PaymentInv, TypeOK PROVE FlowTypeOK
    OBVIOUS
  <2>1. payment \in [Attempts -> {NoPayment} \union [order : Orders, status : PaymentStatus, pay : 0..MaxPays]]
    BY DEF PaymentInv, FlowInv, FlowTypes, TrueInv, RowsTrue, LiveRow
  <2>2. ASSUME NEW w \in Workers
        PROVE  \/ worker[w] = Free
               \/ worker[w] \in {[Free EXCEPT !.pc = "respond", !.event = e] : e \in Events}
               \/ /\ worker[w].pc \in {"fetch", "apply", "captured", "failed", "papers"}
                  /\ worker[w].attempt \in Attempts /\ worker[w].pay \in Pays
                  /\ worker[w].event \in Events \union {NoEvent}
                  /\ worker[w].copy \in [order : Orders, status : PaymentStatus, pay : 0..MaxPays]
                  /\ worker[w].fetched \in PaymentStatus \union {"none"}
    <3>1. worker[w] \in Call /\ CallTrue(worker[w], payment, gateway, captured)
      BY DEF PaymentInv, FlowInv, FlowTypes, TrueInv, CallsTrue
    <3>2. CASE InCall(w)
      <4>1. /\ worker[w].attempt \in Attempts /\ worker[w].pay \in Pays
            /\ FetchTrue(worker[w], payment, gateway, captured)
        BY <3>2, CallFacts DEF PaymentInv
      <4> QED BY <3>1, <3>2, <4>1 DEF FetchTrue, LiveRow, Call, InCall
    <3>3. CASE worker[w].pc = "idle"
      BY <3>1, <3>3 DEF CallTrue
    <3>4. CASE worker[w].pc = "respond"
      BY <3>1, <3>4 DEF CallTrue, AnswerTrue
    <3> QED BY <3>1, <3>2, <3>3, <3>4 DEF Call, InCall
  <2>3. /\ gateway \in [Attempts -> [Pays -> {"none", "authorized", "captured", "failed"}]]
        /\ hook \in [Events -> {"unsent", "sent", "recorded", "answered"}]
        /\ faults \in 0..MaxFaults
    BY DEF PaymentInv, FlowInv, FlowTypes, TrueInv, GatewayStatus
  <2> QED BY <2>1, <2>2, <2>3 DEF FlowTypeOK
<1> QED BY <1>1, <1>2, PaymentInvHolds, PTL

\* A capture event that was answered with success has reached the Payment row (docs/payments.md,
\* Idempotency): wherever a delivery breaks off, the next one is not mistaken for a duplicate.
THEOREM AnswersMeanRecords == FlowSpec => []AnsweredMeansRecorded
<1>1. PaymentInv => AnsweredMeansRecorded
  <2> SUFFICES ASSUME PaymentInv, NEW a \in Attempts, NEW k \in Pays, hook[<<a, k, "captured">>] = "answered"
               PROVE  captured[OrderOf(a)]
    BY DEF AnsweredMeansRecorded
  <2>1. PICK e \in Events : e = <<a, k, "captured">>
    BY DEF Events
  <2> QED BY <2>1 DEF PaymentInv, TrueInv, EventsTrue
<1> QED BY <1>1, PaymentInvHolds, PTL

\* With no call running, none lost and no retry, no order whose capture is recorded still waits
\* for its payment: the races of browser, webhook, sweeps and staff leave no paid order behind.
THEOREM NoPaidOrderLeftBehind == FlowSpec => []LeftWaitingOnlyByAFault
<1>1. PaymentInv => LeftWaitingOnlyByAFault
  BY DEF PaymentInv, BeingConfirmed, LeftWaitingOnlyByAFault, At, Free
<1> QED BY <1>1, PaymentInvHolds, PTL
=============================================================================
