---------------------------- MODULE RefundsProofs ----------------------------
(***************************************************************************)
(* Proofs about Refunds, for any number of refunds, return requests,       *)
(* workers and lost calls: the code keeps the promise of RefundLedger,     *)
(* refunded_amount is the sum of what went through until one save          *)
(* overtakes another, and no more goes back than was paid.  Then about     *)
(* Returns, for any number of clerks, items and units besides: nothing is  *)
(* returned twice, and a refunded return stays one.                        *)
(***************************************************************************)
EXTENDS Returns, FiniteSums

Call == [step : {"idle", "ask", "insert", "apply", "order", "return", "finish", "reconcile"},
         source : {"none", "staff", "return", "webhook"},
         request : Requests \union {NoRequest}, amount : Amounts \union {0},
         refund : Refunds \union {NoRefund},
         result : Result \union {"pending"}, copy : PaymentRow]

\* What a copy of the payment may count, the row being one of them: each refund at most once, and
\* only one that went through.
CountsWhatWentThrough(p) ==
    \A r \in Refunds : p.counted[r] = 0 \/ (p.counted[r] = 1 /\ row[r].status = "processed")

\* The tables agree: our rows and the notices follow the gateway.
TablesAgree ==
    /\ CountsWhatWentThrough(payment)
    /\ \A r \in Refunds :
        /\ row[r].status # "none" => gateway[r].state # "none"
        /\ row[r].status \in Result => row[r].status = gateway[r].state
        /\ notice[r] = "sent" => gateway[r].state \in Result

\* What a call may rely on: the result it has is the gateway's, and a refund it is about to add is
\* not in its copy yet.
CallSound(w) ==
    /\ CountsWhatWentThrough(call[w].copy)
    /\ At(w, "insert") =>
        /\ call[w].refund \in Refunds
        /\ gateway[call[w].refund].state # "none"
        /\ call[w].result \in Result => call[w].result = gateway[call[w].refund].state
    /\ At(w, "apply") =>
        /\ call[w].refund \in Refunds
        /\ call[w].result \in Result
        /\ call[w].result = gateway[call[w].refund].state
        /\ row[call[w].refund].status # "none"
        /\ call[w].copy.counted[call[w].refund] = 0
    /\ At(w, "order") => call[w].copy.status # "captured"

\* A row is inserted by one call, and only once.
InsertedByOne ==
    \A w \in Workers : At(w, "insert") =>
        /\ row[call[w].refund].status = "none"
        /\ \A v \in Workers : At(v, "insert") /\ call[v].refund = call[w].refund => v = w

RefundInv == RefundTypeOK /\ TablesAgree /\ (\A w \in Workers : CallSound(w)) /\ InsertedByOne

\* Nothing at the gateway or in our rows is taken back.
Later ==
    \A r \in Refunds :
        /\ gateway[r].state # "none" => gateway'[r].state # "none"
        /\ gateway[r].state \in Result => gateway'[r].state = gateway[r].state
        /\ row[r].status # "none" => row'[r].status # "none"
        /\ row[r].status = "processed" => row'[r].status = "processed"

LEMMA IdleIsCall == Idle \in Call /\ Idle.copy.counted = Uncounted
BY DEF Idle, Call, PaymentRow, Uncounted, Result

LEMMA RefundInitInv ==
    ASSUME NEW statuses \in [Requests -> ReturnStatus], RefundInit(statuses)
    PROVE  RefundInv
<1> USE DEF RefundInit
<1>1. RefundTypeOK
  <2>1. payment \in PaymentRow
    BY DEF PaymentRow, Uncounted
  <2>2. call \in [Workers -> Call]
    BY IdleIsCall
  <2>3. lost \in 0..MaxLost
    BY RefundsAssumption
  <2>4. gateway \in [Refunds -> GatewayRefund]
    BY DEF GatewayRefund
  <2>5. returnStatus \in [Requests -> ReturnStatus]
    OBVIOUS
  <2> QED BY <2>1, <2>2, <2>3, <2>4, <2>5 DEF RefundTypeOK, Call
<1>2. TablesAgree
  BY DEF TablesAgree, CountsWhatWentThrough, Uncounted, Result
<1>3. \A w \in Workers : CallSound(w)
  BY IdleIsCall DEF CallSound, CountsWhatWentThrough, Uncounted, At, Idle
<1>4. InsertedByOne
  BY DEF InsertedByOne, At, Idle
<1> QED BY <1>1, <1>2, <1>3, <1>4 DEF RefundInv

\* A step that takes nothing back leaves every other call as sound as it was.
LEMMA OthersStaySound ==
    ASSUME RefundInv, Later, NEW w \in Workers, call'[w] = call[w]
    PROVE  CallSound(w)'
<1>1. CountsWhatWentThrough(call[w].copy)'
  BY DEF RefundInv, CallSound, CountsWhatWentThrough, Later
<1> QED BY <1>1 DEF RefundInv, RefundTypeOK, CallSound, At, Later

\* A step of one worker: what is left to show is about that worker and the tables.
LEMMA OneCallMoves ==
    ASSUME RefundInv, Later, RefundTypeOK', TablesAgree', NEW w \in Workers,
           \A v \in Workers \ {w} : call'[v] = call[v],
           CallSound(w)',
           \A v \in Workers \ {w} : At(v, "insert") => row'[call[v].refund].status = "none",
           At(w, "insert")' =>
                /\ row'[call'[w].refund].status = "none"
                /\ \A v \in Workers \ {w} : At(v, "insert") => call[v].refund # call'[w].refund
    PROVE  RefundInv'
<1>1. \A v \in Workers : CallSound(v)'
  BY OthersStaySound
<1>2. InsertedByOne'
  BY DEF RefundInv, InsertedByOne, At
<1> QED BY <1>1, <1>2 DEF RefundInv

\* Giving a call up, or passing on to a step that relies on nothing.
LEMMA CallCalmsDown ==
    ASSUME RefundInv, Later, NEW w \in Workers,
           \/ Hang(w)
           \/ GoTo(w, "return")
           \/ GoTo(w, "finish")
    PROVE  /\ call' \in [Workers -> Call]
           /\ \A v \in Workers \ {w} : call'[v] = call[v]
           /\ CallSound(w)'
           /\ ~At(w, "insert")'
<1> USE DEF RefundInv, RefundTypeOK
<1>1. call \in [Workers -> Call] /\ call' \in [Workers -> Call]
  BY IdleIsCall DEF Hang, GoTo, Call
<1>2. call'[w].step \in {"idle", "return", "finish"}
  BY DEF Hang, GoTo, Idle
<1>3. call'[w].copy.counted \in {Uncounted, call[w].copy.counted}
  BY IdleIsCall DEF Hang, GoTo
<1>4. CountsWhatWentThrough(call[w].copy)'
  <2>1. CASE call'[w].copy.counted = Uncounted
    BY <2>1 DEF CountsWhatWentThrough, Uncounted
  <2>2. CASE call'[w].copy.counted = call[w].copy.counted
    BY <2>2 DEF CallSound, CountsWhatWentThrough, Later
  <2> QED BY <1>3, <2>1, <2>2
<1>5. CallSound(w)' /\ ~At(w, "insert")'
  BY <1>2, <1>4 DEF CallSound, At
<1>6. \A v \in Workers \ {w} : call'[v] = call[v]
  BY DEF Hang, GoTo
<1> QED BY <1>1, <1>5, <1>6

LEMMA SameTables ==
    ASSUME RefundInv, UNCHANGED <<payment, gateway, row, notice>>
    PROVE  Later /\ TablesAgree'
BY DEF RefundInv, Later, TablesAgree, CountsWhatWentThrough

-----------------------------------------------------------------------------
(* Every action keeps the invariant                                        *)

LEMMA BeginInv ==
    ASSUME RefundInv, NEW w \in Workers, NEW q \in Requests \union {NoRequest},
           NEW amount \in Amounts, NEW source \in {"staff", "return"}, Begin(w, source, q, amount)
    PROVE  RefundInv'
<1> USE DEF RefundInv
<1>1. Later /\ TablesAgree'
  BY SameTables DEF Begin
<1>2. [Idle EXCEPT !.step = "ask", !.source = source, !.request = q, !.amount = amount,
                   !.copy = payment] \in Call
  BY IdleIsCall DEF Call, RefundTypeOK
<1>3. call' \in [Workers -> Call]
  BY <1>2 DEF Begin, RefundTypeOK, Call
<1>4. RefundTypeOK'
  BY <1>3 DEF Begin, RefundTypeOK, Call
<1>5. call'[w].step = "ask" /\ call'[w].copy = payment
  BY DEF Begin, RefundTypeOK, Idle
<1>6. CallSound(w)' /\ ~At(w, "insert")'
  BY <1>5 DEF Begin, CallSound, At, TablesAgree, CountsWhatWentThrough
<1>7. \A v \in Workers \ {w} : call'[v] = call[v]
  BY DEF Begin
<1> QED BY <1>1, <1>4, <1>6, <1>7, OneCallMoves DEF Begin, InsertedByOne

LEMMA NewRefundIsNew == Known # Refunds => NewRefund \in Refunds /\ gateway[NewRefund].state = "none"
BY DEF Known, NewRefund

LEMMA AskGatewayInv ==
    ASSUME RefundInv, NEW w \in Workers, AskGateway(w)
    PROVE  RefundInv'
<1> USE DEF RefundInv
<1>1. CASE Hang(w) /\ UNCHANGED <<gateway, notice>>
  <2>1. Later /\ TablesAgree'
    BY <1>1, SameTables DEF AskGateway
  <2>2. RefundTypeOK'
    BY <1>1, <2>1, CallCalmsDown DEF AskGateway, RefundTypeOK, Call
  <2> QED BY <1>1, <2>1, <2>2, CallCalmsDown, OneCallMoves DEF AskGateway, InsertedByOne
<1>2. CASE Known # Refunds /\ \E state \in Result \union {"pending"} :
            /\ gateway' = [gateway EXCEPT ![NewRefund] = [state |-> state, amount |-> call[w].amount]]
            /\ notice' = [notice EXCEPT ![NewRefund] = IF state = "pending" THEN "none" ELSE "sent"]
            /\ call' = [call EXCEPT ![w].step = "insert", ![w].amount = 0, ![w].refund = NewRefund,
                                        ![w].result = state]
  <2>1. PICK state \in Result \union {"pending"} :
            /\ gateway' = [gateway EXCEPT ![NewRefund] = [state |-> state, amount |-> call[w].amount]]
            /\ notice' = [notice EXCEPT ![NewRefund] = IF state = "pending" THEN "none" ELSE "sent"]
            /\ call' = [call EXCEPT ![w].step = "insert", ![w].amount = 0, ![w].refund = NewRefund,
                                        ![w].result = state]
    BY <1>2
  <2>2. NewRefund \in Refunds /\ gateway[NewRefund].state = "none" /\ row[NewRefund].status = "none"
    BY <1>2, NewRefundIsNew DEF TablesAgree
  <2>3. UNCHANGED <<payment, row>>
    BY DEF AskGateway
  <2>4. \A r \in Refunds : gateway'[r].state = IF r = NewRefund THEN state ELSE gateway[r].state
    BY <2>1, <2>2 DEF RefundTypeOK
  <2>5. Later
    BY <2>2, <2>3, <2>4 DEF Later, Result
  <2>6. TablesAgree'
    BY <2>1, <2>2, <2>3, <2>4 DEF TablesAgree, CountsWhatWentThrough, Result, RefundTypeOK
  <2>7. call[w] \in Call
    BY DEF RefundTypeOK, Call
  <2>8. [call[w] EXCEPT !.step = "insert", !.amount = 0, !.refund = NewRefund, !.result = state] \in Call
    BY <2>2, <2>7 DEF Call
  <2>9. call' \in [Workers -> Call] /\ \A v \in Workers \ {w} : call'[v] = call[v]
    BY <2>1, <2>8 DEF RefundTypeOK, Call
  <2>10. call'[w].step = "insert" /\ call'[w].refund = NewRefund /\ call'[w].result = state
         /\ call'[w].copy = call[w].copy
    BY <2>1, <2>7 DEF RefundTypeOK, Call
  <2>11. [state |-> state, amount |-> call[w].amount] \in GatewayRefund
    BY <2>7 DEF GatewayRefund, Call
  <2>12. RefundTypeOK'
    <3>1. gateway' \in [Refunds -> GatewayRefund]
      BY <2>1, <2>2, <2>11 DEF RefundTypeOK
    <3>2. notice' \in [Refunds -> {"none", "sent", "answered"}]
      BY <2>1, <2>2 DEF RefundTypeOK
    <3> QED BY <2>9, <3>1, <3>2 DEF AskGateway, RefundTypeOK, Call
  <2>13. CallSound(w)'
    BY <2>2, <2>3, <2>4, <2>10 DEF CallSound, At, CountsWhatWentThrough, Result
  <2>14. \A v \in Workers \ {w} : At(v, "insert") => call[v].refund # NewRefund
    BY <2>2 DEF CallSound
  <2> QED BY <2>2, <2>3, <2>5, <2>6, <2>9, <2>10, <2>12, <2>13, <2>14, OneCallMoves DEF InsertedByOne
<1> QED BY <1>1, <1>2 DEF AskGateway

LEMMA LeaveCalmsDown ==
    ASSUME NEW w \in Workers, Leave(w)
    PROVE  Hang(w) \/ GoTo(w, "finish")
BY DEF Leave

LEMMA InsertRefundInv ==
    ASSUME RefundInv, NEW w \in Workers, InsertRefund(w)
    PROVE  RefundInv'
<1> USE DEF RefundInv
<1> DEFINE r == call[w].refund
<1>1. UNCHANGED <<payment, gateway, notice, order, returnStatus, lost, stale, overlap>>
  BY DEF InsertRefund
<1>2. At(w, "insert") /\ r \in Refunds /\ row[r].status = "none" /\ gateway[r].state # "none"
  BY DEF InsertRefund, CallSound, InsertedByOne
<1>3. \A s \in Refunds : row'[s].status = IF s = r THEN "initiated" ELSE row[s].status
  BY <1>2 DEF InsertRefund, RefundTypeOK
<1>4. Later
  BY <1>1, <1>2, <1>3 DEF Later
<1>5. TablesAgree'
  BY <1>1, <1>2, <1>3 DEF TablesAgree, CountsWhatWentThrough, Result
<1>6. row' \in [Refunds -> [status : {"none", "initiated"} \union Result,
                            request : Requests \union {NoRequest}]]
  BY DEF InsertRefund, RefundTypeOK
<1>7. \A v \in Workers \ {w} : At(v, "insert") => row'[call[v].refund].status = "none"
  BY <1>2, <1>3 DEF InsertedByOne, CallSound
<1>8. CASE call[w].result \in Result
  <2>1. GoTo(w, "apply")
    BY <1>8 DEF InsertRefund
  <2>2. [call[w] EXCEPT !.step = "apply"] \in Call
    BY DEF RefundTypeOK, Call
  <2>3. call' \in [Workers -> Call] /\ \A v \in Workers \ {w} : call'[v] = call[v]
    BY <2>1, <2>2 DEF GoTo, RefundTypeOK, Call
  <2>4. /\ call'[w].step = "apply" /\ call'[w].refund = r /\ call'[w].result = call[w].result
        /\ call'[w].copy = call[w].copy
    BY <2>1 DEF GoTo, RefundTypeOK, Call
  <2>5. RefundTypeOK'
    BY <1>1, <1>6, <2>3 DEF RefundTypeOK, Call
  <2>6. CallSound(w)'
    BY <1>1, <1>2, <1>3, <1>8, <2>4 DEF CallSound, At, CountsWhatWentThrough
  <2> QED BY <1>4, <1>5, <1>7, <2>3, <2>4, <2>5, <2>6, OneCallMoves DEF At
<1>9. CASE Leave(w)
  <2>1. RefundTypeOK'
    BY <1>1, <1>4, <1>6, <1>9, LeaveCalmsDown, CallCalmsDown DEF RefundTypeOK, Call
  <2> QED BY <1>4, <1>5, <1>7, <1>9, <2>1, LeaveCalmsDown, CallCalmsDown, OneCallMoves
<1> QED BY <1>8, <1>9 DEF InsertRefund

\* The copy with the refund added counts the refund once and everything else as before.
LEMMA WithRefundCounts ==
    ASSUME NEW copy \in PaymentRow, NEW r \in Refunds, copy.counted[r] = 0
    PROVE  /\ WithRefund(copy, r) \in PaymentRow
           /\ WithRefund(copy, r).status # "captured"
           /\ \A s \in Refunds : WithRefund(copy, r).counted[s] = IF s = r THEN 1 ELSE copy.counted[s]
BY DEF WithRefund, PaymentRow

LEMMA ApplyRefundResultInv ==
    ASSUME RefundInv, NEW w \in Workers, ApplyRefundResult(w)
    PROVE  RefundInv'
<1> USE DEF RefundInv
<1> DEFINE r   == call[w].refund
           new == WithRefund(call[w].copy, r)
<1>1. UNCHANGED <<gateway, notice, order, returnStatus, lost, overlap>>
  BY DEF ApplyRefundResult
<1>2. /\ r \in Refunds /\ call[w].result \in Result /\ call[w].result = gateway[r].state
      /\ row[r].status # "none" /\ call[w].copy.counted[r] = 0
  BY DEF ApplyRefundResult, CallSound
<1>3. \A s \in Refunds : row'[s].status = IF s = r THEN call[w].result ELSE row[s].status
  BY <1>2 DEF ApplyRefundResult, RefundTypeOK
<1>4. row[r].status = "processed" => call[w].result = "processed"
  BY <1>2 DEF TablesAgree, Result
<1>5. Later
  BY <1>1, <1>2, <1>3, <1>4 DEF Later, Result
<1>6. row' \in [Refunds -> [status : {"none", "initiated"} \union Result,
                            request : Requests \union {NoRequest}]]
  BY <1>2 DEF ApplyRefundResult, RefundTypeOK
<1>7. \A v \in Workers \ {w} : At(v, "insert") => row'[call[v].refund].status = "none"
  BY <1>2, <1>3 DEF InsertedByOne, CallSound
<1>8. CASE call[w].result = "processed"
  <2>1. SavePayment(call[w].copy, new) /\ call' = [call EXCEPT ![w].step = "order", ![w].copy = new]
    BY <1>8 DEF ApplyRefundResult
  <2>2. call[w] \in Call /\ call[w].copy \in PaymentRow
    BY DEF RefundTypeOK, Call
  <2>3. /\ new \in PaymentRow /\ new.status # "captured"
        /\ \A s \in Refunds : new.counted[s] = IF s = r THEN 1 ELSE call[w].copy.counted[s]
    BY <1>2, <2>2, WithRefundCounts
  <2> HIDE DEF new
  <2>4. \A s \in Refunds : new.counted[s] = 0 \/ (new.counted[s] = 1 /\ row'[s].status = "processed")
    BY <1>3, <1>8, <2>3 DEF CallSound, CountsWhatWentThrough
  <2>5. [call[w] EXCEPT !.step = "order", !.copy = new] \in Call
    BY <2>2, <2>3 DEF Call
  <2>6. call' \in [Workers -> Call] /\ \A v \in Workers \ {w} : call'[v] = call[v]
    BY <2>1, <2>5 DEF RefundTypeOK, Call
  <2>7. call'[w].step = "order" /\ call'[w].copy = new
    BY <2>1, <2>2 DEF RefundTypeOK, Call
  <2>8. payment' = new /\ stale' \subseteq stale \union {"payment"}
    BY <2>1 DEF SavePayment
  <2>9. RefundTypeOK'
    BY <1>1, <1>6, <2>3, <2>6, <2>8 DEF RefundTypeOK, Call
  <2>10. TablesAgree'
    BY <1>1, <1>2, <1>3, <2>4, <2>8 DEF TablesAgree, CountsWhatWentThrough, Result
  <2>11. CallSound(w)' /\ ~At(w, "insert")'
    BY <2>3, <2>4, <2>7 DEF CallSound, At, CountsWhatWentThrough
  <2> QED BY <1>5, <1>7, <2>6, <2>9, <2>10, <2>11, OneCallMoves
<1>9. CASE call[w].result # "processed"
  <2>1. GoTo(w, "return") /\ UNCHANGED <<payment, stale>>
    BY <1>9 DEF ApplyRefundResult
  <2>2. RefundTypeOK'
    BY <1>1, <1>5, <1>6, <2>1, CallCalmsDown DEF RefundTypeOK, Call
  <2>3. TablesAgree'
    BY <1>1, <1>2, <1>3, <1>4, <2>1 DEF TablesAgree, CountsWhatWentThrough, Result
  <2> QED BY <1>5, <1>7, <2>1, <2>2, <2>3, CallCalmsDown, OneCallMoves
<1> QED BY <1>8, <1>9

LEMMA OrderRefundedInv ==
    ASSUME RefundInv, NEW w \in Workers, OrderRefunded(w)
    PROVE  RefundInv'
<1> USE DEF RefundInv
<1>1. Later /\ TablesAgree' /\ GoTo(w, "return")
  BY SameTables DEF OrderRefunded
<1>2. order' \in {"partially_refunded", "refunded"}
  BY DEF OrderRefunded, CallSound, RefundTypeOK, PaymentRow
<1>3. RefundTypeOK'
  BY <1>1, <1>2, CallCalmsDown DEF OrderRefunded, RefundTypeOK, Call
<1> QED BY <1>1, <1>3, CallCalmsDown, OneCallMoves DEF OrderRefunded, InsertedByOne

LEMMA ReturnRefundedInv ==
    ASSUME RefundInv, NEW w \in Workers, ReturnRefunded(w)
    PROVE  RefundInv'
<1> USE DEF RefundInv
<1>1. Later /\ TablesAgree' /\ (Hang(w) \/ GoTo(w, "finish"))
  BY SameTables, LeaveCalmsDown DEF ReturnRefunded
<1>2. returnStatus' \in [Requests -> ReturnStatus]
  BY DEF ReturnRefunded, RefundTypeOK, ReturnStatus
<1>3. RefundTypeOK'
  BY <1>1, <1>2, CallCalmsDown DEF ReturnRefunded, RefundTypeOK, Call
<1> QED BY <1>1, <1>3, CallCalmsDown, OneCallMoves DEF ReturnRefunded, InsertedByOne

LEMMA FinishInv ==
    ASSUME RefundInv, NEW w \in Workers, Finish(w)
    PROVE  RefundInv'
<1> USE DEF RefundInv
<1>1. UNCHANGED <<payment, gateway, row, order, lost, overlap>> /\ Hang(w)
  BY DEF Finish
<1>2. /\ notice' \in [Refunds -> {"none", "sent", "answered"}]
      /\ \A r \in Refunds : notice'[r] = "sent" => notice[r] = "sent"
  BY DEF Finish, RefundTypeOK
<1>3. Later /\ TablesAgree'
  BY <1>1, <1>2 DEF Later, TablesAgree, CountsWhatWentThrough
<1>4. returnStatus' \in [Requests -> ReturnStatus] /\ stale' \subseteq stale \union {"status"}
  BY DEF Finish, RefundTypeOK, ReturnStatus
<1>5. RefundTypeOK'
  BY <1>1, <1>2, <1>3, <1>4, CallCalmsDown DEF RefundTypeOK, Call
<1> QED BY <1>1, <1>3, <1>5, CallCalmsDown, OneCallMoves DEF InsertedByOne

LEMMA GatewaySettlesInv ==
    ASSUME RefundInv, NEW r \in Refunds, GatewaySettles(r)
    PROVE  RefundInv'
<1> USE DEF RefundInv
<1>1. UNCHANGED <<payment, row, order, returnStatus, call, lost, stale, overlap>>
  BY DEF GatewaySettles
<1>2. /\ gateway[r].state = "pending" /\ gateway'[r].state \in Result
      /\ \A s \in Refunds \ {r} : gateway'[s] = gateway[s]
  BY DEF GatewaySettles, RefundTypeOK, GatewayRefund
<1>3. gateway' \in [Refunds -> GatewayRefund] /\ notice' \in [Refunds -> {"none", "sent", "answered"}]
  BY DEF GatewaySettles, RefundTypeOK, GatewayRefund
<1>4. Later
  BY <1>1, <1>2 DEF Later, Result
<1>5. TablesAgree'
  BY <1>1, <1>2 DEF GatewaySettles, TablesAgree, CountsWhatWentThrough, RefundTypeOK, Result
<1>6. RefundTypeOK'
  BY <1>1, <1>3 DEF RefundTypeOK
<1>7. \A w \in Workers : CallSound(w)'
  BY <1>1, <1>4, OthersStaySound
<1> QED BY <1>1, <1>5, <1>6, <1>7 DEF InsertedByOne, At

LEMMA TakeNoticeInv ==
    ASSUME RefundInv, NEW w \in Workers, NEW r \in Refunds, TakeNotice(w, r)
    PROVE  RefundInv'
<1> USE DEF RefundInv
<1>1. UNCHANGED <<payment, gateway, row, order, returnStatus, lost, stale, overlap>> /\ notice[r] = "sent"
  BY DEF TakeNotice
<1>2. notice' \in [Refunds -> {"none", "sent", "answered"}]
      /\ \A s \in Refunds : notice'[s] = "sent" => notice[s] = "sent"
  BY DEF TakeNotice, RefundTypeOK
<1>3. Later /\ TablesAgree'
  BY <1>1, <1>2 DEF Later, TablesAgree, CountsWhatWentThrough
<1>4. CASE NewsFor(r)
  <2> DEFINE c == [Idle EXCEPT !.step = "apply", !.source = "webhook", !.request = row[r].request,
                               !.refund = r, !.result = gateway[r].state, !.copy = payment]
  <2>1. gateway[r].state \in Result
    BY <1>1 DEF TablesAgree
  <2>2. c \in Call
    BY <2>1, IdleIsCall DEF Call, RefundTypeOK
  <2>3. c.step = "apply" /\ c.refund = r /\ c.result = gateway[r].state /\ c.copy = payment
    BY DEF Idle
  <2>4. call' = [call EXCEPT ![w] = c]
    BY <1>4 DEF TakeNotice
  <2> HIDE DEF c
  <2>5. call' \in [Workers -> Call] /\ call'[w] = c /\ \A v \in Workers \ {w} : call'[v] = call[v]
    BY <2>2, <2>4 DEF RefundTypeOK, Call
  <2>6. RefundTypeOK'
    BY <1>1, <1>2, <2>5 DEF RefundTypeOK, Call
  <2>7. payment.counted[r] = 0
    BY <1>4, <2>1 DEF NewsFor, TablesAgree, CountsWhatWentThrough, Result
  <2>8. CallSound(w)'
    BY <1>1, <1>3, <1>4, <2>1, <2>3, <2>5, <2>7
       DEF NewsFor, CallSound, At, TablesAgree, CountsWhatWentThrough
  <2> QED BY <1>1, <1>3, <2>3, <2>5, <2>6, <2>8, OneCallMoves DEF At, InsertedByOne
<1>5. CASE UNCHANGED call
  <2>1. RefundTypeOK'
    BY <1>1, <1>2, <1>5 DEF RefundTypeOK
  <2>2. \A v \in Workers : CallSound(v)'
    BY <1>3, <1>5, OthersStaySound
  <2> QED BY <1>1, <1>3, <1>5, <2>1, <2>2 DEF InsertedByOne, At
<1> QED BY <1>4, <1>5 DEF TakeNotice

LEMMA BeginReconcileInv ==
    ASSUME RefundInv, NEW w \in Workers, BeginReconcile(w)
    PROVE  RefundInv'
<1> USE DEF RefundInv
<1>1. Later /\ TablesAgree'
  BY SameTables DEF BeginReconcile
<1>2. [Idle EXCEPT !.step = "reconcile", !.source = "staff", !.copy = payment] \in Call
  BY IdleIsCall DEF Call, RefundTypeOK
<1>3. call' \in [Workers -> Call] /\ \A v \in Workers \ {w} : call'[v] = call[v]
  BY <1>2 DEF BeginReconcile, RefundTypeOK, Call
<1>4. call'[w].step = "reconcile" /\ call'[w].copy = payment
  BY DEF BeginReconcile, RefundTypeOK, Idle
<1>5. RefundTypeOK'
  BY <1>3 DEF BeginReconcile, RefundTypeOK, Call
<1>6. CallSound(w)' /\ ~At(w, "insert")'
  BY <1>4 DEF BeginReconcile, CallSound, At, TablesAgree, CountsWhatWentThrough
<1> QED BY <1>1, <1>3, <1>5, <1>6, OneCallMoves DEF BeginReconcile, InsertedByOne

\* A reconciliation gives its copy's counts another status.
LEMMA ReconciledRow ==
    ASSUME RefundInv, NEW w \in Workers, Reconcile(w)
    PROVE  /\ payment' \in PaymentRow
           /\ payment'.counted = payment.counted \/ payment'.counted = call[w].copy.counted
           /\ "payment" \notin stale' => "payment" \notin stale /\ payment'.counted = payment.counted
<1> USE DEF RefundInv, RefundTypeOK
<1>1. CASE UNCHANGED <<payment, stale>>
  BY <1>1
<1>2. CASE SavePayment(call[w].copy, [call[w].copy EXCEPT !.status = FetchedStatus])
  <2>1. call[w].copy \in PaymentRow /\ FetchedStatus \in {"refunded", "captured"}
    BY DEF FetchedStatus
  <2>2. [call[w].copy EXCEPT !.status = FetchedStatus] \in PaymentRow
        /\ [call[w].copy EXCEPT !.status = FetchedStatus].counted = call[w].copy.counted
    BY <2>1 DEF PaymentRow
  <2> QED BY <1>2, <2>2 DEF SavePayment
<1> QED BY <1>1, <1>2 DEF Reconcile

LEMMA ReconcileInv ==
    ASSUME RefundInv, NEW w \in Workers, Reconcile(w)
    PROVE  RefundInv'
<1> USE DEF RefundInv
<1>1. UNCHANGED <<gateway, row, notice, order, returnStatus, lost, overlap>> /\ Hang(w)
  BY DEF Reconcile
<1>2. Later
  BY <1>1 DEF Later
<1>3. TablesAgree'
  BY <1>1, ReconciledRow DEF TablesAgree, CountsWhatWentThrough, CallSound
<1>4. stale' \subseteq stale \union {"payment"}
  BY DEF Reconcile, SavePayment
<1>5. RefundTypeOK'
  BY <1>1, <1>2, <1>4, CallCalmsDown, ReconciledRow DEF RefundTypeOK, Call
<1> QED BY <1>1, <1>2, <1>3, <1>5, CallCalmsDown, OneCallMoves DEF InsertedByOne

LEMMA CallLostInv ==
    ASSUME RefundInv, NEW w \in Workers, CallLost(w)
    PROVE  RefundInv'
<1> USE DEF RefundInv
<1>1. Later /\ TablesAgree' /\ Hang(w)
  BY SameTables DEF CallLost
<1>2. lost' \in 0..MaxLost
  BY RefundsAssumption DEF CallLost, RefundTypeOK
<1>3. RefundTypeOK'
  BY <1>1, <1>2, CallCalmsDown DEF CallLost, RefundTypeOK, Call
<1> QED BY <1>1, <1>3, CallCalmsDown, OneCallMoves DEF CallLost, InsertedByOne

LEMMA RefundStepInv == RefundInv /\ [RefundStep]_refundVars => RefundInv'
<1> SUFFICES ASSUME RefundInv, [RefundStep]_refundVars PROVE RefundInv'
  OBVIOUS
<1>1. CASE UNCHANGED refundVars
  <2>1. Later /\ TablesAgree'
    BY <1>1, SameTables DEF refundVars
  <2>2. \A w \in Workers : CallSound(w)'
    BY <1>1, <2>1, OthersStaySound DEF refundVars
  <2> QED BY <1>1, <2>1, <2>2 DEF RefundInv, RefundTypeOK, InsertedByOne, At, refundVars
<1>2. ASSUME NEW w \in Workers, TakeUp(w) PROVE RefundInv'
  BY <1>2, BeginInv, TakeNoticeInv, BeginReconcileInv
     DEF TakeUp, refund_view, store_dashboard_refund_payment, initiate_return_refund
<1>3. ASSUME NEW w \in Workers, Proceed(w) PROVE RefundInv'
  BY <1>3, AskGatewayInv, InsertRefundInv, ApplyRefundResultInv, OrderRefundedInv, ReturnRefundedInv,
     FinishInv, ReconcileInv DEF Proceed
<1>4. ASSUME NEW w \in Workers, CallLost(w) PROVE RefundInv'
  BY <1>4, CallLostInv
<1>5. ASSUME NEW r \in Refunds, GatewaySettles(r) PROVE RefundInv'
  BY <1>5, GatewaySettlesInv
<1> QED BY <1>1, <1>2, <1>3, <1>4, <1>5 DEF RefundStep

\* In every reachable state the refund code's tables and the calls under way agree: our Refund
\* rows follow the gateway, no copy of the payment counts a refund twice or one that did not go
\* through, and a call that is about to add a refund works on a copy that does not count it.
THEOREM RefundInvHolds == RefundSpec => []RefundInv
<1>1. ReceivedInit => RefundInv
  <2>1. [q \in Requests |-> "received"] \in [Requests -> ReturnStatus]
    BY DEF ReturnStatus
  <2> QED BY <2>1, RefundInitInv DEF ReceivedInit
<1>2. RefundInv /\ [RefundStep]_refundVars => RefundInv'
  BY RefundStepInv
<1> QED BY <1>1, <1>2, PTL DEF RefundSpec

\* Type correctness of the refund side.
THEOREM RefundTypesHold == RefundSpec => []RefundTypeOK
<1>1. RefundInv => RefundTypeOK
  BY DEF RefundInv
<1> QED BY <1>1, RefundInvHolds, PTL

-----------------------------------------------------------------------------
(* refunded_amount is exact                                                *)

LEMMA ExactStep ==
    ASSUME RefundInv, RefundInv', RefundedAmountIsExact, [RefundStep]_refundVars
    PROVE  RefundedAmountIsExact'
<1> SUFFICES ASSUME "payment" \notin stale', NEW r \in Refunds, row'[r].status = "processed"
             PROVE  payment'.counted[r] = 1
  BY DEF RefundInv, TablesAgree, CountsWhatWentThrough, RefundedAmountIsExact
<1> USE DEF RefundInv, RefundedAmountIsExact
<1>1. CASE UNCHANGED <<payment, row, stale>>
  BY <1>1
<1>2. ASSUME NEW w \in Workers, InsertRefund(w) PROVE payment'.counted[r] = 1
  <2>1. row[r].status = "processed"
    BY <1>2 DEF InsertRefund, RefundTypeOK
  <2> QED BY <1>2, <2>1 DEF InsertRefund
<1>3. ASSUME NEW w \in Workers, ApplyRefundResult(w) PROVE payment'.counted[r] = 1
  <2> DEFINE s == call[w].refund
  <2>1. s \in Refunds /\ call[w].copy \in PaymentRow /\ call[w].copy.counted[s] = 0
        /\ call[w].result = gateway[s].state
    BY <1>3 DEF ApplyRefundResult, CallSound, RefundTypeOK
  <2>2. row'[r].status = IF r = s THEN call[w].result ELSE row[r].status
    BY <1>3, <2>1 DEF ApplyRefundResult, RefundTypeOK
  <2>3. CASE call[w].result = "processed"
    <3>1. SavePayment(call[w].copy, WithRefund(call[w].copy, s))
      BY <1>3, <2>3 DEF ApplyRefundResult
    <3>2. payment = call[w].copy /\ "payment" \notin stale
      BY <3>1 DEF SavePayment
    <3>3. payment'.counted[r] = IF r = s THEN 1 ELSE call[w].copy.counted[r]
      BY <2>1, <3>1, WithRefundCounts DEF SavePayment
    <3> QED BY <2>2, <3>2, <3>3
  <2>4. CASE call[w].result # "processed"
    <3>1. UNCHANGED <<payment, stale>>
      BY <1>3, <2>4 DEF ApplyRefundResult
    <3> QED BY <2>2, <2>4, <3>1
  <2> QED BY <2>3, <2>4
<1>4. ASSUME NEW w \in Workers, Reconcile(w) PROVE payment'.counted[r] = 1
  BY <1>4, ReconciledRow DEF Reconcile
<1>5. ASSUME NEW w \in Workers, Finish(w) PROVE payment'.counted[r] = 1
  BY <1>5 DEF Finish
<1>6. ASSUME NEW w \in Workers, TakeUp(w) PROVE UNCHANGED <<payment, row, stale>>
  BY <1>6 DEF TakeUp, refund_view, store_dashboard_refund_payment, initiate_return_refund, Begin,
              TakeNotice, BeginReconcile
<1>7. ASSUME NEW w \in Workers, AskGateway(w) \/ OrderRefunded(w) \/ ReturnRefunded(w) \/ CallLost(w)
      PROVE  UNCHANGED <<payment, row, stale>>
  BY <1>7 DEF AskGateway, OrderRefunded, ReturnRefunded, CallLost
<1>8. ASSUME NEW s \in Refunds, GatewaySettles(s) PROVE UNCHANGED <<payment, row, stale>>
  BY <1>8 DEF GatewaySettles
<1> QED BY <1>1, <1>2, <1>3, <1>4, <1>5, <1>6, <1>7, <1>8 DEF RefundStep, Proceed, refundVars

\* As long as no save of the Payment row has overtaken another one, refunded_amount is the sum of
\* exactly the refunds that went through, whatever the number of refunds, workers and lost calls.
THEOREM ExactUntilOvertaken == RefundSpec => []RefundedAmountIsExact
<1>1. ReceivedInit => RefundedAmountIsExact
  BY DEF ReceivedInit, RefundInit, RefundedAmountIsExact, Uncounted
<1>2. RefundInv /\ RefundInv' /\ RefundedAmountIsExact /\ [RefundStep]_refundVars
      => RefundedAmountIsExact'
  BY ExactStep
<1> QED BY <1>1, <1>2, RefundInvHolds, PTL DEF RefundSpec

-----------------------------------------------------------------------------
(* The refinement                                                          *)

\* RefundLedger's result of a refund
ResultOf(r) == IF row[r].status \in Result THEN row[r].status ELSE "open"

LEMMA CountsStaySound ==
    ASSUME TablesAgree', payment' \in PaymentRow
    PROVE  /\ payment'.counted \in [Refunds -> {0, 1}]
           /\ \A r \in Refunds : payment'.counted[r] = 1 => ResultOf(r)' = "processed"
BY DEF TablesAgree, CountsWhatWentThrough, PaymentRow, ResultOf, Result

LEMMA LedgerInit == ReceivedInit => Ledger!Init
BY DEF ReceivedInit, RefundInit, Ledger!Init, Uncounted, Result

\* A step that changes no result only moves counts.
LEMMA OnlyCountsMove ==
    ASSUME RefundInv', \A r \in Refunds : ResultOf(r)' = ResultOf(r)
    PROVE  Ledger!MoveCounts
<1>1. /\ payment'.counted \in [Refunds -> {0, 1}]
      /\ \A r \in Refunds : payment'.counted[r] = 1 => ResultOf(r) = "processed"
  BY CountsStaySound DEF RefundInv, RefundTypeOK
<1>2. [r \in Refunds |-> IF row[r].status \in Result THEN row[r].status ELSE "open"]
      = [r \in Refunds |-> IF row'[r].status \in Result THEN row'[r].status ELSE "open"]
  BY DEF ResultOf
<1> QED BY <1>1, <1>2 DEF Ledger!MoveCounts, Ledger!Sound, ResultOf

LEMMA LedgerStep ==
    ASSUME RefundInv, RefundInv', [RefundStep]_refundVars
    PROVE  [Ledger!Next]_<<[r \in Refunds |-> IF row[r].status \in Result THEN row[r].status ELSE "open"],
                           payment.counted>>
<1> USE DEF RefundInv
<1>1. CASE \A r \in Refunds : ResultOf(r)' = ResultOf(r)
  BY <1>1, OnlyCountsMove DEF Ledger!Next
<1>2. CASE \E w \in Workers : ApplyRefundResult(w)
  <2>1. PICK w \in Workers, s \in Refunds : ApplyRefundResult(w) /\ s = call[w].refund
    BY <1>2 DEF ApplyRefundResult, CallSound
  <2>2. s \in Refunds /\ call[w].copy \in PaymentRow /\ call[w].copy.counted[s] = 0
        /\ call[w].result \in Result /\ call[w].result = gateway[s].state
    BY <2>1 DEF ApplyRefundResult, CallSound, RefundTypeOK
  <2>3. \A r \in Refunds : ResultOf(r)' = IF r = s THEN call[w].result ELSE ResultOf(r)
    BY <2>1, <2>2 DEF ApplyRefundResult, RefundTypeOK, ResultOf
  <2>4. CASE ResultOf(s) # "open"
    <3>1. ResultOf(s) = call[w].result
      BY <2>2, <2>4 DEF ResultOf, TablesAgree
    <3> QED BY <2>3, <3>1, <1>1
  <2>5. CASE ResultOf(s) = "open" /\ call[w].result = "processed"
    <3>1. payment'.counted[s] = 1
      BY <2>1, <2>2, <2>5, WithRefundCounts DEF ApplyRefundResult, SavePayment
    <3>2. Ledger!Process(s)
      <4>1. /\ payment'.counted \in [Refunds -> {0, 1}]
            /\ \A r \in Refunds : payment'.counted[r] = 1 => ResultOf(r)' = "processed"
        BY CountsStaySound DEF RefundTypeOK
      <4> QED BY <2>2, <2>3, <2>5, <3>1, <4>1 DEF Ledger!Process, Ledger!Sound, ResultOf
    <3> QED BY <3>2 DEF Ledger!Next
  <2>6. CASE ResultOf(s) = "open" /\ call[w].result = "failed"
    <3>1. UNCHANGED payment
      BY <2>1, <2>6 DEF ApplyRefundResult
    <3>2. Ledger!Fail(s)
      BY <2>2, <2>3, <2>6, <3>1 DEF Ledger!Fail, ResultOf
    <3> QED BY <3>2 DEF Ledger!Next
  <2> QED BY <2>2, <2>4, <2>5, <2>6 DEF Result
<1>3. ASSUME NEW w \in Workers, InsertRefund(w), NEW r \in Refunds PROVE ResultOf(r)' = ResultOf(r)
  <2>1. call[w].refund \in Refunds /\ row[call[w].refund].status = "none"
    BY <1>3 DEF InsertRefund, CallSound, InsertedByOne
  <2>2. row'[r].status = IF r = call[w].refund THEN "initiated" ELSE row[r].status
    BY <1>3, <2>1 DEF InsertRefund, RefundTypeOK
  <2> QED BY <2>1, <2>2 DEF ResultOf, Result
<1>4. CASE UNCHANGED row
  BY <1>1, <1>4 DEF ResultOf
<1>5. ASSUME NEW w \in Workers, TakeUp(w) PROVE UNCHANGED row
  BY <1>5 DEF TakeUp, refund_view, store_dashboard_refund_payment, initiate_return_refund, Begin,
              TakeNotice, BeginReconcile
<1>6. ASSUME NEW w \in Workers, AskGateway(w) \/ OrderRefunded(w) \/ ReturnRefunded(w) \/ Finish(w)
                                \/ Reconcile(w) \/ CallLost(w)
      PROVE  UNCHANGED row
  BY <1>6 DEF AskGateway, OrderRefunded, ReturnRefunded, Finish, Reconcile, CallLost
<1>7. ASSUME NEW s \in Refunds, GatewaySettles(s) PROVE UNCHANGED row
  BY <1>7 DEF GatewaySettles
<1> QED BY <1>1, <1>2, <1>3, <1>4, <1>5, <1>6, <1>7 DEF RefundStep, Proceed, refundVars

\* The refund code, with every overlap of its unlocked calls, repeated events and lost calls,
\* implements RefundLedger: one result per refund, and no refund counted twice or without having
\* gone through.
THEOREM RefundsKeepTheLedger == RefundSpec => KeepsRefundLedger
<1>1. ReceivedInit => Ledger!Init
  BY LedgerInit
<1>2. RefundInv /\ RefundInv' /\ [RefundStep]_refundVars
      => [Ledger!Next]_<<[r \in Refunds |-> IF row[r].status \in Result THEN row[r].status ELSE "open"],
                         payment.counted>>
  BY LedgerStep
<1> QED BY <1>1, <1>2, RefundInvHolds, PTL DEF RefundSpec, KeepsRefundLedger, Ledger!Spec

-----------------------------------------------------------------------------
(* Never more back than was paid                                           *)

\* What the gateway pays back for each refund, and what the row counts of it.
Backs(g) == [r \in Refunds |-> IF g[r].state = "failed" THEN 0 ELSE g[r].amount]
Counts(p) == [r \in Refunds |-> p.counted[r] * gateway[r].amount]

\* MoneyBack and RefundedAmount are such sums.
LEMMA BackIsSum ==
    ASSUME NEW w
    PROVE  MapThenSumSet(LAMBDA r : IF w[r].state = "failed" THEN 0 ELSE w[r].amount, Refunds)
                = SumOver(Backs(w), Refunds)
<1> DEFINE f == Backs(w)
           P(g) == g = [s \in SUBSET Refunds |-> IF s = {} THEN 0
                           ELSE (IF w[Some(s)].state = "failed" THEN 0 ELSE w[Some(s)].amount) + g[s \ {Some(s)}]]
<1>0. IsFiniteSet(Refunds)
  BY RefundsAssumption
<1>1. \A g : P(g) <=> Adds(g, f, Refunds)
  <2>1. \A s \in SUBSET Refunds : s # {} =>
            f[Some(s)] = IF w[Some(s)].state = "failed" THEN 0 ELSE w[Some(s)].amount
    BY SomeIsIn DEF Backs
  <2> HIDE DEF f
  <2> QED BY <2>1 DEF Adds
<1>2. P(CHOOSE g : P(g))
  BY <1>0, <1>1, SumExists
<1>3. Adds(CHOOSE g : P(g), f, Refunds) /\ Adds(CHOOSE g : Adds(g, f, Refunds), f, Refunds)
  BY <1>0, <1>1, <1>2, SumAdds
<1>4. MapThenSumSet(LAMBDA r : IF w[r].state = "failed" THEN 0 ELSE w[r].amount, Refunds)
        = (CHOOSE g : P(g))[Refunds]
  BY DEF MapThenSumSet, MapThenFoldSet, Some
<1> HIDE DEF P, f
<1>5. (CHOOSE g : P(g))[Refunds] = (CHOOSE g : Adds(g, f, Refunds))[Refunds]
  BY <1>0, <1>3, SumUnique
<1> QED BY <1>4, <1>5 DEF SumOver, f

LEMMA CountIsSum ==
    ASSUME NEW p
    PROVE  RefundedAmount(p) = SumOver(Counts(p), Refunds)
<1> DEFINE f == Counts(p)
           P(g) == g = [s \in SUBSET Refunds |-> IF s = {} THEN 0
                           ELSE p.counted[Some(s)] * gateway[Some(s)].amount + g[s \ {Some(s)}]]
<1>0. IsFiniteSet(Refunds)
  BY RefundsAssumption
<1>1. \A g : P(g) <=> Adds(g, f, Refunds)
  <2>1. \A s \in SUBSET Refunds : s # {} => f[Some(s)] = p.counted[Some(s)] * gateway[Some(s)].amount
    BY SomeIsIn DEF Counts
  <2> HIDE DEF f
  <2> QED BY <2>1 DEF Adds
<1>2. P(CHOOSE g : P(g))
  BY <1>0, <1>1, SumExists
<1>3. Adds(CHOOSE g : P(g), f, Refunds) /\ Adds(CHOOSE g : Adds(g, f, Refunds), f, Refunds)
  BY <1>0, <1>1, <1>2, SumAdds
<1>4. RefundedAmount(p) = (CHOOSE g : P(g))[Refunds]
  BY DEF RefundedAmount, MapThenSumSet, MapThenFoldSet, Some
<1> HIDE DEF P, f
<1>5. (CHOOSE g : P(g))[Refunds] = (CHOOSE g : Adds(g, f, Refunds))[Refunds]
  BY <1>0, <1>3, SumUnique
<1> QED BY <1>4, <1>5 DEF SumOver, f

LEMMA MoneyBackIsSum ==
    /\ MoneyBack = SumOver(Backs(gateway), Refunds)
    /\ MoneyBack' = SumOver(Backs(gateway'), Refunds)
<1>1. MoneyBack = SumOver(Backs(gateway), Refunds)
  BY BackIsSum DEF MoneyBack
<1>2. (MoneyBack = SumOver(Backs(gateway), Refunds))'
  BY <1>1, PTL
<1> QED BY <1>1, <1>2

LEMMA AmountsAreNat ==
    ASSUME RefundTypeOK
    PROVE  (\A r \in Refunds : gateway[r].amount \in Nat) /\ (\A w \in Workers : call[w].amount \in Nat) /\ Paid \in Nat
<1>1. Amounts \union {0} \subseteq Nat /\ Paid \in Nat
  BY RefundsAssumption
<1>2. (\A r \in Refunds : gateway[r].amount \in Amounts \union {0}) /\ \A w \in Workers : call[w].amount \in Amounts \union {0}
  BY DEF RefundTypeOK, GatewayRefund
<1> QED BY <1>1, <1>2

\* While a refund is being asked for everything that went back is in the balance it was checked
\* against, nobody else asks, and the new one fits into what is left.
BalanceInv ==
    /\ \A r \in Refunds : gateway[r].state = "none" => gateway[r].amount = 0
    /\ ~overlap /\ "payment" \notin stale =>
        /\ MoneyBack <= Paid
        /\ \A w \in Workers : At(w, "ask") =>
            /\ MoneyBack + call[w].amount <= Paid
            /\ \A v \in Workers : At(v, "ask") => v = w
            /\ \A r \in Refunds : ~Open(r)

LEMMA BacksAreNat ==
    ASSUME RefundTypeOK
    PROVE  /\ \A r \in Refunds : Backs(gateway)[r] \in Nat
           /\ MoneyBack \in Nat
<1>1. \A r \in Refunds : Backs(gateway)[r] \in Nat
  BY AmountsAreNat DEF Backs
<1> QED BY <1>1, RefundsAssumption, SumIsNat, MoneyBackIsSum

LEMMA BalanceInit ==
    ASSUME NEW statuses, RefundInit(statuses)
    PROVE  BalanceInv
<1>1. \A r \in Refunds : gateway[r].state = "none" /\ gateway[r].amount = 0
  BY DEF RefundInit
<1>2. \A r \in Refunds : Backs(gateway)[r] = 0
  BY <1>1 DEF Backs
<1>3. MoneyBack = 0
  BY <1>2, RefundsAssumption, SumOfZeros, MoneyBackIsSum
<1>4. \A w \in Workers : ~At(w, "ask")
  BY DEF RefundInit, At, Idle
<1> QED BY <1>1, <1>2, <1>3, <1>4, RefundsAssumption DEF BalanceInv

LEMMA BeginBalance ==
    ASSUME RefundInv, BalanceInv, NEW w \in Workers, NEW q \in Requests \union {NoRequest},
           NEW amount \in Amounts, NEW source \in {"staff", "return"}, Begin(w, source, q, amount)
    PROVE  BalanceInv'
<1> USE DEF RefundInv
<1>1. UNCHANGED <<payment, gateway, row, notice, order, returnStatus, lost, stale>>
  BY DEF Begin
<1>2. call'[w].amount = amount /\ \A v \in Workers \ {w} : call'[v] = call[v]
  BY DEF Begin, RefundTypeOK, Idle
<1>3. MoneyBack' = MoneyBack
  BY <1>1, MoneyBackIsSum
<1>4. SUFFICES ASSUME ~overlap', "payment" \notin stale
               PROVE  /\ MoneyBack + amount <= Paid
                      /\ \A v \in Workers : ~At(v, "ask")
                      /\ \A r \in Refunds : ~Open(r)
  <2>1. \A v \in Workers : v # w => (At(v, "ask")' <=> At(v, "ask"))
    BY <1>2 DEF At
  <2>2. \A r \in Refunds : Open(r)' = Open(r)
    BY <1>1 DEF Open
  <2>3. overlap => overlap'
    BY DEF Begin
  <2> QED BY <1>1, <1>2, <1>3, <2>1, <2>2, <2>3 DEF BalanceInv
<1>5. (\A v \in Workers : ~At(v, "ask")) /\ \A r \in Refunds : ~Open(r)
  BY <1>4 DEF Begin
<1>6. \A r \in Refunds : /\ Backs(gateway)[r] \in Int /\ Counts(payment)[r] \in Int
                         /\ Backs(gateway)[r] <= Counts(payment)[r]
  <2> TAKE r \in Refunds
  <2>1. gateway[r].amount \in Nat /\ payment.counted[r] \in {0, 1}
    BY AmountsAreNat DEF RefundTypeOK, TablesAgree, CountsWhatWentThrough
  <2>2. /\ Backs(gateway)[r] = IF gateway[r].state = "failed" THEN 0 ELSE gateway[r].amount
        /\ Counts(payment)[r] = payment.counted[r] * gateway[r].amount
    BY DEF Backs, Counts
  <2>3. CASE gateway[r].state = "none"
    BY <2>1, <2>2, <2>3 DEF BalanceInv
  <2>4. CASE gateway[r].state = "failed"
    BY <2>1, <2>2, <2>4
  <2>5. CASE gateway[r].state = "processed"
    <3>1. payment.counted[r] = 1
      BY <1>5, <2>1, <2>5 DEF Open
    <3> QED BY <2>1, <2>2, <2>5, <3>1
  <2> QED BY <1>5, <2>3, <2>4, <2>5 DEF RefundTypeOK, GatewayRefund, Open, Result
<1>7. MoneyBack <= RefundedAmount(payment)
  BY <1>6, RefundsAssumption, SumNoLarger, MoneyBackIsSum, CountIsSum
<1>8. RefundedAmount(payment) \in Int /\ MoneyBack \in Int
  BY <1>6, RefundsAssumption, SumIsInt, MoneyBackIsSum, CountIsSum
<1>9. RefundedAmount(payment) + amount <= Paid /\ amount \in Int /\ Paid \in Int
  BY RefundsAssumption DEF Begin, Refundable
<1> QED BY <1>5, <1>7, <1>8, <1>9

\* A step that asks for nothing new and opens nothing keeps the balance.
LEMMA BalanceKept ==
    ASSUME RefundInv, RefundInv', BalanceInv, overlap' = overlap, stale \subseteq stale',
           \A r \in Refunds : /\ gateway'[r].amount = gateway[r].amount
                              /\ gateway'[r].state = "none" => gateway[r].state = "none"
                              /\ gateway[r].state = "failed" => gateway'[r].state = "failed",
           \A w \in Workers : At(w, "ask")' => At(w, "ask") /\ call'[w].amount = call[w].amount,
           "payment" \notin stale' => \A r \in Refunds : Open(r)' => Open(r)
    PROVE  BalanceInv'
<1> USE DEF RefundInv
<1>1. \A r \in Refunds : /\ Backs(gateway)[r] \in Int /\ Backs(gateway')[r] \in Int
                         /\ Backs(gateway')[r] <= Backs(gateway)[r]
  <2> TAKE r \in Refunds
  <2>1. gateway[r].amount \in Nat
    BY AmountsAreNat
  <2> QED BY <2>1 DEF Backs
<1>2. MoneyBack' <= MoneyBack /\ MoneyBack' \in Int /\ MoneyBack \in Int
  BY <1>1, RefundsAssumption, SumNoLarger, SumIsInt, MoneyBackIsSum
<1>3. \A r \in Refunds : gateway'[r].state = "none" => gateway'[r].amount = 0
  BY DEF BalanceInv
<1>4. SUFFICES ASSUME ~overlap, "payment" \notin stale'
               PROVE  /\ MoneyBack' <= Paid
                      /\ \A w \in Workers : At(w, "ask")' =>
                            /\ MoneyBack' + call'[w].amount <= Paid
                            /\ \A v \in Workers : At(v, "ask")' => v = w
                            /\ \A r \in Refunds : ~Open(r)'
  BY <1>3 DEF BalanceInv
<1>5. MoneyBack' <= Paid
  BY <1>2, <1>4, RefundsAssumption DEF BalanceInv
<1>6. ASSUME NEW w \in Workers, At(w, "ask")'
      PROVE  MoneyBack' + call'[w].amount <= Paid
  <2>1. MoneyBack + call[w].amount <= Paid /\ call'[w].amount = call[w].amount
    BY <1>4, <1>6 DEF BalanceInv
  <2>2. call[w].amount \in Int /\ Paid \in Int
    BY AmountsAreNat
  <2> QED BY <1>2, <2>1, <2>2
<1> QED BY <1>4, <1>5, <1>6 DEF BalanceInv

LEMMA AskGatewayBalance ==
    ASSUME RefundInv, RefundInv', BalanceInv, NEW w \in Workers, AskGateway(w)
    PROVE  BalanceInv'
<1> USE DEF RefundInv
<1>1. UNCHANGED <<payment, row, order, returnStatus, lost, stale, overlap>> /\ At(w, "ask")
  BY DEF AskGateway
<1>2. CASE Hang(w) /\ UNCHANGED <<gateway, notice>>
  <2>1. \A v \in Workers : At(v, "ask")' => At(v, "ask") /\ call'[v].amount = call[v].amount
    BY <1>2 DEF Hang, At, Idle, RefundTypeOK
  <2> QED BY <1>1, <1>2, <2>1, BalanceKept DEF Open
<1>3. CASE Known # Refunds /\ \E state \in Result \union {"pending"} :
            /\ gateway' = [gateway EXCEPT ![NewRefund] = [state |-> state, amount |-> call[w].amount]]
            /\ call' = [call EXCEPT ![w].step = "insert", ![w].amount = 0, ![w].refund = NewRefund,
                                        ![w].result = state]
  <2>1. PICK state \in Result \union {"pending"} :
            /\ gateway' = [gateway EXCEPT ![NewRefund] = [state |-> state, amount |-> call[w].amount]]
            /\ call' = [call EXCEPT ![w].step = "insert", ![w].amount = 0, ![w].refund = NewRefund,
                                        ![w].result = state]
    BY <1>3
  <2>2. NewRefund \in Refunds /\ gateway[NewRefund].state = "none"
    BY <1>3, NewRefundIsNew
  <2>3. /\ gateway'[NewRefund].state = state /\ gateway'[NewRefund].amount = call[w].amount
        /\ \A r \in Refunds \ {NewRefund} : gateway'[r] = gateway[r]
    BY <2>1, <2>2 DEF RefundTypeOK
  <2>4. \A r \in Refunds : gateway'[r].state = "none" => gateway'[r].amount = 0
    BY <2>2, <2>3 DEF BalanceInv, Result
  <2>5. \A v \in Workers : At(v, "ask")' => v # w /\ At(v, "ask")
    BY <2>1 DEF At, RefundTypeOK
  <2>6. SUFFICES ASSUME ~overlap, "payment" \notin stale PROVE MoneyBack' <= Paid
    BY <1>1, <2>4, <2>5 DEF BalanceInv
  <2>7. call[w].amount \in Nat
    BY AmountsAreNat
  <2>8. /\ \A r \in Refunds : Backs(gateway)[r] \in Int /\ Backs(gateway')[r] \in Int
        /\ \A r \in Refunds \ {NewRefund} : Backs(gateway')[r] = Backs(gateway)[r]
        /\ Backs(gateway)[NewRefund] = 0 /\ Backs(gateway')[NewRefund] <= call[w].amount
    <3>1. \A r \in Refunds : gateway[r].amount \in Nat
      BY AmountsAreNat
    <3> QED BY <2>2, <2>3, <2>7, <3>1 DEF Backs, BalanceInv
  <2>9. MoneyBack' = MoneyBack + Backs(gateway')[NewRefund] - 0
    <3>1. SumOver(Backs(gateway'), Refunds)
            = SumOver(Backs(gateway), Refunds) + Backs(gateway')[NewRefund] - Backs(gateway)[NewRefund]
      BY <2>2, <2>8, RefundsAssumption, SumChanged
    <3> QED BY <2>8, <3>1, MoneyBackIsSum
  <2>10. MoneyBack + call[w].amount <= Paid
    BY <1>1, <2>6 DEF BalanceInv
  <2>11. MoneyBack \in Int /\ Paid \in Int /\ Backs(gateway')[NewRefund] \in Int
    BY <2>2, <2>8, BacksAreNat, RefundsAssumption
  <2> QED BY <2>7, <2>8, <2>9, <2>10, <2>11
<1> QED BY <1>2, <1>3 DEF AskGateway

LEMMA BalanceStep ==
    ASSUME RefundInv, RefundInv', BalanceInv, [RefundStep]_refundVars
    PROVE  BalanceInv'
<1> USE DEF RefundInv
<1>1. CASE UNCHANGED refundVars
  BY <1>1, BalanceKept DEF refundVars, At, Open
<1>2. ASSUME NEW w \in Workers,
             \/ InsertRefund(w) \/ OrderRefunded(w) \/ ReturnRefunded(w) \/ Finish(w) \/ CallLost(w)
             \/ BeginReconcile(w) \/ \E r \in Refunds : TakeNotice(w, r)
      PROVE  BalanceInv'
  <2>1. UNCHANGED <<payment, gateway, overlap>> /\ stale \subseteq stale'
    BY <1>2 DEF InsertRefund, OrderRefunded, ReturnRefunded, Finish, CallLost, BeginReconcile, TakeNotice
  <2>2. \A v \in Workers : At(v, "ask")' => At(v, "ask") /\ call'[v] = call[v]
    <3>1. ASSUME NEW r \in Refunds, TakeNotice(w, r)
          PROVE  \A v \in Workers : At(v, "ask")' => At(v, "ask") /\ call'[v] = call[v]
      <4> DEFINE c == [Idle EXCEPT !.step = "apply", !.source = "webhook", !.request = row[r].request,
                                   !.refund = r, !.result = gateway[r].state, !.copy = payment]
      <4>1. c.step = "apply"
        BY DEF Idle
      <4>2. call' = call \/ call' = [call EXCEPT ![w] = c]
        BY <3>1 DEF TakeNotice
      <4> HIDE DEF c
      <4> QED BY <4>1, <4>2 DEF At, RefundTypeOK
    <3>2. CASE BeginReconcile(w)
      BY <3>2 DEF BeginReconcile, Idle, At, RefundTypeOK
    <3>3. CASE Hang(w) \/ GoTo(w, "finish") \/ GoTo(w, "apply") \/ GoTo(w, "return")
      BY <3>3 DEF Hang, GoTo, Idle, At, RefundTypeOK
    <3> QED BY <1>2, <3>1, <3>2, <3>3 DEF InsertRefund, OrderRefunded, ReturnRefunded, Finish, CallLost, Leave
  <2> QED BY <2>1, <2>2, BalanceKept DEF Open
<1>3. ASSUME NEW w \in Workers, ApplyRefundResult(w) PROVE BalanceInv'
  <2>1. UNCHANGED <<gateway, overlap>> /\ stale \subseteq stale'
    BY <1>3 DEF ApplyRefundResult, SavePayment
  <2>2. \A v \in Workers : At(v, "ask")' => At(v, "ask") /\ call'[v] = call[v]
    BY <1>3 DEF ApplyRefundResult, GoTo, At, RefundTypeOK
  <2>3. "payment" \notin stale' => \A r \in Refunds : payment'.counted[r] = 0 => payment.counted[r] = 0
    <3>1. CASE UNCHANGED payment
      BY <3>1
    <3>2. CASE SavePayment(call[w].copy, WithRefund(call[w].copy, call[w].refund))
      <4>1. /\ call[w].refund \in Refunds /\ call[w].copy \in PaymentRow
            /\ call[w].copy.counted[call[w].refund] = 0
        BY <1>3 DEF ApplyRefundResult, CallSound, RefundTypeOK
      <4>2. \A r \in Refunds : payment'.counted[r] = 0 => call[w].copy.counted[r] = 0
        BY <3>2, <4>1, WithRefundCounts DEF SavePayment
      <4> QED BY <3>2, <4>2 DEF SavePayment
    <3> QED BY <1>3, <3>1, <3>2 DEF ApplyRefundResult
  <2> QED BY <2>1, <2>2, <2>3, BalanceKept DEF Open
<1>4. ASSUME NEW w \in Workers, Reconcile(w) PROVE BalanceInv'
  <2>1. UNCHANGED <<gateway, overlap>> /\ stale \subseteq stale'
    BY <1>4 DEF Reconcile, SavePayment
  <2>2. \A v \in Workers : At(v, "ask")' => At(v, "ask") /\ call'[v] = call[v]
    BY <1>4 DEF Reconcile, Hang, Idle, At, RefundTypeOK
  <2> QED BY <1>4, <2>1, <2>2, ReconciledRow, BalanceKept DEF Open
<1>5. ASSUME NEW s \in Refunds, GatewaySettles(s) PROVE BalanceInv'
  <2>1. UNCHANGED <<payment, call, stale, overlap>> /\ gateway[s].state = "pending"
    BY <1>5 DEF GatewaySettles
  <2>2. /\ gateway'[s].state \in Result /\ gateway'[s].amount = gateway[s].amount
        /\ \A r \in Refunds \ {s} : gateway'[r] = gateway[r]
    BY <1>5 DEF GatewaySettles, RefundTypeOK, GatewayRefund
  <2> QED BY <2>1, <2>2, BalanceKept DEF Open, Result, At
<1>6. ASSUME NEW w \in Workers, TakeUp(w) PROVE BalanceInv'
  BY <1>2, <1>6, BeginBalance
     DEF TakeUp, refund_view, store_dashboard_refund_payment, initiate_return_refund
<1> QED BY <1>1, <1>2, <1>3, <1>4, <1>5, <1>6, AskGatewayBalance DEF RefundStep, Proceed

\* If staff wait for each refund's result before they ask for the next one, and no save of the
\* Payment row overtakes another one, the gateway never pays back more than was paid
\* (initiate_refund checks refunded_amount against amount in payments/services.py), for any number
\* of refunds, amounts, workers, repeated events and lost calls.
THEOREM NeverMoreBackThanPaid == RefundSpec => []PaysBackAtMostWhatWasPaid
<1>1. RefundInv /\ RefundInv' /\ BalanceInv /\ [RefundStep]_refundVars => BalanceInv'
  BY BalanceStep
<1>2. BalanceInv => PaysBackAtMostWhatWasPaid
  BY DEF BalanceInv, PaysBackAtMostWhatWasPaid
<1>3. ReceivedInit => BalanceInv
  BY BalanceInit DEF ReceivedInit
<1> QED BY <1>1, <1>2, <1>3, RefundInvHolds, PTL DEF RefundSpec

-----------------------------------------------------------------------------
(* Returns: what holds in every reachable state                            *)

Received == {"received", "refund_initiated", "refunded"}
Withdrawn == {"rejected", "cancelled"}

Desk == [service : {"none", "request", "approve", "ship", "reject", "receive", "cancel"},
         request : Requests \union {NoRequest}, lines : [Items -> Nat],
         seen : ReturnStatus \union [Items -> Int] \union {<<>>}]

\* What a service has found out when it goes on to write.
DeskInv(w) ==
    LET d == desk[w]
    IN  /\ d.service \notin {"none", "request"} => d.request \in Requests
        /\ d.service \in {"approve", "reject", "cancel"} => d.seen = "requested"
        /\ d.service = "receive" => d.seen = "approved" /\ ShipmentAccountedFor(d.request)
        /\ d.service = "request" => \A i \in Items : d.seen[i] \in Int /\ d.lines[i] + d.seen[i] <= Ordered[i]

\* A call works for the return of its refund; one that is about to undo the return has a failed refund.
CallForReturn(w) ==
    /\ At(w, "apply") => row[call[w].refund].request = call[w].request
    /\ At(w, "order") => call[w].result = "processed"
    /\ At(w, "return") /\ call[w].result # "processed" =>
            \E r \in Refunds : row[r].status = "failed" /\ row[r].request = call[w].request

\* a refund of the return was asked for
MayBeRefunded(q) == (\E w \in Workers : call[w].request = q) \/ \E r \in Refunds : row[r].request = q

\* The units of an item that each return claims, and those of the returns that were received.
Claims(status, units, i) == [q \in Requests |-> IF status[q] \in Withdrawn THEN 0 ELSE units[q][i]]
Parcels(status, units, i) == [q \in Requests |-> IF status[q] \in Received THEN units[q][i] ELSE 0]

\* As long as no status and no claim was written over a newer one: returns with a refund were
\* received and stay so, and what was put back came in with a parcel.
InOrder ==
    /\ \A q \in Requests : MayBeRefunded(q) => returnStatus[q] \in Received
    /\ \A i \in Items : /\ SumOver(Claims(returnStatus, lines, i), Requests) <= Ordered[i]
                        /\ putBack[i] <= SumOver(Parcels(returnStatus, lines, i), Requests)

NotOvertaken == stale \intersect {"claims", "status"} = {}

ReturnInv ==
    /\ RefundInv /\ ReturnTypeOK /\ desk \in [Clerks -> Desk]
    /\ \A q \in Requests : returnStatus[q] = "none" => lines[q] = NoLines
    /\ \A w \in Clerks : DeskInv(w)
    /\ \A w \in Workers : CallForReturn(w)
    /\ \A q \in Requests : MayBeRefunded(q) => ShipmentAccountedFor(q)
    /\ NotOvertaken => InOrder

-----------------------------------------------------------------------------
(* The sums                                                                *)

LEMMA ClaimedIsSum ==
    ASSUME NEW i \in Items
    PROVE  Claimed[i] = SumOver(Claims(returnStatus, lines, i), Requests)
<1> DEFINE f == Claims(returnStatus, lines, i)
           claim(q) == IF returnStatus[q] \in {"rejected", "cancelled"} THEN 0 ELSE lines[q][i]
           P(g) == g = [s \in SUBSET Requests |-> IF s = {} THEN 0 ELSE claim(Some(s)) + g[s \ {Some(s)}]]
<1>0. IsFiniteSet(Requests)
  BY ReturnsAssumption
<1>1. \A g : P(g) <=> Adds(g, f, Requests)
  <2>1. \A s \in SUBSET Requests : s # {} => f[Some(s)] = claim(Some(s))
    BY SomeIsIn DEF Claims, Withdrawn
  <2> HIDE DEF f, claim
  <2> QED BY <2>1 DEF Adds
<1>2. P(CHOOSE g : P(g))
  BY <1>0, <1>1, SumExists
<1>3. Adds(CHOOSE g : P(g), f, Requests) /\ Adds(CHOOSE g : Adds(g, f, Requests), f, Requests)
  BY <1>0, <1>1, <1>2, SumAdds
<1>4. Claimed[i] = (CHOOSE g : P(g))[Requests]
  BY DEF Claimed, MapThenSumSet, MapThenFoldSet, Some
<1> HIDE DEF P, f
<1>5. (CHOOSE g : P(g))[Requests] = (CHOOSE g : Adds(g, f, Requests))[Requests]
  BY <1>0, <1>3, SumUnique
<1> QED BY <1>4, <1>5 DEF SumOver, f

LEMMA ValuesAreNat ==
    ASSUME NEW status, NEW units \in [Requests -> [Items -> Nat]], NEW i \in Items
    PROVE  /\ \A q \in Requests : Claims(status, units, i)[q] \in Nat /\ Parcels(status, units, i)[q] \in Nat
           /\ SumOver(Claims(status, units, i), Requests) \in Nat
           /\ SumOver(Parcels(status, units, i), Requests) \in Nat
<1>1. \A q \in Requests : Claims(status, units, i)[q] \in Nat /\ Parcels(status, units, i)[q] \in Nat
  BY DEF Claims, Parcels
<1> QED BY <1>1, ReturnsAssumption, SumIsNat

\* When nothing is withdrawn less and nothing received, the claims are no more and the parcels the same.
LEMMA SumsKept ==
    ASSUME NEW units \in [Requests -> [Items -> Nat]], NEW i \in Items, NEW before, NEW after,
           \A q \in Requests : /\ before[q] \in Withdrawn => after[q] \in Withdrawn
                               /\ before[q] \in Received <=> after[q] \in Received
    PROVE  /\ SumOver(Claims(after, units, i), Requests) <= SumOver(Claims(before, units, i), Requests)
           /\ SumOver(Parcels(after, units, i), Requests) = SumOver(Parcels(before, units, i), Requests)
<1>1. \A q \in Requests : /\ Claims(after, units, i)[q] \in Int /\ Claims(before, units, i)[q] \in Int
                          /\ Claims(after, units, i)[q] <= Claims(before, units, i)[q]
                          /\ Parcels(after, units, i)[q] = Parcels(before, units, i)[q]
  BY DEF Claims, Parcels
<1> QED BY <1>1, ReturnsAssumption, SumNoLarger, SumSame

\* One return's status is written.
Writes(before, after, q, old, new) ==
    before[q] = old /\ after[q] = new /\ \A p \in Requests \ {q} : after[p] = before[p]

\* A parcel that is received adds its units.
LEMMA ParcelReceived ==
    ASSUME NEW units \in [Requests -> [Items -> Nat]], NEW i \in Items, NEW before, NEW after,
           NEW q \in Requests, Writes(before, after, q, "approved", "received")
    PROVE  /\ SumOver(Claims(after, units, i), Requests) = SumOver(Claims(before, units, i), Requests)
           /\ SumOver(Parcels(after, units, i), Requests)
                = SumOver(Parcels(before, units, i), Requests) + units[q][i]
<1>1. \A p \in Requests : Claims(after, units, i)[p] = Claims(before, units, i)[p]
  BY DEF Writes, Claims, Withdrawn
<1>2. /\ Parcels(after, units, i)[q] = units[q][i] /\ Parcels(before, units, i)[q] = 0
      /\ \A p \in Requests \ {q} : Parcels(after, units, i)[p] = Parcels(before, units, i)[p]
  BY DEF Writes, Parcels, Received
<1>3. \A p \in Requests : Parcels(after, units, i)[p] \in Int /\ Parcels(before, units, i)[p] \in Int
  BY DEF Parcels
<1>4. SumOver(Parcels(after, units, i), Requests) = SumOver(Parcels(before, units, i), Requests)
            + Parcels(after, units, i)[q] - Parcels(before, units, i)[q]
  BY <1>2, <1>3, ReturnsAssumption, SumChanged
<1>5. units[q][i] \in Nat /\ SumOver(Parcels(before, units, i), Requests) \in Nat
  BY ValuesAreNat
<1> QED BY <1>1, <1>2, <1>4, <1>5, ReturnsAssumption, SumSame

\* A new request adds what it asks for.
LEMMA RequestAdded ==
    ASSUME NEW units \in [Requests -> [Items -> Nat]], NEW now \in [Requests -> [Items -> Nat]], NEW i \in Items,
           NEW before, NEW after, NEW q \in Requests, NEW more,
           Writes(before, after, q, "none", "requested"), Writes(units, now, q, NoLines, more)
    PROVE  /\ SumOver(Claims(after, now, i), Requests) = SumOver(Claims(before, units, i), Requests) + more[i]
           /\ SumOver(Parcels(after, now, i), Requests) = SumOver(Parcels(before, units, i), Requests)
<1> DEFINE old == Claims(before, units, i)
           new == Claims(after, now, i)
<1>0. new[q] = more[i] /\ old[q] = 0
  BY DEF Writes, Claims, Withdrawn, NoLines
<1>1. \A p \in Requests \ {q} : new[p] = old[p]
  BY DEF Writes, Claims, Withdrawn, NoLines
<1>2. \A p \in Requests : new[p] \in Int /\ old[p] \in Int
  BY DEF Claims
<1>3. \A p \in Requests : Parcels(after, now, i)[p] = Parcels(before, units, i)[p]
  BY DEF Writes, Parcels, Received
<1>4. more[i] \in Nat /\ SumOver(old, Requests) \in Nat
  BY ValuesAreNat DEF Writes
<1> HIDE DEF old, new
<1>5. SumOver(new, Requests) = SumOver(old, Requests) + new[q] - old[q]
  BY <1>1, <1>2, ReturnsAssumption, SumChanged
<1>6. SumOver(new, Requests) = SumOver(old, Requests) + more[i]
  BY <1>0, <1>4, <1>5
<1>7. SumOver(Parcels(after, now, i), Requests) = SumOver(Parcels(before, units, i), Requests)
  BY <1>3, ReturnsAssumption, SumSame
<1> QED BY <1>6, <1>7 DEF old, new

-----------------------------------------------------------------------------
(* Returns: the steps                                                      *)

LEMMA NoDeskIsDesk == NoDesk \in Desk /\ NoDesk.service = "none" /\ NoLines \in [Items -> Nat]
BY DEF NoDesk, Desk, NoLines

LEMMA ReturnInitInv == Init => ReturnInv
<1> SUFFICES ASSUME Init PROVE ReturnInv
  OBVIOUS
<1>1. [q \in Requests |-> "none"] \in [Requests -> ReturnStatus]
  BY DEF ReturnStatus
<1>2. RefundInv /\ returnStatus = [q \in Requests |-> "none"]
  BY <1>1, RefundInitInv DEF Init, RefundInit
<1>3. /\ lines \in [Requests -> [Items -> Nat]] /\ putBack \in [Items -> Nat]
      /\ shipment \in [Requests -> ShipmentStatus \union {"none"}]
  BY NoDeskIsDesk DEF Init
<1>4. ReturnTypeOK
  <2>1. dropped \subseteq Requests
    BY DEF Init
  <2>2. \A q \in Requests : returnStatus[q] = "none"
    BY <1>2
  <2> QED BY <1>2, <1>3, <2>1, <2>2 DEF ReturnTypeOK, RefundInv
<1>5. desk \in [Clerks -> Desk] /\ \A w \in Clerks : DeskInv(w)
  BY NoDeskIsDesk DEF Init, DeskInv
<1>6. \A w \in Workers : call[w].step = "idle" /\ call[w].request = NoRequest
  BY DEF Init, RefundInit, Idle
<1>7. \A r \in Refunds : row[r].request = NoRequest
  BY DEF Init, RefundInit
<1>8. \A w \in Workers : CallForReturn(w)
  BY <1>6 DEF CallForReturn, At
<1>9. \A q \in Requests : ~MayBeRefunded(q)
  BY <1>6, <1>7, RefundsAssumption DEF MayBeRefunded
<1>10. \A i \in Items : Ordered[i] \in Nat /\ putBack[i] = 0 /\ SumOver(Parcels(returnStatus, lines, i), Requests) \in Nat
  BY <1>3, ValuesAreNat, ReturnsAssumption DEF Init, NoLines
<1>11. ASSUME NEW i \in Items PROVE SumOver(Claims(returnStatus, lines, i), Requests) = 0
  <2>1. \A q \in Requests : Claims(returnStatus, lines, i)[q] = 0
    BY <1>11 DEF Claims, Init, NoLines
  <2> QED BY <2>1, SumOfZeros, ReturnsAssumption
<1>12. InOrder
  BY <1>9, <1>10, <1>11 DEF InOrder
<1>13. \A q \in Requests : lines[q] = NoLines
  BY DEF Init
<1> QED BY <1>2, <1>4, <1>5, <1>8, <1>9, <1>12, <1>13 DEF ReturnInv

\* What a step on the refund side does to returns: it only writes the status of one that it knows, it
\* gets to know one that was received, and it changes the return of no refund.
RefundsKeep ==
    /\ \A q \in Requests : returnStatus'[q] # returnStatus[q] => MayBeRefunded(q) /\ returnStatus'[q] \in Received
    /\ \A q \in Requests : MayBeRefunded(q)' => MayBeRefunded(q) \/ returnStatus[q] \in Received
    /\ stale \subseteq stale'

LEMMA RowsStay ==
    ASSUME RefundInv, RefundInv', [RefundStep]_refundVars
    PROVE  \A r \in Refunds : row[r].status # "none" =>
                /\ row'[r].request = row[r].request
                /\ row[r].status = "failed" => row'[r].status = "failed"
<1> USE DEF RefundInv
<1> SUFFICES ASSUME NEW r \in Refunds, row[r].status # "none"
             PROVE  row'[r].request = row[r].request /\ (row[r].status = "failed" => row'[r].status = "failed")
  OBVIOUS
<1>1. CASE UNCHANGED row
  BY <1>1
<1>2. ASSUME NEW w \in Workers, InsertRefund(w) PROVE UNCHANGED row[r]
  <2>1. call[w].refund \in Refunds /\ row[call[w].refund].status = "none"
    BY <1>2 DEF InsertRefund, CallSound, InsertedByOne
  <2> QED BY <1>2, <2>1 DEF InsertRefund, RefundTypeOK
<1>3. ASSUME NEW w \in Workers, ApplyRefundResult(w)
      PROVE  row'[r].request = row[r].request /\ (row[r].status = "failed" => row'[r].status = "failed")
  <2> DEFINE s == call[w].refund
  <2>1. s \in Refunds /\ call[w].result = gateway[s].state /\ row' = [row EXCEPT ![s].status = call[w].result]
    BY <1>3 DEF ApplyRefundResult, CallSound
  <2>2. row[r].status = "failed" => row[r].status = gateway[r].state
    BY DEF TablesAgree, Result
  <2> QED BY <2>1, <2>2 DEF RefundTypeOK
<1>4. ASSUME NEW w \in Workers, TakeUp(w) PROVE UNCHANGED row
  BY <1>4 DEF TakeUp, refund_view, store_dashboard_refund_payment, initiate_return_refund, Begin,
              TakeNotice, BeginReconcile
<1>5. ASSUME NEW w \in Workers, AskGateway(w) \/ OrderRefunded(w) \/ ReturnRefunded(w) \/ Finish(w)
                                \/ Reconcile(w) \/ CallLost(w)
      PROVE  UNCHANGED row
  BY <1>5 DEF AskGateway, OrderRefunded, ReturnRefunded, Finish, Reconcile, CallLost
<1>6. ASSUME NEW s \in Refunds, GatewaySettles(s) PROVE UNCHANGED row
  BY <1>6 DEF GatewaySettles
<1> QED BY <1>1, <1>2, <1>3, <1>4, <1>5, <1>6 DEF RefundStep, Proceed, refundVars

\* The calls that a step leaves alone know of their returns what they knew.
LEMMA OtherCallsForReturn ==
    ASSUME RefundInv, RefundInv', [RefundStep]_refundVars, NEW w \in Workers, call'[w] = call[w], CallForReturn(w)
    PROVE  CallForReturn(w)'
<1>1. At(w, "apply") => call[w].refund \in Refunds /\ row[call[w].refund].status # "none"
  BY DEF RefundInv, CallSound
<1> QED BY <1>1, RowsStay DEF CallForReturn, At

\* A step of one call: only its return, or one that the call knows, is written; it knows one that was
\* received, or has a refund.
LEMMA OneCallKeeps ==
    ASSUME ReturnInv, RefundInv', [RefundStep]_refundVars, NEW w \in Workers,
           \A v \in Workers \ {w} : call'[v] = call[v],
           \A q \in Requests : returnStatus'[q] # returnStatus[q] => q = call[w].request /\ returnStatus'[q] \in Received,
           call'[w].request \in Requests =>
                MayBeRefunded(call'[w].request) \/ returnStatus[call'[w].request] \in Received,
           \A r \in Refunds : row'[r].request \in {row[r].request, call[w].request},
           stale \subseteq stale', CallForReturn(w)'
    PROVE  RefundsKeep /\ \A v \in Workers : CallForReturn(v)'
<1>1. \A v \in Workers : CallForReturn(v)'
  BY OtherCallsForReturn DEF ReturnInv
<1>2. ASSUME NEW q \in Requests, MayBeRefunded(q)' PROVE MayBeRefunded(q) \/ returnStatus[q] \in Received
  <2>1. CASE \E v \in Workers : call'[v].request = q
    BY <2>1 DEF MayBeRefunded
  <2>2. CASE \E r \in Refunds : row'[r].request = q
    BY <2>2 DEF MayBeRefunded
  <2> QED BY <1>2, <2>1, <2>2 DEF MayBeRefunded
<1>3. \A q \in Requests : returnStatus'[q] # returnStatus[q] => MayBeRefunded(q) /\ returnStatus'[q] \in Received
  BY DEF MayBeRefunded
<1> QED BY <1>1, <1>2, <1>3 DEF RefundsKeep

LEMMA BeginKeeps ==
    ASSUME ReturnInv, RefundInv', [RefundStep]_refundVars, NEW w \in Workers, NEW q \in Requests \union {NoRequest},
           NEW amount \in Amounts, NEW source \in {"staff", "return"}, Begin(w, source, q, amount),
           q \in Requests => returnStatus[q] \in Received
    PROVE  RefundsKeep /\ \A v \in Workers : CallForReturn(v)'
<1> USE DEF ReturnInv, RefundInv
<1> DEFINE c == [Idle EXCEPT !.step = "ask", !.source = source, !.request = q, !.amount = amount, !.copy = payment]
<1>1. c.step = "ask" /\ c.request = q
  BY DEF Idle
<1>2. call' = [call EXCEPT ![w] = c] /\ UNCHANGED <<row, returnStatus, stale>>
  BY DEF Begin
<1> HIDE DEF c
<1>3. call'[w] = c /\ \A v \in Workers \ {w} : call'[v] = call[v]
  BY <1>2 DEF RefundTypeOK
<1>4. CallForReturn(w)'
  BY <1>1, <1>3 DEF CallForReturn, At
<1> QED BY <1>1, <1>2, <1>3, <1>4, OneCallKeeps

\* A call that ends, or goes where nothing is asked of it.
LEMMA CalmKeeps ==
    ASSUME ReturnInv, RefundInv', [RefundStep]_refundVars, NEW w \in Workers,
           \/ Hang(w) \/ GoTo(w, "finish") \/ (GoTo(w, "return") /\ call[w].result = "processed"),
           \A q \in Requests : returnStatus'[q] # returnStatus[q] => q = call[w].request /\ returnStatus'[q] \in Received,
           \A r \in Refunds : row'[r].request \in {row[r].request, call[w].request},
           stale \subseteq stale'
    PROVE  RefundsKeep /\ \A v \in Workers : CallForReturn(v)'
<1> USE DEF ReturnInv, RefundInv
<1>1. call[w] \in Call
  BY DEF RefundTypeOK, Call
<1>2. /\ \A v \in Workers \ {w} : call'[v] = call[v]
      /\ call'[w].step \in {"idle", "finish", "return"} /\ call'[w].request \in {call[w].request, NoRequest}
      /\ call'[w].step = "return" => call'[w].result = "processed"
  BY <1>1 DEF Hang, GoTo, Idle, RefundTypeOK, Call
<1>3. CallForReturn(w)'
  BY <1>2 DEF CallForReturn, At
<1>4. call'[w].request \in Requests => MayBeRefunded(call'[w].request)
  BY <1>2, RefundsAssumption DEF MayBeRefunded
<1> QED BY <1>2, <1>3, <1>4, OneCallKeeps

LEMMA AskGatewayKeeps ==
    ASSUME ReturnInv, RefundInv', [RefundStep]_refundVars, NEW w \in Workers, AskGateway(w)
    PROVE  RefundsKeep /\ \A v \in Workers : CallForReturn(v)'
<1> USE DEF ReturnInv, RefundInv
<1>1. UNCHANGED <<row, returnStatus, stale>>
  BY DEF AskGateway
<1>2. CASE Hang(w)
  BY <1>1, <1>2, CalmKeeps
<1>3. CASE \E state \in Result \union {"pending"} :
            call' = [call EXCEPT ![w].step = "insert", ![w].amount = 0, ![w].refund = NewRefund, ![w].result = state]
  <2>1. call[w] \in Call
    BY DEF RefundTypeOK, Call
  <2>2. /\ \A v \in Workers \ {w} : call'[v] = call[v]
        /\ call'[w].step = "insert" /\ call'[w].request = call[w].request
    BY <1>3, <2>1 DEF RefundTypeOK, Call
  <2>3. CallForReturn(w)'
    BY <2>2 DEF CallForReturn, At
  <2>4. call'[w].request \in Requests => MayBeRefunded(call'[w].request)
    BY <2>2 DEF MayBeRefunded
  <2> QED BY <1>1, <2>2, <2>3, <2>4, OneCallKeeps
<1> QED BY <1>2, <1>3 DEF AskGateway

LEMMA InsertRefundKeeps ==
    ASSUME ReturnInv, RefundInv', [RefundStep]_refundVars, NEW w \in Workers, InsertRefund(w)
    PROVE  RefundsKeep /\ \A v \in Workers : CallForReturn(v)'
<1> USE DEF ReturnInv, RefundInv
<1>1. UNCHANGED <<returnStatus, stale>>
  BY DEF InsertRefund
<1>2. call[w] \in Call /\ call[w].refund \in Refunds
  BY DEF InsertRefund, CallSound, RefundTypeOK, Call
<1>3. /\ row'[call[w].refund].request = call[w].request
      /\ \A r \in Refunds : row'[r].request \in {row[r].request, call[w].request}
  BY <1>2 DEF InsertRefund, RefundTypeOK
<1>4. CASE GoTo(w, "apply")
  <2>1. /\ \A v \in Workers \ {w} : call'[v] = call[v]
        /\ call'[w].step = "apply" /\ call'[w].request = call[w].request /\ call'[w].refund = call[w].refund
    BY <1>2, <1>4 DEF GoTo, RefundTypeOK, Call
  <2>2. CallForReturn(w)'
    BY <1>3, <2>1 DEF CallForReturn, At
  <2>3. call'[w].request \in Requests => MayBeRefunded(call'[w].request)
    BY <2>1 DEF MayBeRefunded
  <2> QED BY <1>1, <1>3, <2>1, <2>2, <2>3, OneCallKeeps
<1>5. CASE Leave(w)
  BY <1>1, <1>3, <1>5, LeaveCalmsDown, CalmKeeps
<1> QED BY <1>4, <1>5 DEF InsertRefund

LEMMA ApplyRefundResultKeeps ==
    ASSUME ReturnInv, RefundInv', [RefundStep]_refundVars, NEW w \in Workers, ApplyRefundResult(w)
    PROVE  RefundsKeep /\ \A v \in Workers : CallForReturn(v)'
<1> USE DEF ReturnInv, RefundInv
<1> DEFINE r == call[w].refund
<1>1. UNCHANGED returnStatus /\ stale \subseteq stale'
  BY DEF ApplyRefundResult, SavePayment
<1>2. /\ call[w] \in Call /\ r \in Refunds /\ call[w].result \in Result
      /\ row[r].request = call[w].request /\ At(w, "apply")
  BY DEF ApplyRefundResult, CallSound, RefundTypeOK, Call, CallForReturn
<1>3. row'[r].status = call[w].result /\ \A s \in Refunds : row'[s].request = row[s].request
  BY <1>2 DEF ApplyRefundResult, RefundTypeOK
<1>4. /\ \A v \in Workers \ {w} : call'[v] = call[v]
      /\ call'[w].request = call[w].request /\ call'[w].result = call[w].result
      /\ call'[w].step = IF call[w].result = "processed" THEN "order" ELSE "return"
  BY <1>2 DEF ApplyRefundResult, GoTo, RefundTypeOK, Call
<1> HIDE DEF r
<1>5. CallForReturn(w)'
  BY <1>2, <1>3, <1>4 DEF CallForReturn, At, Result
<1>6. call'[w].request \in Requests => MayBeRefunded(call'[w].request)
  BY <1>4 DEF MayBeRefunded
<1> QED BY <1>1, <1>3, <1>4, <1>5, <1>6, OneCallKeeps

LEMMA TakeNoticeKeeps ==
    ASSUME ReturnInv, RefundInv', [RefundStep]_refundVars, NEW w \in Workers, NEW r \in Refunds, TakeNotice(w, r)
    PROVE  RefundsKeep /\ \A v \in Workers : CallForReturn(v)'
<1> USE DEF ReturnInv, RefundInv
<1> DEFINE c == [Idle EXCEPT !.step = "apply", !.source = "webhook", !.request = row[r].request,
                             !.refund = r, !.result = gateway[r].state, !.copy = payment]
<1>1. c.step = "apply" /\ c.refund = r /\ c.request = row[r].request
  BY DEF Idle
<1>2. UNCHANGED <<row, returnStatus, stale>> /\ (call' = [call EXCEPT ![w] = c] \/ UNCHANGED call)
  BY DEF TakeNotice
<1> HIDE DEF c
<1>3. (\A v \in Workers \ {w} : call'[v] = call[v]) /\ call'[w] \in {c, call[w]}
  BY <1>2 DEF RefundTypeOK
<1>4. CallForReturn(w)'
  BY <1>1, <1>2, <1>3 DEF CallForReturn, At
<1>5. call'[w].request \in Requests => MayBeRefunded(call'[w].request)
  BY <1>1, <1>3 DEF MayBeRefunded
<1> QED BY <1>2, <1>3, <1>4, <1>5, OneCallKeeps

LEMMA BeginReconcileKeeps ==
    ASSUME ReturnInv, RefundInv', [RefundStep]_refundVars, NEW w \in Workers, BeginReconcile(w)
    PROVE  RefundsKeep /\ \A v \in Workers : CallForReturn(v)'
<1> USE DEF ReturnInv, RefundInv
<1>1. /\ UNCHANGED <<row, returnStatus, stale>> /\ call'[w].step = "reconcile" /\ call'[w].request = NoRequest
      /\ \A v \in Workers \ {w} : call'[v] = call[v]
  BY DEF BeginReconcile, Idle, RefundTypeOK
<1>2. CallForReturn(w)'
  BY <1>1 DEF CallForReturn, At
<1> QED BY <1>1, <1>2, OneCallKeeps, RefundsAssumption

LEMMA RefundStepKeeps ==
    ASSUME ReturnInv, RefundInv', [RefundStep]_refundVars
    PROVE  RefundsKeep /\ \A w \in Workers : CallForReturn(w)'
<1>1. CASE UNCHANGED <<call, row, returnStatus, stale>>
  BY <1>1, OtherCallsForReturn DEF ReturnInv, RefundsKeep, MayBeRefunded
<1>2. ASSUME NEW w \in Workers, TakeUp(w) PROVE RefundsKeep /\ \A v \in Workers : CallForReturn(v)'
  BY <1>2, BeginKeeps, TakeNoticeKeeps, BeginReconcileKeeps, RefundsAssumption
     DEF TakeUp, refund_view, store_dashboard_refund_payment, initiate_return_refund, Received
<1>3. ASSUME NEW w \in Workers, OrderRefunded(w) PROVE RefundsKeep /\ \A v \in Workers : CallForReturn(v)'
  BY <1>3, CalmKeeps DEF OrderRefunded, ReturnInv, CallForReturn
<1>4. ASSUME NEW w \in Workers, ReturnRefunded(w) PROVE RefundsKeep /\ \A v \in Workers : CallForReturn(v)'
  BY <1>4, CalmKeeps, LeaveCalmsDown DEF ReturnRefunded, ReturnInv, RefundInv, RefundTypeOK, Received
<1>5. ASSUME NEW w \in Workers, Finish(w) PROVE RefundsKeep /\ \A v \in Workers : CallForReturn(v)'
  BY <1>5, CalmKeeps DEF Finish, ReturnInv, RefundInv, RefundTypeOK, Received
<1>6. ASSUME NEW w \in Workers, Reconcile(w) PROVE RefundsKeep /\ \A v \in Workers : CallForReturn(v)'
  BY <1>6, CalmKeeps DEF Reconcile, SavePayment
<1>7. ASSUME NEW w \in Workers, CallLost(w) PROVE RefundsKeep /\ \A v \in Workers : CallForReturn(v)'
  BY <1>7, CalmKeeps DEF CallLost
<1>8. ASSUME NEW r \in Refunds, GatewaySettles(r) PROVE UNCHANGED <<call, row, returnStatus, stale>>
  BY <1>8 DEF GatewaySettles
<1> QED BY <1>1, <1>2, <1>3, <1>4, <1>5, <1>6, <1>7, <1>8, AskGatewayKeeps, InsertRefundKeeps, ApplyRefundResultKeeps
        DEF RefundStep, Proceed, refundVars

\* The refund side keeps returns as they have to be.
LEMMA RefundStepReturns ==
    ASSUME ReturnInv, RefundStep, UNCHANGED returnVars
    PROVE  ReturnInv'
<1> USE DEF returnVars
<1>1. RefundInv' /\ [RefundStep]_refundVars
  BY RefundStepInv DEF ReturnInv
<1>2. RefundsKeep /\ \A w \in Workers : CallForReturn(w)'
  BY <1>1, RefundStepKeeps
<1>3. \A q \in Requests : returnStatus[q] \in Received \/ MayBeRefunded(q) => ShipmentAccountedFor(q)
  BY DEF ReturnInv, ReturnTypeOK, Received
<1>0. \A q \in Requests : ShipmentAccountedFor(q)' <=> ShipmentAccountedFor(q)
  BY DEF ShipmentAccountedFor
<1>4. ReturnTypeOK'
  BY <1>0, <1>1, <1>2, <1>3 DEF ReturnInv, ReturnTypeOK, RefundInv, RefundsKeep
<1>5. \A q \in Requests : returnStatus'[q] = "none" => lines'[q] = NoLines
  BY <1>2 DEF ReturnInv, RefundsKeep, Received
<1>6. \A w \in Clerks : DeskInv(w)'
  BY DEF ReturnInv, DeskInv, ShipmentAccountedFor
<1>7. \A q \in Requests : MayBeRefunded(q)' => ShipmentAccountedFor(q)'
  BY <1>0, <1>2, <1>3 DEF RefundsKeep
<1>8. ASSUME NotOvertaken' PROVE InOrder'
  <2>1. NotOvertaken /\ InOrder
    BY <1>2, <1>8 DEF NotOvertaken, RefundsKeep, ReturnInv
  <2>2. \A q \in Requests : /\ returnStatus[q] \in Withdrawn => returnStatus'[q] \in Withdrawn
                            /\ returnStatus[q] \in Received <=> returnStatus'[q] \in Received
    BY <1>2, <2>1 DEF RefundsKeep, InOrder, Withdrawn, Received
  <2>3. \A q \in Requests : MayBeRefunded(q)' => returnStatus'[q] \in Received
    BY <1>2, <2>1, <2>2 DEF RefundsKeep, InOrder
  <2>4. ASSUME NEW i \in Items
        PROVE  /\ SumOver(Claims(returnStatus', lines, i), Requests) <= Ordered[i]
               /\ putBack[i] <= SumOver(Parcels(returnStatus', lines, i), Requests)
    <3>1. lines \in [Requests -> [Items -> Nat]]
      BY DEF ReturnInv, ReturnTypeOK
    <3>2. /\ SumOver(Claims(returnStatus', lines, i), Requests) <= SumOver(Claims(returnStatus, lines, i), Requests)
          /\ SumOver(Parcels(returnStatus', lines, i), Requests) = SumOver(Parcels(returnStatus, lines, i), Requests)
      BY <2>2, <3>1, SumsKept
    <3>3. /\ SumOver(Claims(returnStatus, lines, i), Requests) \in Nat
          /\ SumOver(Claims(returnStatus', lines, i), Requests) \in Nat /\ Ordered[i] \in Nat
      BY <3>1, ValuesAreNat, ReturnsAssumption
    <3> QED BY <2>1, <3>2, <3>3 DEF InOrder
  <2> QED BY <2>3, <2>4 DEF InOrder
<1> QED BY <1>1, <1>2, <1>4, <1>5, <1>6, <1>7, <1>8 DEF ReturnInv

\* A step of the services leaves the refunds alone.
LEMMA ServicesKeepRefunds ==
    ASSUME ReturnInv, UNCHANGED <<payment, gateway, row, notice, order, call, lost, overlap>>,
           returnStatus' \in [Requests -> ReturnStatus], stale' \subseteq stale \union {"claims", "status"}
    PROVE  /\ RefundInv' /\ \A w \in Workers : CallForReturn(w)'
           /\ \A q \in Requests : MayBeRefunded(q)' <=> MayBeRefunded(q)
<1> USE DEF ReturnInv, RefundInv
<1>1. Later /\ TablesAgree'
  BY SameTables
<1>2. RefundTypeOK'
  BY DEF RefundTypeOK
<1>3. \A w \in Workers : CallSound(w)'
  BY <1>1, OthersStaySound
<1>4. InsertedByOne'
  BY DEF InsertedByOne, At
<1> QED BY <1>1, <1>2, <1>3, <1>4 DEF CallForReturn, MayBeRefunded, At

LEMMA SitInv ==
    ASSUME ReturnInv, NEW w \in Clerks, NEW entry \in Desk, Sit(w, entry),
           entry.service \notin {"none", "request"} => entry.request \in Requests,
           entry.service \in {"approve", "reject", "cancel"} => entry.seen = "requested",
           entry.service = "receive" => entry.seen = "approved" /\ ShipmentAccountedFor(entry.request),
           entry.service = "request" => \A i \in Items : entry.seen[i] \in Int /\ entry.lines[i] + entry.seen[i] <= Ordered[i]
    PROVE  ReturnInv'
<1>1. UNCHANGED <<refundVars, lines, shipment, putBack, dropped>>
  BY DEF Sit
<1>2. RefundInv' /\ (\A v \in Workers : CallForReturn(v)') /\ \A q \in Requests : MayBeRefunded(q)' <=> MayBeRefunded(q)
  BY <1>1, ServicesKeepRefunds DEF refundVars, ReturnInv, RefundInv, RefundTypeOK
<1>3. /\ desk' \in [Clerks -> Desk] /\ desk'[w] = entry
      /\ \A v \in Clerks \ {w} : desk'[v] = desk[v]
  BY DEF Sit, ReturnInv
<1>0. \A q \in Requests : ShipmentAccountedFor(q) => ShipmentAccountedFor(q)'
  BY <1>1, <1>3 DEF ShipmentAccountedFor, Sit, AtDesk
<1>4. \A v \in Clerks : DeskInv(v)'
  <2>1. DeskInv(w)'
    BY <1>0, <1>1, <1>3 DEF DeskInv
  <2>2. ASSUME NEW v \in Clerks \ {w} PROVE DeskInv(v)'
    <3>1. DeskInv(v) /\ desk'[v] = desk[v] /\ desk[v] \in Desk
      BY <1>3, <2>2 DEF ReturnInv
    <3>2. desk[v].service = "receive" => desk[v].request \in Requests
      BY <3>1 DEF DeskInv
    <3> QED BY <1>0, <1>1, <3>1, <3>2 DEF DeskInv
  <2> QED BY <2>1, <2>2
<1>5. ReturnTypeOK'
  BY <1>0, <1>1, <1>2 DEF ReturnInv, ReturnTypeOK, RefundInv, refundVars
<1>6. InOrder => InOrder'
  BY <1>1, <1>2 DEF InOrder, refundVars
<1> QED BY <1>0, <1>1, <1>2, <1>3, <1>4, <1>5, <1>6 DEF ReturnInv, NotOvertaken, refundVars

LEMMA CheckInv ==
    ASSUME ReturnInv, NEW w \in Clerks, Check(w)
    PROVE  ReturnInv'
<1>1. /\ returnStatus \in [Requests -> ReturnStatus] /\ lines \in [Requests -> [Items -> Nat]]
      /\ \A q \in Requests : returnStatus[q] = "approved" => ShipmentAccountedFor(q)
  BY DEF ReturnInv, RefundInv, RefundTypeOK, ReturnTypeOK
<1>2. CASE CheckRequest(w)
  <2>1. PICK l \in LinesAsked : /\ \A i \in Items : l[i] <= Remaining(i)
                                /\ Sit(w, [NoDesk EXCEPT !.service = "request", !.lines = l, !.seen = Claimed])
    BY <1>2 DEF CheckRequest
  <2>2. \A i \in Items : Claimed[i] \in Nat
    BY <1>1, ClaimedIsSum, ValuesAreNat
  <2>3. Claimed \in [Items -> Int]
    <3>1. Claimed = [i \in Items |-> Claimed[i]]
      BY DEF Claimed
    <3> QED BY <2>2, <3>1
  <2>4. l \in [Items -> Nat]
    BY ReturnsAssumption DEF LinesAsked
  <2>5. \A i \in Items : l[i] + Claimed[i] <= Ordered[i]
    <3> TAKE i \in Items
    <3>1. l[i] \in Nat /\ Claimed[i] \in Nat /\ Ordered[i] \in Nat /\ l[i] <= Ordered[i] - Claimed[i]
      BY <2>1, <2>2, <2>4, ReturnsAssumption DEF Remaining
    <3> QED BY ONLY <3>1
  <2> DEFINE entry == [NoDesk EXCEPT !.service = "request", !.lines = l, !.seen = Claimed]
  <2>6. entry \in Desk /\ entry.service = "request" /\ entry.lines = l /\ entry.seen = Claimed
    BY <2>3, <2>4 DEF NoDesk, Desk
  <2> HIDE DEF entry
  <2>7. Sit(w, entry)
    BY <2>1 DEF entry
  <2>8. \A i \in Items : entry.seen[i] \in Int /\ entry.lines[i] + entry.seen[i] <= Ordered[i]
    BY <2>2, <2>5, <2>6
  <2> QED BY <2>6, <2>7, <2>8, SitInv
<1>3. ASSUME NEW service \in {"approve", "reject", "receive", "cancel"}, Opened(w, service) PROVE ReturnInv'
  <2>1. PICK q \in Requests : /\ returnStatus[q] \in MustBe(service)
                              /\ Sit(w, [NoDesk EXCEPT !.service = service, !.request = q, !.seen = returnStatus[q]])
    BY <1>3 DEF Opened
  <2> DEFINE entry == [NoDesk EXCEPT !.service = service, !.request = q, !.seen = returnStatus[q]]
  <2>2. /\ entry \in Desk /\ entry.service = service /\ entry.request = q /\ entry.seen = returnStatus[q]
    BY <1>1, NoDeskIsDesk DEF NoDesk, Desk
  <2> HIDE DEF entry
  <2>3. Sit(w, entry)
    BY <2>1 DEF entry
  <2> QED BY <1>1, <2>1, <2>2, <2>3, SitInv DEF MustBe
<1> QED BY <1>2, <1>3 DEF Check, CheckStatus, CheckReceive, CheckCancel

\* A service writes one status; the claims and the parcels stay as they have to.
LEMMA SetStatusInv ==
    ASSUME ReturnInv, NEW w \in Clerks, NEW new \in {"approved", "rejected", "cancelled", "received"},
           SetStatus(w, new),
           desk' = [desk EXCEPT ![w] = IF new = "approved" THEN [@ EXCEPT !.service = "ship"] ELSE NoDesk],
           UNCHANGED <<payment, gateway, row, notice, order, call, lost, overlap, lines, dropped>>,
           desk[w].service \notin {"none", "request", "ship"},
           new = "received" <=> desk[w].service = "receive",
           shipment' \in [Requests -> ShipmentStatus \union {"none"}],
           \A q \in Requests : shipment[q] # "none" => shipment'[q] # "none",
           putBack' \in [Items -> Nat],
           \A i \in Items : putBack'[i] <= putBack[i] + IF new = "received" THEN lines[desk[w].request][i] ELSE 0
    PROVE  ReturnInv'
<1>1. PICK q \in Requests :
      /\ q = desk[w].request /\ returnStatus' = [returnStatus EXCEPT ![q] = new]
      /\ desk[w].seen = IF new = "received" THEN "approved" ELSE "requested"
      /\ new = "received" => ShipmentAccountedFor(q)
  BY DEF SetStatus, ReturnInv, DeskInv, Desk
<1>2. stale' = IF returnStatus[q] = desk[w].seen THEN stale ELSE stale \union {"status"}
  BY <1>1 DEF SetStatus, Overtaken
<1>3. /\ returnStatus \in [Requests -> ReturnStatus] /\ lines \in [Requests -> [Items -> Nat]]
      /\ returnStatus' \in [Requests -> ReturnStatus] /\ putBack \in [Items -> Nat]
  BY <1>1 DEF ReturnInv, ReturnTypeOK, RefundInv, RefundTypeOK, ReturnStatus
<1>4. /\ RefundInv' /\ (\A v \in Workers : CallForReturn(v)')
      /\ \A p \in Requests : MayBeRefunded(p)' <=> MayBeRefunded(p)
  BY <1>2, <1>3, ServicesKeepRefunds
<1> DEFINE next == IF new = "approved" THEN [desk[w] EXCEPT !.service = "ship"] ELSE NoDesk
<1>10. /\ desk' \in [Clerks -> Desk] /\ desk'[w] = next /\ next \in Desk
       /\ \A v \in Clerks \ {w} : desk'[v] = desk[v]
  <2>1. next \in Desk
    BY NoDeskIsDesk DEF ReturnInv, Desk
  <2> QED BY <2>1 DEF ReturnInv
<1>11. /\ next.service \in {"none", "ship"}
       /\ next.service = "ship" => next.request = q
       /\ new = "approved" => next.service = "ship" /\ next.request = q
  BY <1>1, NoDeskIsDesk DEF ReturnInv, Desk
<1> HIDE DEF next
<1>5. /\ returnStatus'[q] = new /\ \A p \in Requests \ {q} : returnStatus'[p] = returnStatus[p]
  BY <1>1, <1>3
<1>12. /\ \A p \in Requests : ShipmentAccountedFor(p) => ShipmentAccountedFor(p)'
       /\ new = "approved" => ShipmentAccountedFor(q)'
  <2>1. ASSUME NEW p \in Requests, ShipmentAccountedFor(p) PROVE ShipmentAccountedFor(p)'
    <3>1. CASE shipment[p] # "none" \/ p \in dropped
      BY <3>1 DEF ShipmentAccountedFor
    <3>2. ASSUME NEW v \in Clerks, desk[v].service = "ship", desk[v].request = p PROVE ShipmentAccountedFor(p)'
      <4>1. v # w
        BY <3>2
      <4> QED BY <1>10, <3>2, <4>1 DEF ShipmentAccountedFor
    <3> QED BY <2>1, <3>1, <3>2 DEF ShipmentAccountedFor
  <2>2. ASSUME new = "approved" PROVE ShipmentAccountedFor(q)'
    <3>1. desk'[w].service = "ship" /\ desk'[w].request = q
      BY <1>10, <1>11, <2>2
    <3> QED BY <3>1 DEF ShipmentAccountedFor
  <2> QED BY <2>1, <2>2
<1>6. \A v \in Clerks : DeskInv(v)'
  <2>1. DeskInv(w)'
    BY <1>1, <1>10, <1>11 DEF DeskInv
  <2>2. ASSUME NEW v \in Clerks \ {w} PROVE DeskInv(v)'
    BY <1>10, <1>12, <2>2 DEF DeskInv, ReturnInv
  <2> QED BY <2>1, <2>2
<1>7. ReturnTypeOK'
  <2>1. RefundTypeOK' /\ lines' \in [Requests -> [Items -> Nat]] /\ dropped' \subseteq Requests
    BY <1>3, <1>4 DEF ReturnInv, ReturnTypeOK, RefundInv
  <2>2. ASSUME NEW p \in Requests, returnStatus'[p] \in {"approved", "received", "refund_initiated", "refunded"}
        PROVE  ShipmentAccountedFor(p)'
    <3>1. CASE p = q
      <4>1. new \in {"approved", "received"}
        BY <1>5, <2>2, <3>1
      <4>2. ShipmentAccountedFor(q)'
        BY <1>1, <1>12, <4>1
      <4> QED BY <3>1, <4>2
    <3>2. CASE p # q
      <4>1. returnStatus[p] \in {"approved", "received", "refund_initiated", "refunded"}
        BY <1>5, <2>2, <3>2
      <4> QED BY <1>12, <4>1 DEF ReturnInv, ReturnTypeOK
    <3> QED BY <3>1, <3>2
  <2> QED BY <2>1, <2>2 DEF ReturnTypeOK
<1>8. (\A p \in Requests : returnStatus'[p] = "none" => lines'[p] = NoLines)
      /\ \A p \in Requests : MayBeRefunded(p)' => ShipmentAccountedFor(p)'
  BY <1>3, <1>4, <1>5, <1>12 DEF ReturnInv
<1>9. ASSUME NotOvertaken' PROVE InOrder'
  <2>1. NotOvertaken /\ InOrder /\ returnStatus[q] = IF new = "received" THEN "approved" ELSE "requested"
    BY <1>1, <1>2, <1>9 DEF NotOvertaken, ReturnInv
  <2>2. \A p \in Requests : MayBeRefunded(p)' => returnStatus'[p] \in Received
    BY <1>1, <1>4, <1>5, <2>1 DEF InOrder, Received
  <2>3. ASSUME NEW i \in Items
        PROVE  /\ SumOver(Claims(returnStatus', lines, i), Requests) <= Ordered[i]
               /\ putBack'[i] <= SumOver(Parcels(returnStatus', lines, i), Requests)
    <3>1. /\ SumOver(Claims(returnStatus, lines, i), Requests) \in Nat /\ Ordered[i] \in Nat
          /\ SumOver(Claims(returnStatus', lines, i), Requests) \in Nat
          /\ SumOver(Parcels(returnStatus, lines, i), Requests) \in Nat
          /\ lines[q][i] \in Nat /\ putBack[i] \in Nat /\ putBack'[i] \in Nat
      <4>1. lines[q] \in [Items -> Nat] /\ putBack' \in [Items -> Nat]
        BY <1>1, <1>3
      <4>2. lines[q][i] \in Nat /\ putBack[i] \in Nat /\ putBack'[i] \in Nat /\ Ordered[i] \in Nat
        BY <1>3, <4>1, ReturnsAssumption
      <4> QED BY <1>3, <4>2, ValuesAreNat
    <3>2. /\ SumOver(Claims(returnStatus, lines, i), Requests) <= Ordered[i]
          /\ putBack[i] <= SumOver(Parcels(returnStatus, lines, i), Requests)
      BY <2>1 DEF InOrder
    <3>3. CASE new = "received"
      <4>1. /\ SumOver(Claims(returnStatus', lines, i), Requests) = SumOver(Claims(returnStatus, lines, i), Requests)
            /\ SumOver(Parcels(returnStatus', lines, i), Requests)
                    = SumOver(Parcels(returnStatus, lines, i), Requests) + lines[q][i]
        <5>1. Writes(returnStatus, returnStatus', q, "approved", "received")
          BY <1>1, <1>5, <2>1, <3>3 DEF Writes
        <5> QED BY <1>1, <1>3, <5>1, ParcelReceived
      <4>2. putBack'[i] <= putBack[i] + lines[q][i]
        BY <1>1, <3>3
      <4> QED BY ONLY <3>1, <3>2, <4>1, <4>2
    <3>4. CASE new # "received"
      <4>1. \A p \in Requests : /\ returnStatus[p] \in Withdrawn => returnStatus'[p] \in Withdrawn
                                /\ returnStatus[p] \in Received <=> returnStatus'[p] \in Received
        BY <1>5, <2>1, <3>4 DEF Withdrawn, Received
      <4>2. /\ SumOver(Claims(returnStatus', lines, i), Requests) <= SumOver(Claims(returnStatus, lines, i), Requests)
            /\ SumOver(Parcels(returnStatus', lines, i), Requests) = SumOver(Parcels(returnStatus, lines, i), Requests)
        BY <1>3, <4>1, SumsKept
      <4>3. putBack'[i] <= putBack[i]
        BY <3>1, <3>4
      <4> QED BY ONLY <3>1, <3>2, <4>2, <4>3
    <3> QED BY <3>3, <3>4
  <2> QED BY <2>2, <2>3 DEF InOrder
<1> QED BY <1>4, <1>6, <1>7, <1>8, <1>9, <1>10 DEF ReturnInv

LEMMA RequestReturnInv ==
    ASSUME ReturnInv, NEW w \in Clerks, request_return(w),
           UNCHANGED <<payment, gateway, row, notice, order, call, lost, overlap, dropped>>
    PROVE  ReturnInv'
<1> DEFINE l == desk[w].lines
<1>1. PICK q \in Requests : /\ returnStatus[q] = "none"
                            /\ returnStatus' = [returnStatus EXCEPT ![q] = "requested"]
                            /\ lines' = [lines EXCEPT ![q] = l]
  BY DEF request_return
<1>2. /\ UNCHANGED <<shipment, putBack>> /\ desk' = [desk EXCEPT ![w] = NoDesk]
      /\ stale' = IF Claimed = desk[w].seen THEN stale ELSE stale \union {"claims"}
  BY DEF request_return, Overtaken, LeaveDesk
<1>3. /\ returnStatus \in [Requests -> ReturnStatus] /\ lines \in [Requests -> [Items -> Nat]]
      /\ l \in [Items -> Nat] /\ lines[q] = NoLines /\ putBack \in [Items -> Nat]
  BY <1>1 DEF ReturnInv, ReturnTypeOK, RefundInv, RefundTypeOK, Desk
<1>4. returnStatus' \in [Requests -> ReturnStatus] /\ lines' \in [Requests -> [Items -> Nat]]
  BY <1>1, <1>3 DEF ReturnStatus
<1>5. /\ RefundInv' /\ (\A v \in Workers : CallForReturn(v)')
      /\ \A p \in Requests : MayBeRefunded(p)' <=> MayBeRefunded(p)
  BY <1>2, <1>4, ServicesKeepRefunds
<1> HIDE DEF l
<1>6. /\ returnStatus'[q] = "requested" /\ lines'[q] = l
      /\ \A p \in Requests \ {q} : returnStatus'[p] = returnStatus[p] /\ lines'[p] = lines[p]
  BY <1>1, <1>3
<1>0. desk[w].service = "request"
  BY DEF request_return
<1>11. \A p \in Requests : ShipmentAccountedFor(p) => ShipmentAccountedFor(p)'
  BY <1>0, <1>2 DEF ShipmentAccountedFor, ReturnInv
<1>7. desk' \in [Clerks -> Desk] /\ \A v \in Clerks : DeskInv(v)'
  BY <1>2, <1>11, NoDeskIsDesk DEF ReturnInv, DeskInv
<1>8. ReturnTypeOK'
  BY <1>2, <1>3, <1>4, <1>5, <1>6, <1>11 DEF ReturnInv, ReturnTypeOK, RefundInv
<1>9. (\A p \in Requests : returnStatus'[p] = "none" => lines'[p] = NoLines)
      /\ \A p \in Requests : MayBeRefunded(p)' => ShipmentAccountedFor(p)'
  BY <1>2, <1>5, <1>6, <1>11 DEF ReturnInv
<1>10. ASSUME NotOvertaken' PROVE InOrder'
  <2>1. NotOvertaken /\ InOrder /\ Claimed = desk[w].seen
    BY <1>2, <1>10 DEF NotOvertaken, ReturnInv
  <2>2. \A p \in Requests : MayBeRefunded(p)' => returnStatus'[p] \in Received
    BY <1>1, <1>5, <1>6, <2>1 DEF InOrder, Received
  <2>3. ASSUME NEW i \in Items
        PROVE  /\ SumOver(Claims(returnStatus', lines', i), Requests) <= Ordered[i]
               /\ putBack'[i] <= SumOver(Parcels(returnStatus', lines', i), Requests)
    <3>1. /\ SumOver(Claims(returnStatus', lines', i), Requests)
                = SumOver(Claims(returnStatus, lines, i), Requests) + l[i]
          /\ SumOver(Parcels(returnStatus', lines', i), Requests) = SumOver(Parcels(returnStatus, lines, i), Requests)
      <4>1. Writes(returnStatus, returnStatus', q, "none", "requested") /\ Writes(lines, lines', q, NoLines, l)
        BY <1>1, <1>3, <1>6 DEF Writes
      <4>2. lines \in [Requests -> [Items -> Nat]] /\ lines' \in [Requests -> [Items -> Nat]]
        BY <1>3, <1>4
      <4>3. i \in Items /\ q \in Requests
        OBVIOUS
      <4> QED BY ONLY <4>1, <4>2, <4>3, RequestAdded
    <3>2. desk[w].service = "request"
      BY DEF request_return
    <3>3. l[i] + desk[w].seen[i] <= Ordered[i]
      BY <3>2 DEF ReturnInv, DeskInv, l
    <3>4. desk[w].seen[i] = SumOver(Claims(returnStatus, lines, i), Requests)
      BY <2>1, ClaimedIsSum
    <3>5. /\ SumOver(Claims(returnStatus, lines, i), Requests) \in Nat /\ Ordered[i] \in Nat /\ l[i] \in Nat
      BY <1>3, ValuesAreNat, ReturnsAssumption
    <3>6. putBack'[i] <= SumOver(Parcels(returnStatus, lines, i), Requests)
      BY <1>2, <2>1 DEF InOrder
    <3>7. SumOver(Claims(returnStatus', lines', i), Requests) <= Ordered[i]
      BY <3>1, <3>3, <3>4, <3>5
    <3> QED BY <3>1, <3>6, <3>7
  <2> QED BY <2>2, <2>3 DEF InOrder
<1> QED BY <1>5, <1>7, <1>8, <1>9, <1>10 DEF ReturnInv

\* A step that frees a desk, or not, and moves at most the shipments on.
LEMMA ShipmentMovesInv ==
    ASSUME ReturnInv, UNCHANGED <<refundVars, lines, putBack>>,
           desk' \in [Clerks -> Desk],
           \A v \in Clerks : desk'[v] = desk[v] \/ desk'[v] = NoDesk,
           shipment' \in [Requests -> ShipmentStatus \union {"none"}],
           dropped' \subseteq Requests,
           \A q \in Requests : ShipmentAccountedFor(q) => ShipmentAccountedFor(q)'
    PROVE  ReturnInv'
<1>1. RefundInv' /\ (\A w \in Workers : CallForReturn(w)') /\ \A q \in Requests : MayBeRefunded(q)' <=> MayBeRefunded(q)
  BY ServicesKeepRefunds DEF refundVars, ReturnInv, RefundInv, RefundTypeOK
<1>2. ReturnTypeOK'
  BY <1>1 DEF ReturnInv, ReturnTypeOK, RefundInv, refundVars
<1>3. \A w \in Clerks : DeskInv(w)'
  BY NoDeskIsDesk DEF ReturnInv, DeskInv
<1>4. InOrder => InOrder'
  BY <1>1 DEF InOrder, refundVars
<1> QED BY <1>1, <1>2, <1>3, <1>4 DEF ReturnInv, NotOvertaken, refundVars

\* A desk is left: by the end of approve_return, which creates the shipment, or by a death.
LEMMA DeskLeft ==
    ASSUME ReturnInv, NEW w \in Clerks, LeaveDesk(w)
    PROVE  /\ desk' \in [Clerks -> Desk]
           /\ \A v \in Clerks : desk'[v] = desk[v] \/ desk'[v] = NoDesk
           /\ \A v \in Clerks \ {w} : desk'[v] = desk[v]
BY NoDeskIsDesk DEF LeaveDesk, ReturnInv

LEMMA CreateReturnShipmentInv ==
    ASSUME ReturnInv, NEW w \in Clerks, CreateReturnShipment(w),
           UNCHANGED <<payment, gateway, row, notice, order, call, lost, overlap>>
    PROVE  ReturnInv'
<1> DEFINE q == desk[w].request
<1>1. /\ desk[w].service = "ship" /\ LeaveDesk(w) /\ q \in Requests
      /\ shipment' = [shipment EXCEPT ![q] = IF @ = "none" THEN "awaiting_dispatch" ELSE @]
      /\ dropped' = dropped \ {q}
      /\ UNCHANGED <<refundVars, lines, putBack>>
  BY DEF CreateReturnShipment, ReturnInv, DeskInv, refundVars
<1>2. shipment \in [Requests -> ShipmentStatus \union {"none"}] /\ dropped \subseteq Requests
  BY DEF ReturnInv, ReturnTypeOK
<1> HIDE DEF q
<1>3. /\ shipment' \in [Requests -> ShipmentStatus \union {"none"}] /\ shipment'[q] # "none"
      /\ \A p \in Requests : shipment[p] # "none" => shipment'[p] # "none"
  BY <1>1, <1>2 DEF ShipmentStatus
<1>4. ASSUME NEW p \in Requests, ShipmentAccountedFor(p) PROVE ShipmentAccountedFor(p)'
  <2>1. CASE p = q
    BY <1>3, <2>1 DEF ShipmentAccountedFor
  <2>2. CASE p # q
    BY <1>1, <1>3, <1>4, <2>2, DeskLeft DEF ShipmentAccountedFor, q
  <2> QED BY <2>1, <2>2
<1> QED BY <1>1, <1>2, <1>3, <1>4, DeskLeft, ShipmentMovesInv

LEMMA ClerkDiesInv ==
    ASSUME ReturnInv, NEW w \in Clerks, ClerkDies(w)
    PROVE  ReturnInv'
<1> DEFINE q == desk[w].request
<1>1. /\ LeaveDesk(w) /\ UNCHANGED <<refundVars, lines, shipment, putBack>>
      /\ dropped' = IF desk[w].service = "ship" /\ shipment[q] = "none" THEN dropped \union {q} ELSE dropped
      /\ desk[w].service = "ship" => q \in Requests
  BY DEF ClerkDies, ReturnInv, DeskInv
<1>2. shipment \in [Requests -> ShipmentStatus \union {"none"}] /\ dropped \subseteq Requests
  BY DEF ReturnInv, ReturnTypeOK
<1>3. ASSUME NEW p \in Requests, ShipmentAccountedFor(p) PROVE ShipmentAccountedFor(p)'
  BY <1>1, <1>3, DeskLeft DEF ShipmentAccountedFor
<1> QED BY <1>1, <1>2, <1>3, DeskLeft, ShipmentMovesInv

LEMMA ServeInv ==
    ASSUME ReturnInv, NEW w \in Clerks, Serve(w)
    PROVE  ReturnInv'
<1>1. UNCHANGED <<payment, gateway, row, notice, order, call, lost, overlap>>
  BY DEF Serve
<1>2. /\ shipment \in [Requests -> ShipmentStatus \union {"none"}] /\ putBack \in [Items -> Nat]
      /\ lines \in [Requests -> [Items -> Nat]]
      /\ desk[w].service \notin {"none", "request"} => desk[w].request \in Requests
  BY DEF ReturnInv, ReturnTypeOK, DeskInv
<1>3. \A i \in Items : putBack[i] <= putBack[i] + 0
  BY <1>2
<1>4. CASE request_return(w) /\ UNCHANGED dropped
  BY <1>1, <1>4, RequestReturnInv
<1>5. CASE approve_return(w) /\ UNCHANGED dropped
  BY <1>1, <1>2, <1>3, <1>5, SetStatusInv DEF approve_return
<1>6. CASE reject_return(w) /\ UNCHANGED dropped
  BY <1>1, <1>2, <1>3, <1>6, SetStatusInv DEF reject_return, LeaveDesk
<1>7. CASE cancel_return_request(w) /\ UNCHANGED dropped
  BY <1>1, <1>2, <1>3, <1>7, SetStatusInv DEF cancel_return_request, LeaveDesk
<1>8. CASE mark_return_received(w) /\ UNCHANGED dropped
  <2> DEFINE q == desk[w].request
  <2>1. PICK restocked \in SUBSET Items :
            putBack' = [i \in Items |-> putBack[i] + IF i \in restocked THEN lines[q][i] ELSE 0]
    BY <1>8 DEF mark_return_received
  <2>2. /\ desk[w].service = "receive" /\ SetStatus(w, "received") /\ UNCHANGED lines /\ q \in Requests
        /\ shipment' = [shipment EXCEPT ![q] = IF @ = "none" THEN @ ELSE "delivered"]
        /\ desk' = [desk EXCEPT ![w] = NoDesk]
    BY <1>2, <1>8 DEF mark_return_received, LeaveDesk
  <2> HIDE DEF q
  <2>3. /\ shipment' \in [Requests -> ShipmentStatus \union {"none"}]
        /\ \A p \in Requests : shipment[p] # "none" => shipment'[p] # "none"
    BY <1>2, <2>2 DEF ShipmentStatus
  <2>4. putBack' \in [Items -> Nat] /\ \A i \in Items : putBack'[i] <= putBack[i] + lines[q][i]
    BY <1>2, <2>1, <2>2
  <2> QED BY <1>1, <1>8, <2>2, <2>3, <2>4, SetStatusInv DEF q
<1>9. CASE CreateReturnShipment(w)
  BY <1>1, <1>9, CreateReturnShipmentInv
<1> QED BY <1>4, <1>5, <1>6, <1>7, <1>8, <1>9 DEF Serve

LEMMA ReturnStepInv == ReturnInv /\ [Next]_vars => ReturnInv'
<1> SUFFICES ASSUME ReturnInv, [Next]_vars PROVE ReturnInv'
  OBVIOUS
<1>1. /\ shipment \in [Requests -> ShipmentStatus \union {"none"}] /\ dropped \subseteq Requests
      /\ desk \in [Clerks -> Desk]
  BY DEF ReturnInv, ReturnTypeOK
<1>2. ASSUME UNCHANGED <<refundVars, lines, putBack, desk, dropped>>,
             shipment' \in [Requests -> ShipmentStatus \union {"none"}],
             \A q \in Requests : shipment[q] # "none" => shipment'[q] # "none"
      PROVE  ReturnInv'
  <2>1. \A q \in Requests : ShipmentAccountedFor(q) => ShipmentAccountedFor(q)'
    BY <1>2 DEF ShipmentAccountedFor
  <2> QED BY <1>1, <1>2, <2>1, ShipmentMovesInv
<1>3. CASE update_return_shipment_tracking
  BY <1>1, <1>2, <1>3 DEF update_return_shipment_tracking, ShipmentStatus
<1>4. CASE EditReturnShipment
  BY <1>1, <1>2, <1>4, ReturnsAssumption DEF EditReturnShipment, ShipmentStatus
<1>5. CASE UNCHANGED vars
  BY <1>1, <1>2, <1>5 DEF vars, returnVars
<1> QED BY <1>3, <1>4, <1>5, CheckInv, ServeInv, ClerkDiesInv, RefundStepReturns DEF Next

\* In every reachable state the return services and the refunds agree, however many clerks overlap.
LEMMA ReturnInvHolds == Spec => []ReturnInv
BY ReturnInitInv, ReturnStepInv, PTL DEF Spec

\* Type correctness of the return workflow; and a return that got past its approval has a shipment, unless
\* a clerk is between the two saves of approve_return (returns/services.py:109-110) or died there.
THEOREM ReturnTypesHold == Spec => []ReturnTypeOK
<1>1. ReturnInv => ReturnTypeOK
  BY DEF ReturnInv
<1> QED BY <1>1, ReturnInvHolds, PTL

\* As long as no request or status has been written by somebody whose check another write had overtaken
\* (returns/services.py locks nothing between the two), no more units are claimed by return requests, and
\* none are put back on the shelf more often, than were ordered: over any history of requests,
\* rejections, refunds that fail and repetitions, by any number of clerks.
THEOREM NoUnitReturnedTwice == Spec => []NothingReturnedTwice
<1>1. ReturnInv => NothingReturnedTwice
  <2> SUFFICES ASSUME ReturnInv, stale \intersect {"claims", "status"} = {}, NEW i \in Items
               PROVE  Claimed[i] <= Ordered[i] /\ putBack[i] <= Ordered[i]
    BY DEF NothingReturnedTwice
  <2>1. /\ SumOver(Claims(returnStatus, lines, i), Requests) <= Ordered[i]
        /\ putBack[i] <= SumOver(Parcels(returnStatus, lines, i), Requests)
    BY DEF ReturnInv, NotOvertaken, InOrder
  <2>2. lines \in [Requests -> [Items -> Nat]] /\ putBack[i] \in Nat /\ Ordered[i] \in Nat
    BY ReturnsAssumption DEF ReturnInv, ReturnTypeOK
  <2>3. SumOver(Parcels(returnStatus, lines, i), Requests) <= SumOver(Claims(returnStatus, lines, i), Requests)
    <3>1. \A q \in Requests : /\ Parcels(returnStatus, lines, i)[q] \in Int /\ Claims(returnStatus, lines, i)[q] \in Int
                              /\ Parcels(returnStatus, lines, i)[q] <= Claims(returnStatus, lines, i)[q]
      BY <2>2 DEF Parcels, Claims, Received, Withdrawn
    <3> QED BY <3>1, SumNoLarger, ReturnsAssumption
  <2>4. /\ SumOver(Parcels(returnStatus, lines, i), Requests) \in Nat
        /\ SumOver(Claims(returnStatus, lines, i), Requests) \in Nat
    BY <2>2, ValuesAreNat
  <2> QED BY <2>1, <2>2, <2>3, <2>4, ClaimedIsSum
<1> QED BY <1>1, ReturnInvHolds, PTL

LEMMA RefundedStep ==
    ASSUME ReturnInv, [Next]_vars, NEW q \in Requests, returnStatus[q] = "refunded", returnStatus'[q] # "refunded"
    PROVE  "status" \in stale' \/ \E r \in Refunds : row[r].request = q /\ row[r].status = "failed"
<1> USE DEF ReturnInv, RefundInv
<1>1. CASE UNCHANGED returnStatus
  BY <1>1
<1>2. ASSUME NEW w \in Clerks, Serve(w) PROVE "status" \in stale'
  <2>1. CASE request_return(w)
    BY <2>1 DEF request_return, RefundTypeOK
  <2>3. CASE CreateReturnShipment(w)
    BY <2>3 DEF CreateReturnShipment
  <2>2. CASE \E new \in ReturnStatus : SetStatus(w, new) /\ desk[w].service \notin {"none", "request", "ship"}
    <3>1. desk[w].request = q /\ desk[w].seen \in {"requested", "approved"}
      BY <2>2 DEF SetStatus, DeskInv, Desk, RefundTypeOK
    <3> QED BY <2>2, <3>1 DEF SetStatus, Overtaken
  <2> QED BY <1>2, <2>1, <2>2, <2>3
          DEF Serve, approve_return, reject_return, cancel_return_request, mark_return_received, ReturnStatus
<1>3. ASSUME NEW w \in Workers, ReturnRefunded(w) PROVE \E r \in Refunds : row[r].request = q /\ row[r].status = "failed"
  BY <1>3 DEF ReturnRefunded, CallForReturn, RefundTypeOK
<1>4. ASSUME NEW w \in Workers, Finish(w) PROVE "status" \in stale'
  BY <1>4 DEF Finish, RefundTypeOK
<1>5. ASSUME NEW w \in Workers, TakeUp(w) PROVE UNCHANGED returnStatus
  BY <1>5 DEF TakeUp, refund_view, store_dashboard_refund_payment, initiate_return_refund, Begin,
              TakeNotice, BeginReconcile
<1>6. ASSUME NEW w \in Workers, AskGateway(w) \/ InsertRefund(w) \/ ApplyRefundResult(w) \/ OrderRefunded(w)
                                \/ Reconcile(w) \/ CallLost(w)
      PROVE  UNCHANGED returnStatus
  BY <1>6 DEF AskGateway, InsertRefund, ApplyRefundResult, OrderRefunded, Reconcile, CallLost
<1>7. ASSUME NEW r \in Refunds, GatewaySettles(r) PROVE UNCHANGED returnStatus
  BY <1>7 DEF GatewaySettles
<1>8. CASE RefundStep
  BY <1>1, <1>3, <1>4, <1>5, <1>6, <1>7, <1>8 DEF RefundStep, Proceed
<1>9. ASSUME NEW w \in Clerks, Check(w) PROVE UNCHANGED returnStatus
  BY <1>9 DEF Check, CheckRequest, CheckStatus, CheckReceive, CheckCancel, Opened, Sit, refundVars
<1> QED BY <1>1, <1>2, <1>8, <1>9
        DEF Next, ClerkDies, update_return_shipment_tracking, EditReturnShipment, refundVars, vars

\* A step takes a return out of "refunded" only if a refund of the same return has failed or a status has
\* been written from a copy that was no longer true (mark_return_refund_failed, and the save that ends
\* initiate_return_refund after an instant refund), for any number of refunds and workers.
THEOREM RefundedStays == Spec => RefundedReturnsStay
<1>1. ReturnInv /\ [Next]_vars =>
        [\A q \in Requests :
            returnStatus[q] = "refunded" /\ returnStatus'[q] # "refunded" =>
                \/ "status" \in stale'
                \/ \E r \in Refunds : row[r].request = q /\ row[r].status = "failed"]_vars
  BY RefundedStep
<1> QED BY <1>1, ReturnInvHolds, PTL DEF Spec, RefundedReturnsStay

\* With the return services around it too the gateway pays back no more than was paid, as long as
\* staff wait for one refund's result before they ask for the next and no save of the Payment row
\* overtakes another (payments/services.py, returns/services.py), for any number of clerks and returns.
THEOREM ReturnsPayBackOnce == Spec => []PaysBackAtMostWhatWasPaid
<1>1. Init => BalanceInv
  BY BalanceInit DEF Init
<1>2. ReturnInv /\ ReturnInv' /\ BalanceInv /\ [Next]_vars => BalanceInv'
  <2> SUFFICES ASSUME ReturnInv, ReturnInv', BalanceInv, [Next]_vars PROVE BalanceInv'
    OBVIOUS
  <2> USE DEF ReturnInv
  <2>1. CASE RefundStep
    BY <2>1, BalanceStep
  <2>2. CASE UNCHANGED <<payment, gateway, call, overlap>> /\ stale \subseteq stale'
    BY <2>2, BalanceKept DEF At, Open
  <2>3. ASSUME NEW w \in Clerks, Serve(w) PROVE stale \subseteq stale' /\ UNCHANGED <<payment, gateway, call, overlap>>
    BY <2>3 DEF Serve, request_return, approve_return, CreateReturnShipment, reject_return, cancel_return_request, mark_return_received,
                SetStatus, Overtaken
  <2>4. ASSUME NEW w \in Clerks, Check(w) PROVE UNCHANGED refundVars
    BY <2>4 DEF Check, CheckRequest, CheckStatus, CheckReceive, CheckCancel, Opened, Sit, refundVars
  <2> QED BY <2>1, <2>2, <2>3, <2>4
          DEF Next, ClerkDies, update_return_shipment_tracking, EditReturnShipment, refundVars, vars
<1>3. BalanceInv => PaysBackAtMostWhatWasPaid
  BY DEF BalanceInv, PaysBackAtMostWhatWasPaid
<1> QED BY <1>1, <1>2, <1>3, ReturnInvHolds, PTL DEF Spec
=============================================================================
