----------------------- MODULE StockTransactionsProofs -----------------------
(***************************************************************************)
(* StockTransactions implements StockLedger, for every set of skus, orders *)
(* and sessions and every order of the items: what a session has written   *)
(* to the rows it holds is still what the service would write at its       *)
(* commit, since nobody else can write them in between.                    *)
(***************************************************************************)
EXTENDS StockTransactions, StockLedgerProofs

Session == [service : Service, order : Orders, line : Nat \ {0}]
StockRow == [stock : Int, reserved : Int, stockDelta : Int, reservedDelta : Int]

\* A session has passed no line twice and none that is not there.
LinesInRange == \A t \in Tx : Running(t) => call[t].line <= Len(OrderItems[OrderOf(t)]) + 1

\* What a session has written is what it would write if it locked the row now.
RowsAreFresh ==
    \A t \in Tx, s \in Skus :
        row[t][s] = IF lock[s] = t THEN LineWrite(call[t].service, s, Lines[OrderOf(t)][s]) ELSE NotWritten

\* What a checkout has found available still is.
StillAvailable ==
    \A t \in Tx, s \in Skus :
        lock[s] = t /\ call[t].service = "reserve" => available_to_sell(s) >= Lines[OrderOf(t)][s]

TxInv == TxTypeOK /\ LedgerSumsToCounters /\ LinesInRange /\ RowsAreFresh /\ StillAvailable

LEMMA TxInvStock == TxInv => StockInv
BY DEF TxInv, TxTypeOK, StockInv

LEMMA LineWriteTyped ==
    ASSUME StockTypeOK, NEW service \in Service, NEW s \in Skus, NEW q \in Nat
    PROVE  LineWrite(service, s, q) \in StockRow
<1>1. stock[s] \in Nat /\ reserved[s] \in Nat
  BY DEF StockTypeOK
<1> QED BY <1>1 DEF LineWrite, Written, Lesser, Service, StockRow

\* A session without a call holds nothing, and one with a call names a service and an order.
LEMMA CallFacts ==
    ASSUME TxInv, NEW t \in Tx
    PROVE  /\ Running(t) => call[t] \in Session /\ OrderOf(t) \in Orders
           /\ \A s \in Skus : lock[s] = t => Running(t)
           /\ t # NoTx
<1>1. Running(t) => call[t] \in Session
  BY DEF TxInv, TxTypeOK, Session, Running
<1>2. ~Running(t) => {s \in Skus : lock[s] = t} = {}
  BY DEF TxInv, TxTypeOK
<1> QED BY <1>1, <1>2, TxAssumption DEF Session, OrderOf

LEMMA NextSkuIsSku ==
    ASSUME TxInv, NEW t \in Tx, Running(t), LinesLeft(t)
    PROVE  NextSku(t) \in Skus /\ call[t].line \in DOMAIN OrderItems[OrderOf(t)]
<1>1. OrderOf(t) \in Orders /\ call[t].line \in Nat \ {0}
  BY CallFacts DEF Session
<1>2. OrderItems[OrderOf(t)] \in Seq(Skus)
  BY <1>1, OrderItemsAssumption
<1>3. call[t].line \in 1..Len(OrderItems[OrderOf(t)])
  BY <1>1, <1>2 DEF LinesLeft
<1> QED BY <1>2, <1>3 DEF NextSku

LEMMA TxInitInv == TxInit => TxInv
<1> SUFFICES ASSUME TxInit PROVE TxInv
  OBVIOUS
<1>1. StockTypeOK /\ LedgerSumsToCounters
  BY StockInitInv DEF TxInit, StockInv
<1>2. \A t \in Tx : ~Running(t) /\ {s \in Skus : lock[s] = t} = {}
  BY TxAssumption DEF TxInit, Running
<1>3. /\ lock \in [Skus -> Tx \union {NoTx}]
      /\ call \in [Tx -> {NoCall} \union [service : Service, order : Orders, line : Nat \ {0}]]
      /\ calls \in 0..MaxCalls
  BY TxAssumption DEF TxInit
<1>4. row \in [Tx -> [Skus -> StockRow]]
  BY DEF TxInit, NotWritten, StockRow
<1>5. TxTypeOK
  BY <1>1, <1>2, <1>3, <1>4 DEF TxTypeOK, StockRow
<1>6. LinesInRange
  BY <1>2 DEF LinesInRange
<1>7. \A t \in Tx, s \in Skus : lock[s] # t /\ row[t][s] = NotWritten
  BY TxAssumption DEF TxInit
<1>8. RowsAreFresh /\ StillAvailable
  BY <1>7 DEF RowsAreFresh, StillAvailable
<1> QED BY <1>1, <1>5, <1>6, <1>8 DEF TxInv

-----------------------------------------------------------------------------
(* A call begins, takes a line, ends                                       *)

LEMMA BeginInv ==
    ASSUME TxInv, NEW t \in Tx, NEW service \in Service, NEW o \in Orders, Begin(t, service, o)
    PROVE  TxInv'
<1> DEFINE new == [service |-> service, order |-> o, line |-> 1]
<1>1. /\ ~Running(t) /\ calls < MaxCalls /\ calls' = calls + 1 /\ call' = [call EXCEPT ![t] = new]
      /\ UNCHANGED <<stock, reserved, ledger, lock, row>> /\ UNCHANGED stockVars
  BY DEF Begin, stockVars
<1>2. new \in Session /\ new # NoCall /\ new.line = 1 /\ new.order = o
  BY DEF Session, Service, NoCall
<1> HIDE DEF new
<1>3. /\ call' \in [Tx -> {NoCall} \union Session] /\ call'[t] = new
      /\ \A u \in Tx \ {t} : call'[u] = call[u]
  BY <1>1, <1>2 DEF TxInv, TxTypeOK, Session
<1>4. \A s \in Skus : lock[s] # t
  BY <1>1, CallFacts
<1>5. (StockTypeOK /\ LedgerSumsToCounters)'
  BY <1>1 DEF TxInv, TxTypeOK, StockTypeOK, LedgerSumsToCounters, stockVars
<1>6. calls' \in 0..MaxCalls
  BY <1>1, TxAssumption DEF TxInv, TxTypeOK
<1>7. \A u \in Tx : {s \in Skus : lock'[s] = u} =
            IF Running(u)' THEN {OrderItems[OrderOf(u)'][i] : i \in 1..(call'[u].line - 1)} ELSE {}
  <2> TAKE u \in Tx
  <2>1. CASE u = t
    <3>1. Running(t)' /\ call'[t].line = 1
      BY <1>2, <1>3 DEF Running
    <3> QED BY <1>1, <1>4, <2>1, <3>1
  <2>2. CASE u # t
    <3>1. call'[u] = call[u] /\ lock' = lock
      BY <1>1, <1>3, <2>2
    <3> QED BY <3>1 DEF TxInv, TxTypeOK, Running, OrderOf
  <2> QED BY <2>1, <2>2
<1>8. TxTypeOK'
  BY <1>1, <1>3, <1>5, <1>6, <1>7 DEF TxInv, TxTypeOK, Session, OrderOf
<1>9. LinesInRange'
  <2> SUFFICES ASSUME NEW u \in Tx, Running(u)' PROVE call'[u].line <= Len(OrderItems[OrderOf(u)']) + 1
    BY DEF LinesInRange, OrderOf
  <2>1. CASE u = t
    <3>1. Len(OrderItems[o]) \in Nat
      BY OrderItemsAssumption
    <3> QED BY <1>2, <1>3, <2>1, <3>1 DEF OrderOf
  <2>2. CASE u # t
    BY <1>3, <2>2 DEF TxInv, LinesInRange, Running, OrderOf
  <2> QED BY <2>1, <2>2
<1>10. ASSUME NEW u \in Tx, NEW s \in Skus, lock[s] = u PROVE call'[u] = call[u]
  BY <1>3, <1>4, <1>10
<1>12. RowsAreFresh'
  <2> SUFFICES ASSUME NEW u \in Tx, NEW r \in Skus
               PROVE  (row[u][r] = IF lock[r] = u THEN LineWrite(call[u].service, r, Lines[call[u].order][r]) ELSE NotWritten)'
    BY DEF RowsAreFresh, OrderOf
  <2>1. row[u][r] = IF lock[r] = u THEN LineWrite(call[u].service, r, Lines[call[u].order][r]) ELSE NotWritten
    BY DEF TxInv, RowsAreFresh, OrderOf
  <2>2. row' = row /\ lock' = lock /\ stock' = stock /\ reserved' = reserved
    BY <1>1
  <2> QED BY <1>10, <2>1, <2>2 DEF LineWrite, Written, Lesser
<1>13. StillAvailable'
  BY <1>1, <1>10 DEF TxInv, StillAvailable, OrderOf, available_to_sell, Greater
<1> QED BY <1>5, <1>8, <1>9, <1>12, <1>13 DEF TxInv

LEMMA LockLineInv ==
    ASSUME TxInv, NEW t \in Tx, LockLine(t)
    PROVE  TxInv'
<1> DEFINE s == NextSku(t)
           o == OrderOf(t)
           new == LineWrite(call[t].service, s, Lines[o][s])
<1>1. /\ Running(t) /\ LinesLeft(t) /\ lock[s] = NoTx /\ ~ShortLine(t)
      /\ lock' = [lock EXCEPT ![s] = t] /\ row' = [row EXCEPT ![t][s] = new]
      /\ call' = [call EXCEPT ![t].line = @ + 1]
      /\ UNCHANGED <<stock, reserved, ledger, sold, restored, calls>>
  BY DEF LockLine, stockVars, Granted
<1>2. s \in Skus /\ call[t].line \in DOMAIN OrderItems[o] /\ o \in Orders /\ call[t] \in Session
  BY <1>1, NextSkuIsSku, CallFacts
<1>3. OrderItems[o] \in Seq(Skus) /\ call[t].line \in 1..Len(OrderItems[o]) /\ s = OrderItems[o][call[t].line]
  BY <1>2, OrderItemsAssumption DEF NextSku
<1>4. new \in StockRow
  BY <1>2, LineWriteTyped, LineNat DEF Session, TxInv, TxTypeOK
<1>5. /\ call'[t].service = call[t].service /\ call'[t].order = o /\ call'[t].line = call[t].line + 1
      /\ call'[t] \in Session /\ call'[t] # NoCall
      /\ \A u \in Tx \ {t} : call'[u] = call[u]
      /\ call' \in [Tx -> {NoCall} \union Session]
  <2> DEFINE next == [call[t] EXCEPT !.line = @ + 1]
  <2>1. /\ next \in Session /\ next.order = call[t].order
        /\ next.service = call[t].service /\ next.line = call[t].line + 1
    BY <1>2 DEF Session
  <2>2. call' = [call EXCEPT ![t] = next]
    BY <1>1
  <2>3. next # NoCall
    BY <2>1 DEF Session, NoCall, Service
  <2> HIDE DEF next
  <2> QED BY <2>1, <2>2, <2>3 DEF TxInv, TxTypeOK, Session, OrderOf
<1> HIDE DEF s, o, new
<1>6. (StockTypeOK /\ LedgerSumsToCounters)'
  BY <1>1 DEF TxInv, TxTypeOK, StockTypeOK, LedgerSumsToCounters
<1>7. /\ lock' \in [Skus -> Tx \union {NoTx}] /\ lock'[s] = t
      /\ \A r \in Skus \ {s} : lock'[r] = lock[r]
  BY <1>1, <1>2 DEF TxInv, TxTypeOK
<1>8. /\ row' \in [Tx -> [Skus -> StockRow]] /\ row'[t][s] = new
      /\ \A u \in Tx, r \in Skus : u # t \/ r # s => row'[u][r] = row[u][r]
  <2>1. row \in [Tx -> [Skus -> StockRow]]
    BY DEF TxInv, TxTypeOK, StockRow
  <2> QED BY <1>1, <1>2, <1>4, <2>1
<1>9. \A u \in Tx : {r \in Skus : lock'[r] = u} =
            IF Running(u)' THEN {OrderItems[OrderOf(u)'][i] : i \in 1..(call'[u].line - 1)} ELSE {}
  <2> TAKE u \in Tx
  <2>1. CASE u = t
    <3>1. {r \in Skus : lock[r] = t} = {OrderItems[o][i] : i \in 1..(call[t].line - 1)}
      BY <1>1 DEF TxInv, TxTypeOK, o
    <3>2. {r \in Skus : lock'[r] = t} = {OrderItems[o][i] : i \in 1..(call[t].line - 1)} \union {s}
      BY <1>2, <1>7, <3>1
    <3>3. 1..call[t].line = 1..(call[t].line - 1) \union {call[t].line}
      BY <1>3
    <3>4. {OrderItems[o][i] : i \in 1..(call[t].line - 1)} \union {s} = {OrderItems[o][i] : i \in 1..call[t].line}
      BY <1>3, <3>3
    <3>5. Running(t)' /\ OrderOf(t)' = o /\ call'[t].line - 1 = call[t].line
      BY <1>3, <1>5 DEF Running, OrderOf
    <3> QED BY <2>1, <3>2, <3>4, <3>5
  <2>2. CASE u # t
    <3>1. call'[u] = call[u]
      BY <1>5, <2>2
    <3>2. u # NoTx
      BY CallFacts
    <3>3. {r \in Skus : lock'[r] = u} = {r \in Skus : lock[r] = u}
      BY <1>1, <1>2, <1>7, <2>2, <3>2
    <3> QED BY <3>1, <3>3 DEF TxInv, TxTypeOK, Running, OrderOf
  <2> QED BY <2>1, <2>2
<1>10. TxTypeOK'
  BY <1>1, <1>5, <1>6, <1>7, <1>8, <1>9 DEF TxInv, TxTypeOK, Session, StockRow, OrderOf
<1>11. LinesInRange'
  <2> SUFFICES ASSUME NEW u \in Tx, Running(u)' PROVE call'[u].line <= Len(OrderItems[OrderOf(u)']) + 1
    BY DEF LinesInRange, OrderOf
  <2>1. CASE u = t
    BY <1>3, <1>5, <2>1 DEF OrderOf
  <2>2. CASE u # t
    BY <1>5, <2>2 DEF TxInv, LinesInRange, Running, OrderOf
  <2> QED BY <2>1, <2>2
<1>12. \A u \in Tx : Running(u) => call'[u].service = call[u].service /\ OrderOf(u)' = OrderOf(u)
  BY <1>5 DEF OrderOf, o
<1>14. RowsAreFresh'
  <2> SUFFICES ASSUME NEW u \in Tx, NEW r \in Skus
               PROVE  (row[u][r] = IF lock[r] = u THEN LineWrite(call[u].service, r, Lines[call[u].order][r]) ELSE NotWritten)'
    BY DEF RowsAreFresh, OrderOf
  <2>1. CASE u = t /\ r = s
    <3>1. OrderOf(t)' = o /\ call'[t].service = call[t].service
      BY <1>5 DEF OrderOf
    <3>2. call'[t].order = o /\ stock' = stock /\ reserved' = reserved
      BY <1>1, <3>1 DEF OrderOf
    <3> QED BY <1>7, <1>8, <2>1, <3>1, <3>2 DEF new, LineWrite, Written, Lesser
  <2>2. CASE u # t \/ r # s
    <3>1. row'[u][r] = row[u][r] /\ (lock'[r] = u <=> lock[r] = u)
      BY <1>1, <1>2, <1>7, <1>8, <2>2, CallFacts
    <3>2. lock[r] = u => call'[u].service = call[u].service /\ OrderOf(u)' = OrderOf(u)
      BY <1>12, CallFacts
    <3>3. row[u][r] = IF lock[r] = u THEN LineWrite(call[u].service, r, Lines[call[u].order][r]) ELSE NotWritten
      BY DEF TxInv, RowsAreFresh, OrderOf
    <3>4. stock' = stock /\ reserved' = reserved /\ OrderOf(u) = call[u].order /\ OrderOf(u)' = call'[u].order
      BY <1>1 DEF OrderOf
    <3> QED BY <3>1, <3>2, <3>3, <3>4 DEF LineWrite, Written, Lesser
  <2> QED BY <2>1, <2>2
<1>15. StillAvailable'
  <2> SUFFICES ASSUME NEW u \in Tx, NEW r \in Skus, lock'[r] = u, call'[u].service = "reserve"
               PROVE  available_to_sell(r)' >= Lines[OrderOf(u)'][r]
    BY DEF StillAvailable, OrderOf
  <2>1. available_to_sell(r)' = available_to_sell(r)
    BY <1>1 DEF available_to_sell, Greater
  <2>2. CASE r = s
    <3>1. u = t /\ OrderOf(u)' = o /\ call[t].service = "reserve"
      BY <1>5, <1>7, <2>2 DEF OrderOf
    <3>2. ~(available_to_sell(s) < Lines[o][s])
      BY <1>1, <3>1 DEF ShortLine, s, o
    <3>3. available_to_sell(s) \in Int /\ Lines[o][s] \in Nat
      BY <1>2, LineNat DEF available_to_sell, Greater, TxInv, TxTypeOK, StockTypeOK
    <3> QED BY <2>1, <2>2, <3>1, <3>2, <3>3
  <2>3. CASE r # s
    <3>1. lock[r] = u
      BY <1>7, <2>3
    <3>2. call'[u].service = call[u].service /\ OrderOf(u)' = OrderOf(u)
      BY <1>12, <3>1, CallFacts
    <3> QED BY <2>1, <3>1, <3>2 DEF TxInv, StillAvailable
  <2> QED BY <2>2, <2>3
<1> QED BY <1>6, <1>10, <1>11, <1>14, <1>15 DEF TxInv

\* The end of a call, whether its rows are written or dropped, as long as no other row is.
LEMMA EndCallInv ==
    ASSUME TxInv, NEW t \in Tx, EndCall(t), StockInv', calls' = calls,
           \A s \in Skus : lock[s] # t => stock'[s] = stock[s] /\ reserved'[s] = reserved[s]
    PROVE  TxInv'
<1>1. /\ lock' = [s \in Skus |-> IF lock[s] = t THEN NoTx ELSE lock[s]]
      /\ call' = [call EXCEPT ![t] = NoCall]
      /\ row' = [row EXCEPT ![t] = [s \in Skus |-> NotWritten]]
  BY DEF EndCall
<1>2. /\ call' \in [Tx -> {NoCall} \union Session] /\ ~Running(t)'
      /\ \A u \in Tx \ {t} : call'[u] = call[u]
  BY <1>1 DEF TxInv, TxTypeOK, Session, Running
<1>3. /\ row' \in [Tx -> [Skus -> StockRow]] /\ \A s \in Skus : row'[t][s] = NotWritten
      /\ \A u \in Tx \ {t} : row'[u] = row[u]
  <2>1. row \in [Tx -> [Skus -> StockRow]] /\ [s \in Skus |-> NotWritten] \in [Skus -> StockRow]
    BY DEF TxInv, TxTypeOK, StockRow, NotWritten
  <2> QED BY <1>1, <2>1
<1>4. /\ lock' \in [Skus -> Tx \union {NoTx}]
      /\ \A s \in Skus : lock'[s] # t
      /\ \A u \in Tx \ {t}, s \in Skus : lock'[s] = u <=> lock[s] = u
  BY <1>1, TxAssumption DEF TxInv, TxTypeOK
<1>5. (StockTypeOK /\ LedgerSumsToCounters)' /\ calls' \in 0..MaxCalls
  BY DEF StockInv, TxInv, TxTypeOK
<1>6. \A u \in Tx : {s \in Skus : lock'[s] = u} =
            IF Running(u)' THEN {OrderItems[OrderOf(u)'][i] : i \in 1..(call'[u].line - 1)} ELSE {}
  <2> TAKE u \in Tx
  <2>1. CASE u = t
    BY <1>2, <1>4, <2>1
  <2>2. CASE u # t
    <3>1. call'[u] = call[u] /\ {s \in Skus : lock'[s] = u} = {s \in Skus : lock[s] = u}
      BY <1>2, <1>4, <2>2
    <3> QED BY <3>1 DEF TxInv, TxTypeOK, Running, OrderOf
  <2> QED BY <2>1, <2>2
<1>7. TxTypeOK'
  BY <1>2, <1>3, <1>4, <1>5, <1>6 DEF TxTypeOK, Session, StockRow, OrderOf
<1>8. LinesInRange'
  BY <1>2 DEF TxInv, LinesInRange, Running, OrderOf
<1>9. RowsAreFresh'
  <2> SUFFICES ASSUME NEW u \in Tx, NEW s \in Skus
               PROVE  (row[u][s] = IF lock[s] = u THEN LineWrite(call[u].service, s, Lines[call[u].order][s]) ELSE NotWritten)'
    BY DEF RowsAreFresh, OrderOf
  <2>1. CASE u = t
    BY <1>3, <1>4, <2>1
  <2>2. CASE u # t
    <3>1. row[u][s] = IF lock[s] = u THEN LineWrite(call[u].service, s, Lines[call[u].order][s]) ELSE NotWritten
      BY DEF TxInv, RowsAreFresh, OrderOf
    <3>2. lock[s] = u => stock'[s] = stock[s] /\ reserved'[s] = reserved[s]
      BY <2>2
    <3>3. call'[u] = call[u] /\ row'[u] = row[u] /\ (lock'[s] = u <=> lock[s] = u)
      BY <1>2, <1>3, <1>4, <2>2
    <3> QED BY <3>1, <3>2, <3>3 DEF LineWrite, Written, Lesser
  <2> QED BY <2>1, <2>2
<1>10. StillAvailable'
  <2> SUFFICES ASSUME NEW u \in Tx, NEW s \in Skus, lock'[s] = u, call'[u].service = "reserve"
               PROVE  (available_to_sell(s) >= Lines[call[u].order][s])'
    BY DEF StillAvailable, OrderOf
  <2>1. u # t /\ call'[u] = call[u] /\ lock[s] = u /\ stock'[s] = stock[s] /\ reserved'[s] = reserved[s]
    BY <1>2, <1>4
  <2> QED BY <2>1 DEF TxInv, StillAvailable, OrderOf, available_to_sell, Greater
<1> QED BY <1>5, <1>7, <1>8, <1>9, <1>10 DEF TxInv

\* A call that is refused, broken off or rolled back writes nothing.
LEMMA NothingWrittenInv ==
    ASSUME TxInv, NEW t \in Tx, EndCall(t), UNCHANGED <<stockVars, calls>>
    PROVE  TxInv'
<1>1. stock' = stock /\ reserved' = reserved /\ ledger' = ledger /\ sold' = sold /\ restored' = restored
  BY DEF stockVars
<1>2. StockInv'
  BY <1>1, TxInvStock DEF StockInv, StockTypeOK, LedgerSumsToCounters
<1> QED BY <1>1, <1>2, EndCallInv

LEMMA MoveOneRowInv ==
    ASSUME TxInv, MoveOneRow
    PROVE  TxInv' /\ StockNext
<1>1. PICK s \in Skus : /\ lock[s] = NoTx
                        /\ \/ \E q \in RestockQuantities : record_restock(s, q)
                           \/ \E d \in AdjustDeltas : record_adjustment(s, d)
  BY DEF MoveOneRow
<1>2. calls < MaxCalls /\ calls' = calls + 1 /\ lock' = lock /\ call' = call /\ row' = row
  BY DEF MoveOneRow
<1>3. StockNext
  BY <1>1 DEF StockNext, Restock, Adjust
<1>4. StockInv'
  BY <1>3, TxInvStock, StockStepInv
<1>5. \A r \in Skus \ {s} : stock'[r] = stock[r] /\ reserved'[r] = reserved[r]
  BY <1>1 DEF record_restock, record_adjustment, TxInv, TxTypeOK, StockTypeOK
<1>6. \A u \in Tx, r \in Skus : lock[r] = u => stock'[r] = stock[r] /\ reserved'[r] = reserved[r]
  BY <1>1, <1>5, TxAssumption
<1>7. calls' \in 0..MaxCalls
  BY <1>2, TxAssumption DEF TxInv, TxTypeOK
<1>8. TxTypeOK'
  BY <1>2, <1>4, <1>7 DEF StockInv, TxInv, TxTypeOK, Running, OrderOf
<1>9. LinesInRange'
  BY <1>2 DEF TxInv, LinesInRange, Running, OrderOf
<1>10. RowsAreFresh'
  <2> SUFFICES ASSUME NEW u \in Tx, NEW r \in Skus
               PROVE  (row[u][r] = IF lock[r] = u THEN LineWrite(call[u].service, r, Lines[call[u].order][r]) ELSE NotWritten)'
    BY DEF RowsAreFresh, OrderOf
  <2>1. row[u][r] = IF lock[r] = u THEN LineWrite(call[u].service, r, Lines[call[u].order][r]) ELSE NotWritten
    BY DEF TxInv, RowsAreFresh, OrderOf
  <2> QED BY <1>2, <1>6, <2>1 DEF LineWrite, Written, Lesser
<1>11. StillAvailable'
  <2> SUFFICES ASSUME NEW u \in Tx, NEW r \in Skus, lock'[r] = u, call'[u].service = "reserve"
               PROVE  (available_to_sell(r) >= Lines[call[u].order][r])'
    BY DEF StillAvailable, OrderOf
  <2> QED BY <1>2, <1>6 DEF TxInv, StillAvailable, OrderOf, available_to_sell, Greater
<1> QED BY <1>3, <1>4, <1>8, <1>9, <1>10, <1>11 DEF TxInv, StockInv

-----------------------------------------------------------------------------
(* A commit is a call of the service                                       *)

\* At the commit a session holds exactly the rows of its order's lines, and what it has written
\* and posted is what the service makes of the rows as they are now.
LEMMA AtCommit ==
    ASSUME TxInv, NEW t \in Tx, Running(t), ~LinesLeft(t), NEW s \in Skus
    PROVE  /\ lock[s] = t <=> Lines[OrderOf(t)][s] > 0
           /\ lock[s] = t => row[t][s] = LineWrite(call[t].service, s, Lines[OrderOf(t)][s])
           /\ lock[s] # t => row[t][s] = NotWritten /\ Lines[OrderOf(t)][s] = 0
<1> DEFINE o == OrderOf(t)
<1>1. o \in Orders /\ call[t].line \in Nat \ {0} /\ Len(OrderItems[o]) \in Nat /\ OrderItems[o] \in Seq(Skus)
  BY CallFacts, OrderItemsAssumption DEF Session
<1>2. call[t].line = Len(OrderItems[o]) + 1
  BY <1>1 DEF TxInv, LinesInRange, LinesLeft
<1>3. {r \in Skus : lock[r] = t} = {OrderItems[o][i] : i \in 1..(call[t].line - 1)}
  BY DEF TxInv, TxTypeOK
<1>4. {r \in Skus : lock[r] = t} = {OrderItems[o][i] : i \in DOMAIN OrderItems[o]}
  <2>1. 1..(call[t].line - 1) = DOMAIN OrderItems[o]
    BY <1>1, <1>2
  <2> QED BY <1>3, <2>1
<1>5. {r \in Skus : lock[r] = t} = {r \in Skus : Lines[o][r] > 0}
  BY <1>1, <1>4, OrderItemsAssumption
<1>6. lock[s] = t <=> Lines[o][s] > 0
  BY <1>5
<1>7. Lines[o][s] \in Nat
  BY <1>1, LineNat
<1> QED BY <1>6, <1>7 DEF TxInv, RowsAreFresh

\* What the commit leaves of a row, if the session wrote it with these deltas or did not touch it.
LEMMA CommittedRow ==
    ASSUME TxInv, NEW t \in Tx, Commit(t), NEW s \in Skus, NEW d \in Int, NEW e \in Int,
           lock[s] = t => row[t][s] = Written(d, e, s), lock[s] # t => d = 0 /\ e = 0
    PROVE  /\ stock'[s] = stock[s] + d /\ reserved'[s] = reserved[s] + e
           /\ row[t][s].stockDelta = d /\ row[t][s].reservedDelta = e
<1>1. /\ stock'[s] = IF lock[s] = t THEN row[t][s].stock ELSE stock[s]
      /\ reserved'[s] = IF lock[s] = t THEN row[t][s].reserved ELSE reserved[s]
  BY DEF Commit
<1>2. stock[s] \in Nat /\ reserved[s] \in Nat
  BY DEF TxInv, TxTypeOK, StockTypeOK
<1>3. lock[s] # t => row[t][s] = NotWritten
  BY AtCommit DEF Commit
<1> QED BY <1>1, <1>2, <1>3 DEF Written, NotWritten

LEMMA CommitIsAService ==
    ASSUME TxInv, NEW t \in Tx, Commit(t)
    PROVE  StockNext
<1> DEFINE o == OrderOf(t)
<1>1. /\ Running(t) /\ ~LinesLeft(t)
      /\ stock' = [s \in Skus |-> IF lock[s] = t THEN row[t][s].stock ELSE stock[s]]
      /\ reserved' = [s \in Skus |-> IF lock[s] = t THEN row[t][s].reserved ELSE reserved[s]]
      /\ ledger' = [s \in Skus |-> [stock |-> ledger[s].stock + row[t][s].stockDelta,
                                    reserved |-> ledger[s].reserved + row[t][s].reservedDelta]]
      /\ sold' = IF call[t].service = "convert" THEN [sold EXCEPT ![o] = @ + 1] ELSE sold
      /\ restored' = IF call[t].service = "restore" THEN [restored EXCEPT ![o] = @ + 1] ELSE restored
  BY DEF Commit, Post
<1>2. o \in Orders /\ call[t].service \in Service
  BY <1>1, CallFacts DEF Session
<1>3. \A s \in Skus : Lines[o][s] \in Nat /\ stock[s] \in Nat /\ reserved[s] \in Nat
                      /\ ledger[s].stock \in Int /\ ledger[s].reserved \in Int
  BY <1>2, LineNat DEF TxInv, TxTypeOK, StockTypeOK
<1>4. stock = [s \in Skus |-> stock[s]] /\ reserved = [s \in Skus |-> reserved[s]]
  BY DEF TxInv, TxTypeOK, StockTypeOK
<1>5. \A s \in Skus : /\ lock[s] = t => row[t][s] = LineWrite(call[t].service, s, Lines[o][s])
                      /\ lock[s] # t => row[t][s] = NotWritten /\ Lines[o][s] = 0
                      /\ lock[s] = t <=> Lines[o][s] > 0
  BY <1>1, AtCommit
<1> HIDE DEF o
<1>6. CASE call[t].service = "reserve"
  <2>1. \A s \in Skus : lock[s] = t => row[t][s] = Written(0, Lines[o][s], s)
    BY <1>5, <1>6 DEF LineWrite
  <2>2. \A s \in Skus : /\ stock'[s] = stock[s] /\ reserved'[s] = reserved[s] + Lines[o][s]
                        /\ row[t][s].stockDelta = 0 /\ row[t][s].reservedDelta = Lines[o][s]
    <3> TAKE s \in Skus
    <3>1. /\ stock'[s] = stock[s] + 0 /\ reserved'[s] = reserved[s] + Lines[o][s]
          /\ row[t][s].stockDelta = 0 /\ row[t][s].reservedDelta = Lines[o][s]
      BY <1>3, <1>5, <2>1, CommittedRow
    <3> QED BY <1>3, <3>1
  <2>3. CanReserve(o)
    BY <1>5, <1>6 DEF CanReserve, TxInv, StillAvailable, o
  <2>4. stock' = stock /\ reserved' = [s \in Skus |-> reserved[s] + Lines[o][s]]
    BY <1>1, <1>4, <2>2
  <2>5. Post(Nothing, Lines[o])
    BY <1>1, <2>2 DEF Post, Nothing
  <2>6. sold' = sold /\ restored' = restored
    BY <1>1, <1>6
  <2> QED BY <1>2, <2>3, <2>4, <2>5, <2>6 DEF reserve_stock, StockNext
<1>7. CASE call[t].service = "release"
  <2>1. \A s \in Skus : lock[s] = t => row[t][s] = Written(0, -Lesser(Lines[o][s], reserved[s]), s)
    BY <1>5, <1>7 DEF LineWrite
  <2>2. \A s \in Skus : /\ stock'[s] = stock[s] /\ reserved'[s] = reserved[s] - Lesser(Lines[o][s], reserved[s])
                        /\ row[t][s].stockDelta = 0 /\ row[t][s].reservedDelta = -Lesser(Lines[o][s], reserved[s])
    <3> TAKE s \in Skus
    <3> DEFINE released == Lesser(Lines[o][s], reserved[s])
    <3>1. released \in Nat /\ (lock[s] # t => released = 0)
      BY <1>3, <1>5 DEF Lesser
    <3>2. lock[s] = t => row[t][s] = Written(0, -released, s)
      BY <2>1
    <3> HIDE DEF released
    <3>3. /\ stock'[s] = stock[s] + 0 /\ reserved'[s] = reserved[s] + -released
          /\ row[t][s].stockDelta = 0 /\ row[t][s].reservedDelta = -released
      BY <3>1, <3>2, CommittedRow
    <3>4. stock[s] + 0 = stock[s] /\ reserved[s] + -released = reserved[s] - released
      BY <1>3, <3>1
    <3> QED BY <3>3, <3>4 DEF released
  <2>4. stock' = stock /\ reserved' = [s \in Skus |-> reserved[s] - Lesser(Lines[o][s], reserved[s])]
    BY <1>1, <1>4, <2>2
  <2>5. Post(Nothing, [s \in Skus |-> -Lesser(Lines[o][s], reserved[s])])
    BY <1>1, <2>2 DEF Post, Nothing
  <2>6. sold' = sold /\ restored' = restored
    BY <1>1, <1>7
  <2> QED BY <1>2, <2>4, <2>5, <2>6 DEF release_reservation, StockNext
<1>8. CASE call[t].service = "convert"
  <2> DEFINE oversold(s) == stock[s] < Lines[o][s]
             gone(s)     == IF oversold(s) THEN -stock[s] ELSE -Lines[o][s]
             released(s) == -Lesser(Lines[o][s], reserved[s])
  <2>1. \A s \in Skus : lock[s] = t => row[t][s] = Written(-Lesser(Lines[o][s], stock[s]), released(s), s)
    BY <1>5, <1>8 DEF LineWrite
  <2>2. \A s \in Skus : -Lesser(Lines[o][s], stock[s]) = gone(s)
                        /\ gone(s) \in Int /\ released(s) \in Int
                        /\ (Lines[o][s] = 0 => gone(s) = 0 /\ released(s) = 0)
    <3> TAKE s \in Skus
    <3>1. Lines[o][s] \in Nat /\ stock[s] \in Nat /\ reserved[s] \in Nat
      BY <1>3
    <3> QED BY <3>1 DEF Lesser
  <2>3. \A s \in Skus : stock[s] + gone(s) = IF oversold(s) THEN 0 ELSE stock[s] - Lines[o][s]
    <3> TAKE s \in Skus
    <3>1. Lines[o][s] \in Nat /\ stock[s] \in Nat
      BY <1>3
    <3> QED BY <3>1
  <2> HIDE DEF gone, released
  <2>4. \A s \in Skus : /\ stock'[s] = stock[s] + gone(s) /\ reserved'[s] = reserved[s] + released(s)
                        /\ row[t][s].stockDelta = gone(s) /\ row[t][s].reservedDelta = released(s)
    <3> TAKE s \in Skus
    <3>1. lock[s] = t => row[t][s] = Written(gone(s), released(s), s)
      BY <2>1, <2>2
    <3>2. lock[s] # t => gone(s) = 0 /\ released(s) = 0
      BY <1>5, <2>2
    <3> QED BY <2>2, <3>1, <3>2, CommittedRow
  <2>5. /\ stock' = [s \in Skus |-> IF oversold(s) THEN 0 ELSE stock[s] - Lines[o][s]]
        /\ reserved' = [s \in Skus |-> reserved[s] + released(s)]
    BY <1>1, <2>3, <2>4
  <2>6. Post([s \in Skus |-> gone(s)], [s \in Skus |-> released(s)])
    BY <1>1, <2>4 DEF Post
  <2>7. sold' = [sold EXCEPT ![o] = @ + 1] /\ restored' = restored
    BY <1>1, <1>8
  <2>8. convert_reservation_to_sale(o)
    BY <2>5, <2>6, <2>7 DEF convert_reservation_to_sale, gone, released
  <2> QED BY <1>2, <2>8 DEF StockNext
<1>9. CASE call[t].service = "restore"
  <2>1. \A s \in Skus : lock[s] = t => row[t][s] = Written(Lines[o][s], 0, s)
    BY <1>5, <1>9 DEF LineWrite
  <2>2. \A s \in Skus : /\ stock'[s] = stock[s] + Lines[o][s] /\ reserved'[s] = reserved[s]
                        /\ row[t][s].stockDelta = Lines[o][s] /\ row[t][s].reservedDelta = 0
    <3> TAKE s \in Skus
    <3>1. /\ stock'[s] = stock[s] + Lines[o][s] /\ reserved'[s] = reserved[s] + 0
          /\ row[t][s].stockDelta = Lines[o][s] /\ row[t][s].reservedDelta = 0
      BY <1>3, <1>5, <2>1, CommittedRow
    <3> QED BY <1>3, <3>1
  <2>4. stock' = [s \in Skus |-> stock[s] + Lines[o][s]] /\ reserved' = reserved
    BY <1>1, <1>4, <2>2
  <2>5. Post(Lines[o], Nothing)
    BY <1>1, <2>2 DEF Post, Nothing
  <2>6. sold' = sold /\ restored' = [restored EXCEPT ![o] = @ + 1]
    BY <1>1, <1>9
  <2> QED BY <1>2, <2>4, <2>5, <2>6 DEF restore_stock_for_cancellation, StockNext
<1> QED BY <1>2, <1>6, <1>7, <1>8, <1>9 DEF Service

LEMMA CommitInv ==
    ASSUME TxInv, NEW t \in Tx, Commit(t)
    PROVE  TxInv'
<1>1. StockInv'
  BY CommitIsAService, TxInvStock, StockStepInv
<1>2. /\ EndCall(t) /\ calls' = calls
      /\ \A s \in Skus : lock[s] # t => stock'[s] = stock[s] /\ reserved'[s] = reserved[s]
  BY DEF Commit
<1> QED BY <1>1, <1>2, EndCallInv

LEMMA TxStepInv == TxInv /\ [TxNext]_sessionVars => TxInv'
<1> SUFFICES ASSUME TxInv, [TxNext]_sessionVars PROVE TxInv'
  OBVIOUS
<1>1. CASE UNCHANGED sessionVars
  <2>1. /\ lock' = lock /\ call' = call /\ row' = row /\ calls' = calls
        /\ stock' = stock /\ reserved' = reserved /\ ledger' = ledger /\ sold' = sold /\ restored' = restored
    BY <1>1 DEF sessionVars, txVars, stockVars
  <2>2. (StockTypeOK /\ LedgerSumsToCounters)'
    BY <2>1 DEF TxInv, TxTypeOK, StockTypeOK, LedgerSumsToCounters
  <2>5. TxTypeOK'
    BY <2>1, <2>2 DEF TxInv, TxTypeOK, Running, OrderOf
  <2>6. LinesInRange'
    BY <2>1 DEF TxInv, LinesInRange, Running, OrderOf
  <2>3. RowsAreFresh'
    <3> SUFFICES ASSUME NEW u \in Tx, NEW r \in Skus
                 PROVE  (row[u][r] = IF lock[r] = u THEN LineWrite(call[u].service, r, Lines[call[u].order][r]) ELSE NotWritten)'
      BY DEF RowsAreFresh, OrderOf
    <3>1. row[u][r] = IF lock[r] = u THEN LineWrite(call[u].service, r, Lines[call[u].order][r]) ELSE NotWritten
      BY DEF TxInv, RowsAreFresh, OrderOf
    <3> QED BY <2>1, <3>1 DEF LineWrite, Written, Lesser
  <2>4. StillAvailable'
    BY <2>1 DEF TxInv, StillAvailable, OrderOf, available_to_sell, Greater
  <2> QED BY <2>2, <2>3, <2>4, <2>5, <2>6 DEF TxInv
<1>2. ASSUME NEW t \in Tx, Refuse(t) \/ Disconnect(t) \/ DeadlockAbort(t) PROVE TxInv'
  BY <1>2, NothingWrittenInv DEF Refuse, Disconnect, DeadlockAbort
<1> QED BY <1>1, <1>2, BeginInv, LockLineInv, CommitInv, MoveOneRowInv DEF TxNext

-----------------------------------------------------------------------------
(* Theorems                                                                *)

LEMMA TxInvHolds == TxSpec => []TxInv
BY TxInitInv, TxStepInv, PTL DEF TxSpec

\* The type invariant: a session holds the locks of exactly the lines it has passed, for any number
\* of sessions and orders (the loops over order.items in inventory/services.py).
THEOREM LocksFollowTheLines == TxSpec => []TxTypeOK
<1>1. TxInv => TxTypeOK
  BY DEF TxInv
<1> QED BY <1>1, TxInvHolds, PTL

\* Row by row and lock by lock, with refusals, broken connections and deadlocks on the way, the stock
\* services are as good as atomic (inventory/services.py, 1-6): whatever the orders and the order of
\* their items, every step leaves the committed rows alone or is one whole call of StockLedger.
THEOREM TransactionsImplementTheLedger == TxSpec => ImplementsStockLedger
<1>1. TxInit => StockInit
  BY DEF TxInit
<1>2. TxInv /\ [TxNext]_sessionVars => [StockNext]_stockVars
  <2> SUFFICES ASSUME TxInv, [TxNext]_sessionVars PROVE StockNext \/ UNCHANGED stockVars
    OBVIOUS
  <2>1. CASE UNCHANGED sessionVars
    BY <2>1 DEF sessionVars
  <2>2. CASE \E t \in Tx : \/ \E service \in Service, o \in Orders : Begin(t, service, o)
                           \/ LockLine(t) \/ Refuse(t) \/ Disconnect(t) \/ DeadlockAbort(t)
    BY <2>2 DEF Begin, LockLine, Refuse, Disconnect, DeadlockAbort
  <2> QED BY <2>1, <2>2, CommitIsAService, MoveOneRowInv DEF TxNext
<1> QED BY <1>1, <1>2, TxInvHolds, PTL DEF TxSpec, StockSpec, ImplementsStockLedger

\* So what is proved of the services holds of the rows they commit: the counters stay natural and the
\* StockMovement rows sum to them.
THEOREM CommittedRowsAddUp == TxSpec => []LedgerSumsToCounters
<1>1. TxInv => LedgerSumsToCounters
  BY DEF TxInv
<1> QED BY <1>1, TxInvHolds, PTL
=============================================================================
