-------------------------- MODULE StockTransactions --------------------------
(***************************************************************************)
(* The order-wide functions of inventory/services.py as PostgreSQL runs    *)
(* them: one row lock per line, taken in the order of the order's items,   *)
(* each row read after its lock is granted, all writes visible at the      *)
(* commit.  Two orders that name the same skus in opposite orders can wait *)
(* for each other; the database ends that by rolling one of them back.     *)
(*                                                                         *)
(* The committed rows are the variables of StockLedger, and StockSpec is   *)
(* what this module must implement: it is the licence to write the         *)
(* services as single actions everywhere else.                             *)
(***************************************************************************)
EXTENDS StockLedger, Sequences

CONSTANTS
    Tx,         \* database sessions
    NoTx,       \* the holder of a free row
    OrderItems,      \* OrderItems[o]: the skus of order o in the order its items are read
    MaxCalls    \* bound: service calls in one run

ASSUME OrderItemsAssumption ==
    \A o \in Orders :
        /\ OrderItems[o] \in Seq(Skus)
        /\ {OrderItems[o][i] : i \in DOMAIN OrderItems[o]} = {s \in Skus : Lines[o][s] > 0}
        /\ \A i, j \in DOMAIN OrderItems[o] : OrderItems[o][i] = OrderItems[o][j] => i = j
ASSUME TxAssumption == NoTx \notin Tx /\ MaxCalls \in Nat

VARIABLES
    lock,   \* the session that holds each row
    call,   \* what each session is running: the function, the order, the next line
    row,    \* row[t][s]: what t has written to a row it holds, and the movement it has inserted
    calls   \* how many calls have begun

txVars == <<lock, call, row, calls>>
sessionVars == <<stockVars, txVars>>

Service == {"reserve", "release", "convert", "restore"}
NoCall == [service |-> "none", line |-> 0]
NotWritten == [stock |-> 0, reserved |-> 0, stockDelta |-> 0, reservedDelta |-> 0]

Running(t) == call[t] # NoCall
OrderOf(t) == call[t].order
LinesLeft(t) == call[t].line <= Len(OrderItems[OrderOf(t)])
NextSku(t) == OrderItems[OrderOf(t)][call[t].line]

TxInit ==
    /\ StockInit
    /\ lock = [s \in Skus |-> NoTx]
    /\ call = [t \in Tx |-> NoCall]
    /\ row = [t \in Tx |-> [s \in Skus |-> NotWritten]]
    /\ calls = 0

-----------------------------------------------------------------------------
(* One pass of the loop over order.items, on a row just locked and read    *)

\* the row that is saved and the two deltas of its StockMovement
Written(stockDelta, reservedDelta, s) ==
    [stock |-> stock[s] + stockDelta, reserved |-> reserved[s] + reservedDelta,
     stockDelta |-> stockDelta, reservedDelta |-> reservedDelta]

\* Mutant of LineWrite: a release or a sale takes the whole quantity out of the reserved counter.
LineWriteUnclamped(service, s, quantity) ==
    CASE service = "reserve" -> Written(0, quantity, s)
      [] service = "release" -> Written(0, -quantity, s)
      [] service = "convert" -> Written(-Lesser(quantity, stock[s]), -quantity, s)
      [] service = "restore" -> Written(quantity, 0, s)

LineWrite(service, s, quantity) ==
    CASE service = "reserve" -> Written(0, quantity, s)
      [] service = "release" -> Written(0, -Lesser(quantity, reserved[s]), s)
      [] service = "convert" -> Written(-Lesser(quantity, stock[s]), -Lesser(quantity, reserved[s]), s)
      [] service = "restore" -> Written(quantity, 0, s)

EndCall(t) ==
    /\ lock' = [s \in Skus |-> IF lock[s] = t THEN NoTx ELSE lock[s]]
    /\ call' = [call EXCEPT ![t] = NoCall]
    /\ row' = [row EXCEPT ![t] = [s \in Skus |-> NotWritten]]

Begin(t, service, o) ==
    /\ ~Running(t)
    /\ calls < MaxCalls
    /\ calls' = calls + 1
    /\ call' = [call EXCEPT ![t] = [service |-> service, order |-> o, line |-> 1]]
    /\ UNCHANGED <<stockVars, lock, row>>

\* Mutant of Granted: the row is read with a plain get().
GrantedAtOnce(t) == TRUE

\* select_for_update().get(): granted once the row is free, and the row is read then
Granted(t) == lock[NextSku(t)] = NoTx

ShortLine(t) ==
    LET s == NextSku(t)
    IN  call[t].service = "reserve" /\ available_to_sell(s) < Lines[OrderOf(t)][s]

LockLine(t) ==
    /\ Running(t) /\ LinesLeft(t)
    /\ Granted(t)
    /\ ~ShortLine(t)
    /\ LET s == NextSku(t)
       IN  /\ lock' = [lock EXCEPT ![s] = t]
           /\ row' = [row EXCEPT ![t][s] = LineWrite(call[t].service, s, Lines[OrderOf(t)][s])]
    /\ call' = [call EXCEPT ![t].line = @ + 1]
    /\ UNCHANGED <<stockVars, calls>>

\* Mutant of Refuse: a call that finds too little stock waits for more instead of failing.
RefuseNever(t) == FALSE

\* InsufficientStockError: the transaction is rolled back, nothing stays reserved
Refuse(t) ==
    /\ Running(t) /\ LinesLeft(t)
    /\ Granted(t)
    /\ ShortLine(t)
    /\ EndCall(t)
    /\ UNCHANGED <<stockVars, calls>>

Commit(t) ==
    /\ Running(t) /\ ~LinesLeft(t)
    /\ stock' = [s \in Skus |-> IF lock[s] = t THEN row[t][s].stock ELSE stock[s]]
    /\ reserved' = [s \in Skus |-> IF lock[s] = t THEN row[t][s].reserved ELSE reserved[s]]
    /\ Post([s \in Skus |-> row[t][s].stockDelta], [s \in Skus |-> row[t][s].reservedDelta])
    /\ sold' = IF call[t].service = "convert" THEN [sold EXCEPT ![OrderOf(t)] = @ + 1] ELSE sold
    /\ restored' = IF call[t].service = "restore" THEN [restored EXCEPT ![OrderOf(t)] = @ + 1] ELSE restored
    /\ EndCall(t)
    /\ UNCHANGED calls

\* the worker or its connection dies
Disconnect(t) ==
    /\ Running(t)
    /\ EndCall(t)
    /\ UNCHANGED <<stockVars, calls>>

\* PostgreSQL's deadlock detector: some sessions all wait for rows that they hold themselves
InDeadlock(t) ==
    \E C \in SUBSET Tx :
        /\ t \in C
        /\ \A u \in C : Running(u) /\ LinesLeft(u) /\ lock[NextSku(u)] \in C

DeadlockAbort(t) ==
    /\ InDeadlock(t)
    /\ EndCall(t)
    /\ UNCHANGED <<stockVars, calls>>

\* record_restock and record_adjustment lock one row and commit: they wait for it, no more
MoveOneRow ==
    /\ calls < MaxCalls
    /\ calls' = calls + 1
    /\ \E s \in Skus :
        /\ lock[s] = NoTx
        /\ \/ \E q \in RestockQuantities : record_restock(s, q)
           \/ \E d \in AdjustDeltas : record_adjustment(s, d)
    /\ UNCHANGED <<lock, call, row>>

Progress(t) == LockLine(t) \/ Refuse(t) \/ Commit(t)

TxNext ==
    \/ \E t \in Tx :
        \/ \E service \in Service, o \in Orders : Begin(t, service, o)
        \/ LockLine(t)
        \/ Refuse(t)
        \/ Commit(t)
        \/ Disconnect(t)
        \/ DeadlockAbort(t)
    \/ MoveOneRow

\* A session that can go on does, and the deadlock detector runs; connections need not break.
TxFairness == \A t \in Tx : WF_sessionVars(Progress(t)) /\ WF_sessionVars(DeadlockAbort(t))

TxSpec == TxInit /\ [][TxNext]_sessionVars /\ TxFairness

-----------------------------------------------------------------------------
(* Properties                                                              *)

\* The type invariant; a session holds exactly the rows of the lines it has passed.
TxTypeOK ==
    /\ StockTypeOK
    /\ lock \in [Skus -> Tx \union {NoTx}]
    /\ call \in [Tx -> {NoCall} \union
                       [service : Service, order : Orders, line : Nat \ {0}]]
    /\ row \in [Tx -> [Skus -> [stock : Int, reserved : Int, stockDelta : Int, reservedDelta : Int]]]
    /\ calls \in 0..MaxCalls
    /\ \A t \in Tx : {s \in Skus : lock[s] = t} =
            IF Running(t) THEN {OrderItems[OrderOf(t)][i] : i \in 1..(call[t].line - 1)} ELSE {}

\* With a lock per row the functions are as good as atomic: what is committed is what some
\* sequence of whole calls would have left, no line of a refused or broken call remains, and
\* checkouts that race for the last unit cannot both have it (inventory/services.py, 1-6).
ImplementsStockLedger == StockSpec

\* No call holds its rows for ever, although nothing makes orders name their skus in the same
\* order.
EveryCallEnds == \A t \in Tx : []<>(~Running(t))
=============================================================================
