-------------------------- MODULE StockLedgerProofs --------------------------
(***************************************************************************)
(* Proofs about StockLedger, for every set of skus and orders, every       *)
(* quantity and every sequence of service calls.                           *)
(***************************************************************************)
EXTENDS StockLedger, TLAPS

\* Both invariants at once: the clamps keep the counters natural, and the movement posted beside
\* a counter moves the ledger by as much.
StockInv == StockTypeOK /\ LedgerSumsToCounters

\* The helpers return one of their arguments.
LEMMA LesserGreater ==
    ASSUME NEW a \in Int, NEW b \in Int
    PROVE  /\ Lesser(a, b) \in {a, b} /\ Lesser(a, b) <= a /\ Lesser(a, b) <= b
           /\ Greater(a, b) \in {a, b} /\ Greater(a, b) >= a /\ Greater(a, b) >= b
BY DEF Lesser, Greater

\* An order line is a natural number.
LEMMA LineNat ==
    ASSUME NEW o \in Orders, NEW s \in Skus
    PROVE  Lines[o][s] \in Nat
BY LinesAssumption

\* What a release or a sale takes out of the reserved counter is covered by it.
LEMMA ReleasedIsReserved ==
    ASSUME StockTypeOK, NEW o \in Orders
    PROVE  \A s \in Skus : /\ Lesser(Lines[o][s], reserved[s]) \in Nat
                           /\ Lesser(Lines[o][s], reserved[s]) <= reserved[s]
<1> TAKE s \in Skus
<1>1. Lines[o][s] \in Nat /\ reserved[s] \in Nat
  BY LineNat DEF StockTypeOK
<1> QED BY <1>1 DEF Lesser

LEMMA StockInitInv == StockInit => StockInv
BY InitialStockAssumption DEF StockInit, StockInv, StockTypeOK, LedgerSumsToCounters

-----------------------------------------------------------------------------
(* Each service function keeps the invariant                               *)

LEMMA ReserveInv ==
    ASSUME StockInv, NEW o \in Orders, reserve_stock(o)
    PROVE  StockInv'
<1> USE LineNat DEF StockInv, StockTypeOK, LedgerSumsToCounters
<1>1. StockTypeOK'
  BY DEF reserve_stock, Post, Nothing
<1>2. LedgerSumsToCounters'
  BY InitialStockAssumption DEF reserve_stock, Post, Nothing
<1> QED BY <1>1, <1>2

LEMMA ReleaseInv ==
    ASSUME StockInv, NEW o \in Orders, release_reservation(o)
    PROVE  StockInv'
<1> USE LineNat DEF StockInv, StockTypeOK, LedgerSumsToCounters
<1>1. \A s \in Skus : Lesser(Lines[o][s], reserved[s]) \in Nat /\ Lesser(Lines[o][s], reserved[s]) <= reserved[s]
  BY ReleasedIsReserved
<1>2. StockTypeOK'
  BY <1>1 DEF release_reservation, Post, Nothing
<1>3. LedgerSumsToCounters'
  BY <1>1, InitialStockAssumption DEF release_reservation, Post, Nothing
<1> QED BY <1>2, <1>3

LEMMA ConvertInv ==
    ASSUME StockInv, NEW o \in Orders, convert_reservation_to_sale(o)
    PROVE  StockInv'
<1> USE LineNat DEF StockInv, StockTypeOK, LedgerSumsToCounters
<1>1. \A s \in Skus : Lesser(Lines[o][s], reserved[s]) \in Nat /\ Lesser(Lines[o][s], reserved[s]) <= reserved[s]
  BY ReleasedIsReserved
<1>2. StockTypeOK'
  BY <1>1 DEF convert_reservation_to_sale, Post
<1>3. LedgerSumsToCounters'
  BY <1>1, InitialStockAssumption DEF convert_reservation_to_sale, Post
<1> QED BY <1>2, <1>3

LEMMA RestoreInv ==
    ASSUME StockInv, NEW o \in Orders, restore_stock_for_cancellation(o)
    PROVE  StockInv'
<1> USE LineNat DEF StockInv, StockTypeOK, LedgerSumsToCounters
<1>1. StockTypeOK'
  BY DEF restore_stock_for_cancellation, Post, Nothing
<1>2. LedgerSumsToCounters'
  BY InitialStockAssumption DEF restore_stock_for_cancellation, Post, Nothing
<1> QED BY <1>1, <1>2

LEMMA RestockInv ==
    ASSUME StockInv, Restock
    PROVE  StockInv'
<1> USE QuantitiesAssumption DEF StockInv, StockTypeOK, LedgerSumsToCounters
<1>1. PICK s \in Skus, q \in RestockQuantities : record_restock(s, q)
  BY DEF Restock
<1>2. StockTypeOK'
  BY <1>1 DEF record_restock, Post, Nothing, Only
<1>3. LedgerSumsToCounters'
  <2> SUFFICES ASSUME NEW t \in Skus
               PROVE  /\ stock'[t] = InitialStock[t] + ledger'[t].stock
                      /\ reserved'[t] = ledger'[t].reserved
    OBVIOUS
  <2>1. ledger'[t] = [stock |-> ledger[t].stock + (IF t = s THEN q ELSE 0), reserved |-> ledger[t].reserved]
    BY <1>1 DEF record_restock, Post, Nothing, Only
  <2>2. stock'[t] = stock[t] + (IF t = s THEN q ELSE 0) /\ reserved' = reserved
    BY <1>1 DEF record_restock
  <2> QED BY <2>1, <2>2, InitialStockAssumption
<1> QED BY <1>2, <1>3

LEMMA AdjustInv ==
    ASSUME StockInv, Adjust
    PROVE  StockInv'
<1> USE QuantitiesAssumption DEF StockInv, StockTypeOK, LedgerSumsToCounters
<1>1. PICK s \in Skus, d \in AdjustDeltas : record_adjustment(s, d)
  BY DEF Adjust
<1>2. Greater(stock[s] + d, 0) \in Nat
  BY LesserGreater
<1>3. StockTypeOK'
  BY <1>1, <1>2 DEF record_adjustment, Post, Nothing, Only
<1>4. LedgerSumsToCounters'
  <2> DEFINE applied == Greater(stock[s] + d, 0) - stock[s]
  <2> SUFFICES ASSUME NEW t \in Skus
               PROVE  /\ stock'[t] = InitialStock[t] + ledger'[t].stock
                      /\ reserved'[t] = ledger'[t].reserved
    OBVIOUS
  <2>1. applied \in Int
    BY <1>2
  <2>2. ledger'[t] = [stock |-> ledger[t].stock + (IF t = s THEN applied ELSE 0),
                      reserved |-> ledger[t].reserved]
    BY <1>1, <1>2 DEF record_adjustment, Post, Nothing, Only
  <2>3. stock'[t] = stock[t] + (IF t = s THEN applied ELSE 0) /\ reserved' = reserved
    BY <1>1, <1>2 DEF record_adjustment
  <2> HIDE DEF applied
  <2> QED BY <2>1, <2>2, <2>3, InitialStockAssumption
<1> QED BY <1>3, <1>4

LEMMA StockStepInv == StockInv /\ [StockNext]_stockVars => StockInv'
<1> SUFFICES ASSUME StockInv, [StockNext]_stockVars
             PROVE  StockInv'
  OBVIOUS
<1>1. CASE StockNext
  BY <1>1, ReserveInv, ReleaseInv, ConvertInv, RestoreInv, RestockInv, AdjustInv DEF StockNext
<1>2. CASE UNCHANGED stockVars
  BY <1>2 DEF stockVars, StockInv, StockTypeOK, LedgerSumsToCounters
<1> QED BY <1>1, <1>2

-----------------------------------------------------------------------------
(* Theorems                                                                *)

\* Whatever calls are made and in whatever order, neither PositiveIntegerField of a stock row
\* goes negative, and the StockMovement rows sum to both of them (inventory/services.py; the
\* comment on the delta fields in inventory/models.py).
THEOREM StockLedgerCorrect == StockSpec => [](StockTypeOK /\ LedgerSumsToCounters)
<1>1. StockSpec => []StockInv
  BY StockInitInv, StockStepInv, PTL DEF StockSpec
<1> QED BY <1>1, PTL DEF StockInv

\* Only a manual correction leaves more units of a sku promised than there are.
LEMMA CountersStayOrdered ==
    ASSUME StockInv, StockNext, NEW s \in Skus, reserved[s] <= stock[s]
    PROVE  reserved'[s] <= stock'[s] \/ Adjust
<1> USE LineNat DEF StockInv, StockTypeOK
<1>1. ASSUME NEW o \in Orders, reserve_stock(o)
      PROVE  reserved'[s] <= stock'[s]
  <2>1. CASE Lines[o][s] = 0
    BY <1>1, <2>1 DEF reserve_stock
  <2>2. CASE Lines[o][s] > 0
    <3>1. Lines[o][s] <= Greater(stock[s] - reserved[s], 0)
      BY <1>1, <2>2 DEF reserve_stock, CanReserve, available_to_sell
    <3> QED BY <1>1, <2>2, <3>1 DEF reserve_stock, Greater
  <2> QED BY <2>1, <2>2
<1>2. ASSUME NEW o \in Orders, release_reservation(o)
      PROVE  reserved'[s] <= stock'[s]
  BY <1>2 DEF release_reservation, Lesser
<1>3. ASSUME NEW o \in Orders, convert_reservation_to_sale(o)
      PROVE  reserved'[s] <= stock'[s]
  BY <1>3 DEF convert_reservation_to_sale, Lesser
<1>4. ASSUME NEW o \in Orders, restore_stock_for_cancellation(o)
      PROVE  reserved'[s] <= stock'[s]
  BY <1>4 DEF restore_stock_for_cancellation
<1>5. CASE Restock
  BY <1>5, QuantitiesAssumption DEF Restock, record_restock
<1> QED BY <1>1, <1>2, <1>3, <1>4, <1>5 DEF StockNext

\* No sequence of checkouts, captures, releases, cancellations and deliveries promises more units
\* of a sku to open checkouts than there are on the shelf; only a manual correction does.
THEOREM NoOversellByServices == StockSpec => OverReservedOnlyByAdjustment
<1>1. StockInv /\ [StockNext]_stockVars
      => [\A s \in Skus : reserved[s] <= stock[s] => (reserved'[s] <= stock'[s] \/ Adjust)]_stockVars
  BY CountersStayOrdered
<1> QED BY <1>1, StockInitInv, StockStepInv, PTL DEF StockSpec, OverReservedOnlyByAdjustment
=============================================================================
