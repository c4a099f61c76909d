---------------------------- MODULE BackOfficeProofs ----------------------------
(***************************************************************************)
(* Proofs about what staff and the background tasks do beside orders and   *)
(* payments (numbers, purchase orders, shipments, mail, notices), and then *)
(* about the back office as a whole: what holds of a part holds beside the *)
(* others.  For any number of writers, orders, suppliers, years, products, *)
(* receivers, shippers, letters, workers and officers.                     *)
(***************************************************************************)
EXTENDS BackOffice, CustomersProofs, StockTransactionsProofs

-----------------------------------------------------------------------------
(* The numbers of invoices and purchase orders                             *)

Num(y, n) == [year |-> y, number |-> n]

\* a number that was given out in its year
Given(x) == x.year \in 1..Years /\ x.number \in 1..lastNumber[x.year]

Creating(w) == Writing(w, "create")

\* A number is with one invoice, or one writer, or wasted.
NumbersApart ==
    /\ \A o, p \in PaidOrders : Invoiced(o) /\ Invoiced(p) /\ o # p => invoice[o] # invoice[p]
    /\ \A v, w \in Writers : Creating(v) /\ Creating(w) /\ v # w => Taken(v) # Taken(w)
    /\ \A o \in PaidOrders, w \in Writers : Invoiced(o) /\ Creating(w) => invoice[o] # Taken(w)
    /\ \A o \in PaidOrders : Invoiced(o) => invoice[o] \notin wasted
    /\ \A w \in Writers : Creating(w) => Taken(w) \notin wasted

\* Every number that is anywhere was given out, and is for an order.
NumbersGiven ==
    /\ \A o \in PaidOrders : Invoiced(o) => Given(invoice[o])
    /\ \A w \in Writers : Creating(w) => Given(Taken(w))
    /\ \A w \in Writers : Creating(w) \/ Writing(w, "number") => writer[w].for \in PaidOrders
    /\ \A x \in wasted : Given(x)

\* Every number that was given out is somewhere.
NumbersKept ==
    \A y \in 1..Years : \A n \in 1..lastNumber[y] :
        \/ Num(y, n) \in wasted
        \/ \E o \in PaidOrders : Invoiced(o) /\ invoice[o] = Num(y, n)
        \/ \E w \in Writers : Creating(w) /\ Taken(w) = Num(y, n)

\* One writer at a time makes a purchase order, and its number is the next one.
PurchaseOrdersInLine ==
    /\ \A w \in Writers : Writing(w, "lines") =>
        /\ writer[w].for \in Suppliers /\ poNumber[writer[w].for] = 0
        /\ writer[w].number = poLast + 1
        /\ \A v \in Writers : Writing(v, "lines") => v = w
    /\ \A s \in Suppliers : poNumber[s] \in 0..poLast
    /\ \A s, t \in Suppliers : s # t /\ poNumber[s] = poNumber[t] => poNumber[s] = 0
    /\ \A n \in 1..poLast : \E s \in Suppliers : poNumber[s] = n

NumbersInv == NumbersTypeOK /\ NumbersApart /\ NumbersGiven /\ NumbersKept /\ PurchaseOrdersInLine

NumbersWriter == [step : {"idle", "number", "create", "lines"},
                  for : {"nobody"} \union PaidOrders \union Suppliers, year : 1..Years, number : Nat]

LEMMA AtRestIsWriter == AtRest \in NumbersWriter
BY NumbersAssumption DEF AtRest, NumbersWriter

LEMMA NumbersInitInv == NumbersInit => NumbersInv
<1> SUFFICES ASSUME NumbersInit PROVE NumbersInv
  OBVIOUS
<1> USE NumbersAssumption DEF NumbersInit
<1>1. NumbersTypeOK
  BY AtRestIsWriter DEF NumbersTypeOK, NumbersWriter, Unnumbered
<1>2. (\A o \in PaidOrders : ~Invoiced(o)) /\ \A w \in Writers : Writing(w, "idle")
  BY DEF Invoiced, Unnumbered, Writing, AtRest
<1>3. NumbersApart /\ NumbersGiven /\ NumbersKept
  BY <1>2 DEF NumbersApart, NumbersGiven, NumbersKept, Creating, Writing
<1>4. PurchaseOrdersInLine
  BY <1>2 DEF PurchaseOrdersInLine, Writing
<1> QED BY <1>1, <1>3, <1>4 DEF NumbersInv

-----------------------------------------------------------------------------
(* Every action keeps the invariant                                        *)

\* Steps of one writer that touch no number.
LEMMA QuietWriter ==
    ASSUME NumbersInv, UNCHANGED <<lastNumber, invoice, poNumber, poLast, wasted>>,
           NEW w \in Writers, ~Creating(w), writer' \in [Writers -> NumbersWriter],
           \A v \in Writers \ {w} : writer'[v] = writer[v],
           writer'[w].step \in {"idle", "number", "lines"},
           writer'[w].step = "number" => writer'[w].for \in PaidOrders,
           writer'[w].step = "lines" =>
                /\ writer'[w].for \in Suppliers /\ poNumber[writer'[w].for] = 0
                /\ writer'[w].number = poLast + 1
                /\ \A v \in Writers : ~Writing(v, "lines")
    PROVE  NumbersApart' /\ NumbersGiven' /\ NumbersKept' /\ PurchaseOrdersInLine'
<1> USE DEF NumbersInv
<1>1. \A v \in Writers : Creating(v)' <=> Creating(v)
  BY DEF Creating, Writing
<1>2. \A v \in Writers : Creating(v) => Taken(v)' = Taken(v)
  BY DEF Taken
<1>3. NumbersApart'
  BY <1>1, <1>2 DEF NumbersApart, Invoiced
<1>4. NumbersGiven'
  BY <1>1, <1>2 DEF NumbersGiven, Invoiced, Given, Writing
<1>5. NumbersKept'
  BY <1>1, <1>2 DEF NumbersKept, Invoiced
<1>6. PurchaseOrdersInLine'
  BY DEF PurchaseOrdersInLine, Writing
<1> QED BY <1>3, <1>4, <1>5, <1>6

LEMMA LookForInvoiceInv ==
    ASSUME NumbersInv, NEW w \in Writers, LookForInvoice(w)
    PROVE  NumbersInv'
<1>1. PICK o \in PaidOrders :
        /\ Writing(w, "idle")
        /\ writer' = [writer EXCEPT ![w] = [AtRest EXCEPT !.step = "number", !.for = o]]
  BY DEF LookForInvoice
<1>2. [AtRest EXCEPT !.step = "number", !.for = o] \in NumbersWriter
  BY AtRestIsWriter DEF NumbersWriter
<1>3. writer' \in [Writers -> NumbersWriter]
  BY <1>1, <1>2 DEF NumbersInv, NumbersTypeOK, NumbersWriter
<1>4. writer'[w].step = "number" /\ writer'[w].for = o
  BY <1>1 DEF NumbersInv, NumbersTypeOK, AtRest
<1>5. NumbersTypeOK'
  BY <1>3 DEF LookForInvoice, NumbersInv, NumbersTypeOK, NumbersWriter
<1>6. ~Creating(w) /\ \A v \in Writers \ {w} : writer'[v] = writer[v]
  BY <1>1 DEF Creating, Writing
<1> QED BY <1>3, <1>4, <1>5, <1>6, QuietWriter DEF LookForInvoice, NumbersInv

LEMMA NextInvoiceNumberInv ==
    ASSUME NumbersInv, NEW w \in Writers, _next_invoice_number(w)
    PROVE  NumbersInv'
<1> USE DEF NumbersInv
<1>1. UNCHANGED <<year, invoice, poNumber, poLast, wasted, writersLost>> /\ Writing(w, "number")
  BY DEF _next_invoice_number
<1>2. PICK this \in 1..Years, n \in Nat :
        /\ year = this /\ lastNumber[this] \in Nat /\ n = lastNumber[this] + 1 /\ lastNumber'[this] = n
        /\ lastNumber' \in [1..Years -> Nat]
        /\ \A y \in 1..Years : y # this => lastNumber'[y] = lastNumber[y]
  BY DEF _next_invoice_number, NumbersTypeOK
<1>3. [writer[w] EXCEPT !.step = "create", !.year = this, !.number = n] \in NumbersWriter
  BY <1>2 DEF NumbersTypeOK, NumbersWriter
<1>4. writer' = [writer EXCEPT ![w] = [writer[w] EXCEPT !.step = "create", !.year = this, !.number = n]]
  BY <1>2 DEF _next_invoice_number, NumbersTypeOK
<1>5. writer' \in [Writers -> NumbersWriter] /\ \A v \in Writers \ {w} : writer'[v] = writer[v]
  BY <1>3, <1>4 DEF NumbersTypeOK, NumbersWriter
<1>6. writer'[w].step = "create" /\ Taken(w)' = Num(this, n) /\ writer'[w].for = writer[w].for
  BY <1>4 DEF NumbersTypeOK, Taken, Num
<1>7. \A v \in Writers \ {w} : (Creating(v)' <=> Creating(v)) /\ Taken(v)' = Taken(v)
  BY <1>5 DEF Creating, Writing, Taken
<1>8. ~Creating(w) /\ Creating(w)'
  BY <1>1, <1>6 DEF Creating, Writing
<1>9. NumbersTypeOK'
  BY <1>1, <1>2, <1>5 DEF NumbersTypeOK, NumbersWriter
<1>10. ~Given(Num(this, n)) /\ Given(Num(this, n))'
  BY <1>1, <1>2 DEF Given, Num
<1>11. \A y \in 1..Years : 1..lastNumber[y] \subseteq 1..lastNumber'[y]
  BY <1>2 DEF NumbersTypeOK
<1>12. NumbersApart'
  BY <1>1, <1>6, <1>7, <1>8, <1>10 DEF NumbersApart, NumbersGiven, Invoiced
<1>13. NumbersGiven'
  <2>1. \A v \in Writers : Creating(v)' => Given(Taken(v))'
    BY <1>6, <1>7, <1>10, <1>11 DEF NumbersGiven, Given
  <2>2. \A v \in Writers : (Creating(v) \/ Writing(v, "number"))' => writer'[v].for \in PaidOrders
    BY <1>1, <1>5, <1>6 DEF NumbersGiven, Writing, Creating
  <2>3. \A o \in PaidOrders : Invoiced(o)' => Given(invoice[o])'
    BY <1>1, <1>11 DEF NumbersGiven, Given, Invoiced
  <2>4. \A x \in wasted' : Given(x)'
    BY <1>1, <1>11 DEF NumbersGiven, Given
  <2> QED BY <2>1, <2>2, <2>3, <2>4 DEF NumbersGiven
<1>14. NumbersKept'
  <2> SUFFICES ASSUME NEW y \in 1..Years, NEW m \in 1..lastNumber'[y]
               PROVE  \/ Num(y, m) \in wasted
                      \/ \E o \in PaidOrders : Invoiced(o)' /\ invoice'[o] = Num(y, m)
                      \/ \E v \in Writers : Creating(v)' /\ Taken(v)' = Num(y, m)
    BY <1>1 DEF NumbersKept
  <2>1. CASE y = this /\ m = n
    BY <2>1, <1>6, <1>8
  <2>2. CASE m \in 1..lastNumber[y]
    BY <2>2, <1>1, <1>7, <1>8 DEF NumbersKept, Invoiced
  <2>3. (y = this /\ m = n) \/ m \in 1..lastNumber[y]
    BY <1>2
  <2> QED BY <2>1, <2>2, <2>3
<1>15. PurchaseOrdersInLine'
  BY <1>1, <1>5, <1>6 DEF PurchaseOrdersInLine, Writing
<1> QED BY <1>9, <1>12, <1>13, <1>14, <1>15

\* A writer puts a number down: in the invoice of its order, or among the wasted ones.
LEMMA PutDownInv ==
    ASSUME NumbersInv, NEW w \in Writers, Creating(w), PutDown(w),
           UNCHANGED <<year, lastNumber, poNumber, poLast>>,
           writersLost' \in 0..MaxWritersLost,
           \/ ~Invoiced(writer[w].for) /\ UNCHANGED wasted
              /\ invoice' = [invoice EXCEPT ![writer[w].for] = Taken(w)]
           \/ UNCHANGED invoice /\ wasted' = wasted \union {Taken(w)}
    PROVE  NumbersInv'
<1> USE DEF NumbersInv
<1>0. Given(Taken(w)) /\ Taken(w).number > 0
  BY DEF NumbersGiven, Given, Taken, NumbersTypeOK
<1>1. PICK o \in PaidOrders : o = writer[w].for
  BY DEF NumbersGiven
<1>2. writer' \in [Writers -> NumbersWriter] /\ (\A v \in Writers \ {w} : writer'[v] = writer[v])
      /\ writer'[w].step = "idle"
  BY AtRestIsWriter DEF PutDown, NumbersTypeOK, NumbersWriter, AtRest
<1>3. /\ ~Creating(w)'
      /\ \A v \in Writers \ {w} : (Creating(v)' <=> Creating(v)) /\ Taken(v)' = Taken(v)
  BY <1>2 DEF Creating, Writing, Taken
<1>4. Taken(w) \in [year : 1..Years, number : Nat]
  BY DEF NumbersTypeOK, Taken
<1>5. NumbersTypeOK'
  <2>1. /\ invoice' \in [PaidOrders -> [year : 1..Years, number : Nat]]
        /\ wasted' \subseteq [year : 1..Years, number : Nat]
    BY <1>1, <1>4 DEF NumbersTypeOK
  <2> QED BY <1>2, <2>1 DEF NumbersTypeOK, NumbersWriter
<1>6. PurchaseOrdersInLine'
  BY <1>2 DEF PurchaseOrdersInLine, Writing
<1>7. CASE ~Invoiced(o) /\ UNCHANGED wasted /\ invoice' = [invoice EXCEPT ![o] = Taken(w)]
  <2>1. invoice'[o] = Taken(w) /\ \A p \in PaidOrders \ {o} : invoice'[p] = invoice[p]
    BY <1>1, <1>7 DEF NumbersTypeOK
  <2>2. Invoiced(o)' /\ \A p \in PaidOrders \ {o} : Invoiced(p)' <=> Invoiced(p)
    BY <1>0, <1>1, <2>1 DEF Invoiced
  <2>3. NumbersApart'
    BY <1>1, <1>3, <1>7, <2>1, <2>2 DEF NumbersApart
  <2>4. NumbersGiven'
    BY <1>0, <1>1, <1>2, <1>3, <1>7, <2>1, <2>2 DEF NumbersGiven, Given, Writing
  <2>5. NumbersKept'
    BY <1>1, <1>3, <1>7, <2>1, <2>2 DEF NumbersKept
  <2> QED BY <1>5, <1>6, <2>3, <2>4, <2>5
<1>8. CASE UNCHANGED invoice /\ wasted' = wasted \union {Taken(w)}
  <2>1. NumbersApart'
    BY <1>3, <1>8 DEF NumbersApart, Invoiced
  <2>2. NumbersGiven'
    BY <1>0, <1>1, <1>2, <1>3, <1>8 DEF NumbersGiven, Given, Invoiced, Writing
  <2>3. NumbersKept'
    BY <1>3, <1>8 DEF NumbersKept, Invoiced
  <2> QED BY <1>5, <1>6, <2>1, <2>2, <2>3
<1> QED BY <1>1, <1>7, <1>8

LEMMA CreateInvoiceInv ==
    ASSUME NumbersInv, NEW w \in Writers, CreateInvoice(w)
    PROVE  NumbersInv'
BY PutDownInv DEF CreateInvoice, Creating, NumbersInv, NumbersTypeOK

LEMMA GeneratePoNumberInv ==
    ASSUME NumbersInv, NEW w \in Writers, _generate_po_number(w)
    PROVE  NumbersInv'
<1> USE DEF NumbersInv
<1>1. PICK s \in Suppliers :
        /\ Writing(w, "idle") /\ poNumber[s] = 0 /\ ~Locked
        /\ writer' = [writer EXCEPT ![w] = [AtRest EXCEPT !.step = "lines", !.for = s, !.number = poLast + 1]]
  BY DEF _generate_po_number
<1>2. [AtRest EXCEPT !.step = "lines", !.for = s, !.number = poLast + 1] \in NumbersWriter
  <2>1. poLast + 1 \in Nat
    BY DEF NumbersTypeOK
  <2> QED BY <2>1, AtRestIsWriter DEF NumbersWriter
<1>3. writer' \in [Writers -> NumbersWriter] /\ (\A v \in Writers \ {w} : writer'[v] = writer[v])
  BY <1>1, <1>2 DEF NumbersTypeOK, NumbersWriter
<1>4. writer'[w].step = "lines" /\ writer'[w].for = s /\ writer'[w].number = poLast + 1
  BY <1>1 DEF NumbersTypeOK, AtRest
<1>5. NumbersTypeOK'
  BY <1>3 DEF _generate_po_number, NumbersTypeOK, NumbersWriter
<1>6. ~Creating(w) /\ \A v \in Writers : ~Writing(v, "lines")
  BY <1>1 DEF Creating, Writing, Locked
<1> QED BY <1>1, <1>3, <1>4, <1>5, <1>6, QuietWriter DEF _generate_po_number

LEMMA CreatePurchaseOrderInv ==
    ASSUME NumbersInv, NEW w \in Writers, CreatePurchaseOrder(w)
    PROVE  NumbersInv'
<1> USE DEF NumbersInv
<1>1. UNCHANGED <<year, lastNumber, invoice, wasted, writersLost>> /\ Writing(w, "lines")
  BY DEF CreatePurchaseOrder
<1>2. PICK s \in Suppliers : s = writer[w].for /\ poNumber[s] = 0 /\ writer[w].number = poLast + 1
  BY <1>1 DEF PurchaseOrdersInLine
<1>3. poLast \in Nat /\ poLast' = poLast + 1 /\ poNumber' \in [Suppliers -> Nat]
      /\ \A t \in Suppliers : poNumber'[t] = IF t = s THEN poLast + 1 ELSE poNumber[t]
  BY <1>2 DEF CreatePurchaseOrder, NumbersTypeOK
<1>4. writer' \in [Writers -> NumbersWriter] /\ (\A v \in Writers \ {w} : writer'[v] = writer[v])
      /\ writer'[w].step = "idle"
  BY AtRestIsWriter DEF CreatePurchaseOrder, PutDown, NumbersTypeOK, NumbersWriter, AtRest
<1>5. NumbersTypeOK'
  BY <1>1, <1>3, <1>4 DEF NumbersTypeOK, NumbersWriter
<1>6. \A v \in Writers : (Creating(v)' <=> Creating(v)) /\ (Creating(v) => Taken(v)' = Taken(v))
  BY <1>1, <1>4 DEF Creating, Writing, Taken
<1>7. NumbersApart'
  BY <1>1, <1>6 DEF NumbersApart, Invoiced
<1>8. NumbersGiven'
  <2>1. \A v \in Writers : Creating(v)' => Given(Taken(v))'
    BY <1>1, <1>6 DEF NumbersGiven, Given
  <2>2. \A v \in Writers : (Creating(v) \/ Writing(v, "number"))' => writer'[v].for \in PaidOrders
    BY <1>4, <1>6 DEF NumbersGiven, Writing, Creating
  <2> QED BY <1>1, <2>1, <2>2 DEF NumbersGiven, Invoiced, Given
<1>9. NumbersKept'
  BY <1>1, <1>6 DEF NumbersKept, Invoiced
<1>10. PurchaseOrdersInLine'
  <2>1. \A v \in Writers : ~Writing(v, "lines")'
    BY <1>1, <1>4 DEF PurchaseOrdersInLine, Writing
  <2>2. \A t \in Suppliers : poNumber'[t] \in 0..poLast'
    BY <1>3 DEF PurchaseOrdersInLine
  <2>3. \A t, u \in Suppliers : t # u /\ poNumber'[t] = poNumber'[u] => poNumber'[t] = 0
    BY <1>3 DEF PurchaseOrdersInLine
  <2>4. \A n \in 1..poLast' : \E t \in Suppliers : poNumber'[t] = n
    <3> SUFFICES ASSUME NEW n \in 1..poLast' PROVE \E t \in Suppliers : poNumber'[t] = n
      OBVIOUS
    <3>1. CASE n = poLast + 1
      BY <1>3, <3>1
    <3>2. CASE n \in 1..poLast
      <4>1. PICK t \in Suppliers : poNumber[t] = n
        BY <3>2 DEF PurchaseOrdersInLine
      <4>2. t # s
        BY <1>2, <3>2, <4>1
      <4> QED BY <1>3, <4>1, <4>2
    <3> QED BY <1>3, <3>1, <3>2
  <2> QED BY <2>1, <2>2, <2>3, <2>4 DEF PurchaseOrdersInLine
<1> QED BY <1>5, <1>7, <1>8, <1>9, <1>10

LEMMA WriterDiesInv ==
    ASSUME NumbersInv, NEW w \in Writers, WriterDies(w)
    PROVE  NumbersInv'
<1> USE DEF NumbersInv
<1>1. UNCHANGED <<year, lastNumber, invoice, poNumber, poLast>> /\ PutDown(w)
      /\ writersLost' \in 0..MaxWritersLost
  BY NumbersAssumption DEF WriterDies, NumbersTypeOK
<1>2. CASE Creating(w)
  BY <1>1, <1>2, PutDownInv DEF WriterDies, Creating
<1>3. CASE ~Creating(w)
  <2>1. UNCHANGED wasted
    BY <1>3 DEF WriterDies, Creating
  <2>2. writer' \in [Writers -> NumbersWriter] /\ (\A v \in Writers \ {w} : writer'[v] = writer[v])
        /\ writer'[w].step = "idle"
    BY <1>1, AtRestIsWriter DEF PutDown, NumbersTypeOK, NumbersWriter, AtRest
  <2>3. NumbersTypeOK'
    BY <1>1, <2>1, <2>2 DEF NumbersTypeOK, NumbersWriter
  <2> QED BY <1>1, <1>3, <2>1, <2>2, <2>3, QuietWriter
<1> QED BY <1>2, <1>3

LEMMA NewYearInv == NumbersInv /\ NewYear => NumbersInv'
BY NumbersAssumption
   DEF NumbersInv, NewYear, NumbersTypeOK, NumbersApart, NumbersGiven, NumbersKept, PurchaseOrdersInLine,
       Invoiced, Creating, Writing, Taken, Given

\* Any step of the two series keeps the invariant.
LEMMA NumbersStepInv == NumbersInv /\ [NumbersNext]_numberVars => NumbersInv'
<1> SUFFICES ASSUME NumbersInv, [NumbersNext]_numberVars PROVE NumbersInv'
  OBVIOUS
<1>1. CASE UNCHANGED numberVars
  BY <1>1 DEF numberVars, NumbersInv, NumbersTypeOK, NumbersApart, NumbersGiven, NumbersKept,
              PurchaseOrdersInLine, Invoiced, Creating, Writing, Taken, Given
<1>2. CASE NewYear
  BY <1>2, NewYearInv
<1>3. CASE \E w \in Writers :
            \/ LookForInvoice(w) \/ _next_invoice_number(w) \/ CreateInvoice(w)
            \/ _generate_po_number(w) \/ CreatePurchaseOrder(w) \/ WriterDies(w)
  BY <1>3, LookForInvoiceInv, NextInvoiceNumberInv, CreateInvoiceInv, GeneratePoNumberInv,
     CreatePurchaseOrderInv, WriterDiesInv
<1> QED BY <1>1, <1>2, <1>3 DEF NumbersNext

-----------------------------------------------------------------------------
(* What the invariant says                                                 *)

LEMMA NumbersInvAddUp == NumbersInv => InvoiceNumbersAddUp
<1> SUFFICES ASSUME NumbersInv PROVE InvoiceNumbersAddUp
  OBVIOUS
<1> USE DEF NumbersInv
<1>1. \A o \in PaidOrders : (o \in Holders <=> Invoiced(o)) /\ Held(o) = invoice[o]
  BY NumbersAssumption DEF Holders, Held
<1>2. \A w \in Writers : (w \in Holders <=> Creating(w)) /\ Held(w) = Taken(w)
  BY NumbersAssumption DEF Holders, Held, Creating
<1>3. Holders \subseteq PaidOrders \union Writers
  BY DEF Holders
<1>4. \A g, h \in Holders : g # h => Held(g) # Held(h)
  BY <1>1, <1>2, <1>3 DEF NumbersApart
<1>5. \A h \in Holders : Held(h) \notin wasted
  BY <1>1, <1>2, <1>3 DEF NumbersApart
<1>6. \A y \in 1..Years : \A n \in 1..lastNumber[y] :
            [year |-> y, number |-> n] \in wasted \union {Held(h) : h \in Holders}
  BY <1>1, <1>2 DEF NumbersKept, Num
<1> QED BY <1>4, <1>5, <1>6 DEF InvoiceNumbersAddUp

LEMMA NumbersInvGapless == NumbersInv => PurchaseOrdersAreGapless
<1> SUFFICES ASSUME NumbersInv PROVE PurchaseOrdersAreGapless
  OBVIOUS
<1>1. {poNumber[s] : s \in Suppliers} \ {0} = 1..poLast
  BY DEF NumbersInv, PurchaseOrdersInLine, NumbersTypeOK
<1> QED BY <1>1 DEF NumbersInv, PurchaseOrdersInLine, PurchaseOrdersAreGapless

\* However many writers race for however many documents and die at whatever step: no invoice number
\* is held twice or used after it was wasted and every number given out is held or wasted, and the
\* purchase orders have exactly the numbers from 1 to last_number.
THEOREM DocumentNumbersAddUp == NumbersSpec => [](InvoiceNumbersAddUp /\ PurchaseOrdersAreGapless)
<1>1. NumbersInit => NumbersInv
  BY NumbersInitInv
<1>2. NumbersInv /\ [NumbersNext]_numberVars => NumbersInv'
  BY NumbersStepInv
<1>3. NumbersInv => InvoiceNumbersAddUp /\ PurchaseOrdersAreGapless
  BY NumbersInvAddUp, NumbersInvGapless
<1> QED BY <1>1, <1>2, <1>3, PTL DEF NumbersSpec

-----------------------------------------------------------------------------
(* The lines and the status of a purchase order                            *)

Counts == [Supplied -> Nat]

ReceiptPage == [step : {"idle", "save", "lines", "status", "commit"}, todo : Counts, line : Counts,
         at : SUBSET Supplied, status : {"none"} \union SupplyStatus]

\* What holds of the lines however pages overlap.  A copy was true once, so it claims no more than
\* has arrived by now, and the line that is being booked passed the check.
LinesSound ==
    /\ \A p \in Supplied : received[p] <= ordered[p] /\ received[p] <= arrived[p]
    /\ \A r \in Receivers, p \in Supplied : receiver[r].line[p] <= arrived[p]
    /\ \A r \in Receivers : \A p \in receiver[r].at :
        /\ receiver[r].todo[p] > 0
        /\ receiver[r].line[p] + receiver[r].todo[p] <= ordered[p]
        /\ receiver[r].at = {p}
    /\ \A r \in Receivers : At(r, "lines") => receiver[r].at = {}
    /\ \A r \in Receivers : ~Busy(r) => receiver[r] = Away

\* The order comes before its pages.
OrderFirst ==
    /\ supply = "none" => (\A r \in Receivers : ~Busy(r)) /\ (\A p \in Supplied : received[p] = 0)
    /\ supply # "none" => PoLines # {}
    /\ \A r \in Receivers : At(r, "save") \/ At(r, "commit") => receiver[r].status # "none"

StatusSays ==
    /\ supply = "received" <=> (supply # "none" /\ \A p \in PoLines : received[p] = ordered[p])
    /\ supply = "partially_received" <=>
            (\E p \in PoLines : received[p] > 0) /\ (\E p \in PoLines : received[p] < ordered[p])

\* What a page that works alone may rely on.
Alone ==
    /\ \A q, r \in Receivers : Busy(q) /\ Busy(r) => q = r
    /\ \A r \in Receivers, p \in Supplied : receiver[r].todo[p] > 0 => receiver[r].line[p] = received[p]
    /\ \A p \in Supplied : received[p] = arrived[p]
    /\ \A r \in Receivers : At(r, "save") =>
            receiver[r].status = supply \/ (receiver[r].status = "ordered" /\ supply = "draft")
    /\ \A r \in Receivers : At(r, "commit") => receiver[r].status = StatusOf(Seen(r))
    /\ StatusSays

SupplyInv == PurchaseOrdersTypeOK /\ LinesSound /\ OrderFirst /\ (~jostled => Alone)

LEMMA AwayIsPage == Away \in ReceiptPage /\ Away.step = "idle" /\ Away.at = {}
                    /\ \A p \in Supplied : Away.todo[p] = 0 /\ Away.line[p] = 0
BY DEF Away, ReceiptPage, Counts

LEMMA SupplyInitInv == PurchaseOrdersInit => SupplyInv
<1> SUFFICES ASSUME PurchaseOrdersInit PROVE SupplyInv
  OBVIOUS
<1> USE PurchaseOrdersAssumption DEF PurchaseOrdersInit
<1>1. \A r \in Receivers : receiver[r] = Away /\ ~Busy(r)
  BY AwayIsPage DEF Busy
<1>2. receiver \in [Receivers -> ReceiptPage]
  BY AwayIsPage
<1>3. PurchaseOrdersTypeOK
  <2>1. shelf \in Counts /\ threshold \in Counts /\ ordered \in Counts /\ received \in Counts /\ arrived \in Counts
    <3>1. MaxOnShelf \in Nat
      OBVIOUS
    <3>2. 0..MaxOnShelf \subseteq Nat /\ Thresholds \subseteq Nat
      BY <3>1
    <3>3. shelf \in [Supplied -> Nat]
      BY <3>2
    <3>4. threshold \in [Supplied -> Nat]
      BY <3>2
    <3> QED BY <3>3, <3>4 DEF Counts
  <2>2. receipts \in 0..MaxReceipts /\ receiversLost \in 0..MaxReceiversLost /\ supply = "none" /\ ~jostled
    OBVIOUS
  <2> QED BY <1>2, <2>1, <2>2 DEF PurchaseOrdersTypeOK, ReceiptPage, Counts
<1>4. LinesSound
  BY <1>1, AwayIsPage DEF LinesSound
<1>5. PoLines = {}
  BY DEF PoLines
<1>6. OrderFirst /\ Alone
  BY <1>1, <1>5, AwayIsPage DEF OrderFirst, Alone, At, Busy, StatusSays
<1> QED BY <1>3, <1>4, <1>6 DEF SupplyInv

-----------------------------------------------------------------------------
(* Every action keeps the invariant                                        *)

\* A page is opened on the order as it is.
LEMMA SubmitInv ==
    ASSUME SupplyInv, NEW r \in Receivers, NEW work \in ReceiptPage, Submit(r, work),
           work.step \in {"save", "lines"}, work.at = {},
           \A p \in Supplied : work.line[p] = 0 \/ work.line[p] = received[p],
           \A p \in Supplied : work.todo[p] > 0 => work.line[p] = received[p],
           work.step = "save" => work.status = supply \/ (work.status = "ordered" /\ supply = "draft")
    PROVE  SupplyInv'
<1> USE DEF SupplyInv
<1>1. UNCHANGED <<supply, shelf, threshold, ordered, received, arrived, receiversLost>>
      /\ supply # "none" /\ receipts' \in 0..MaxReceipts
  BY PurchaseOrdersAssumption DEF Submit, PurchaseOrdersTypeOK
<1>2. receiver' \in [Receivers -> ReceiptPage] /\ receiver'[r] = work
      /\ \A q \in Receivers \ {r} : receiver'[q] = receiver[q]
  BY DEF Submit, PurchaseOrdersTypeOK, ReceiptPage, Counts
<1>3. PurchaseOrdersTypeOK'
  <2>1. jostled' \in BOOLEAN
    BY DEF Submit, PurchaseOrdersTypeOK
  <2> QED BY <1>1, <1>2, <2>1 DEF PurchaseOrdersTypeOK, ReceiptPage, Counts
<1>4. LinesSound'
  <2>1. \A p \in Supplied : work.line[p] <= arrived[p]
    BY DEF LinesSound, PurchaseOrdersTypeOK
  <2>2. \A q \in Receivers : ~Busy(q)' => q # r /\ ~Busy(q)
    BY <1>2 DEF Busy
  <2>3. \A q \in Receivers : ~Busy(q)' => receiver'[q] = Away
    BY <1>2, <2>2 DEF LinesSound
  <2>4. \A q \in Receivers : At(q, "lines")' => receiver'[q].at = {}
    BY <1>2 DEF LinesSound, At
  <2> QED BY <1>1, <1>2, <2>1, <2>3, <2>4 DEF LinesSound
<1>5. OrderFirst'
  BY <1>1, <1>2 DEF OrderFirst, PoLines, At
<1>6. ~jostled' => ~jostled /\ \A q \in Receivers : ~Busy(q)
  BY DEF Submit
<1>7. ASSUME ~jostled' PROVE Alone'
  <2>1. Alone /\ \A q \in Receivers : ~Busy(q)
    BY <1>6, <1>7
  <2>2. StatusSays'
    BY <1>1, <2>1 DEF Alone, StatusSays, PoLines
  <2>3. \A q \in Receivers : At(q, "commit")' => FALSE
    BY <1>2, <2>1 DEF At, Busy
  <2> QED BY <1>1, <1>2, <2>1, <2>2, <2>3 DEF Alone, Busy, At
<1> QED BY <1>3, <1>4, <1>5, <1>7

LEMMA CreateFromLowStockInv ==
    ASSUME SupplyInv, create_purchase_order_from_low_stock
    PROVE  SupplyInv'
<1> USE DEF SupplyInv
<1>1. UNCHANGED <<shelf, threshold, received, arrived, receiver, receipts, jostled, receiversLost>>
      /\ supply = "none" /\ supply' = "draft"
  BY DEF create_purchase_order_from_low_stock
<1>2. \A p \in Supplied : Suggested(threshold[p], shelf[p]) \in Nat \ {0}
  BY DEF Suggested, PurchaseOrdersTypeOK
<1>3. ordered' \in Counts /\ \E p \in Supplied : ordered'[p] > 0
  BY <1>2 DEF create_purchase_order_from_low_stock, Counts
<1>4. PurchaseOrdersTypeOK'
  BY <1>1, <1>3 DEF PurchaseOrdersTypeOK, Counts, SupplyStatus
<1>5. \A r \in Receivers : receiver[r] = Away /\ ~Busy(r)
  BY <1>1 DEF OrderFirst, LinesSound
<1>6. \A p \in Supplied : received[p] = 0
  BY <1>1 DEF OrderFirst
<1>7. LinesSound'
  BY <1>1, <1>3, <1>5, <1>6, AwayIsPage DEF LinesSound, Busy, Counts
<1>8. PoLines' # {}
  BY <1>3 DEF PoLines
<1>9. OrderFirst'
  BY <1>1, <1>5, <1>8, AwayIsPage DEF OrderFirst, At
<1>10. ASSUME ~jostled' PROVE Alone'
  <2>1. StatusSays'
    BY <1>1, <1>6, <1>8 DEF StatusSays, PoLines
  <2>2. \A r \in Receivers : ~At(r, "commit")' /\ ~At(r, "save")' /\ ~Busy(r)'
    BY <1>1, <1>5, AwayIsPage DEF At, Busy
  <2> QED BY <1>1, <1>5, <1>10, <2>1, <2>2, AwayIsPage DEF Alone
<1> QED BY <1>4, <1>7, <1>9, <1>10

\* A page that moves on without touching the order.
LEMMA PageMoves ==
    ASSUME SupplyInv, NEW r \in Receivers, UNCHANGED <<supply, shelf, threshold, ordered, received, arrived, receipts, jostled>>,
           receiversLost' \in 0..MaxReceiversLost,
           receiver' \in [Receivers -> ReceiptPage], \A q \in Receivers \ {r} : receiver'[q] = receiver[q],
           Busy(r) \/ receiver'[r] = Away,
           \A p \in Supplied : receiver'[r].line[p] \in {0, receiver[r].line[p]},
           \A p \in Supplied : receiver'[r].todo[p] > 0 =>
                receiver'[r].todo[p] = receiver[r].todo[p] /\ receiver'[r].line[p] = receiver[r].line[p],
           \A p \in receiver'[r].at :
                /\ receiver'[r].todo[p] > 0
                /\ receiver'[r].line[p] + receiver'[r].todo[p] <= ordered[p]
                /\ receiver'[r].at = {p},
           receiver'[r] = Away \/ receiver'[r].step \in {"lines", "status", "commit"},
           receiver'[r].step = "lines" => receiver'[r].at = {},
           receiver'[r].step = "commit" => receiver'[r].status = StatusOf(Seen(r))' /\ receiver'[r].status # "none"
    PROVE  SupplyInv'
<1> USE DEF SupplyInv
<1>1. PurchaseOrdersTypeOK'
  BY DEF PurchaseOrdersTypeOK, ReceiptPage, Counts
<1>2. \A q \in Receivers : ~Busy(q)' => receiver'[q] = Away
  BY AwayIsPage DEF LinesSound, Busy
<1>3. LinesSound'
  <2>1. \A q \in Receivers, p \in Supplied : receiver'[q].line[p] <= arrived'[p]
    <3> SUFFICES ASSUME NEW q \in Receivers, NEW p \in Supplied
                 PROVE  receiver'[q].line[p] <= arrived[p]
      OBVIOUS
    <3>1. arrived[p] >= 0 /\ receiver[q].line[p] <= arrived[p]
      BY DEF LinesSound, PurchaseOrdersTypeOK
    <3> QED BY <3>1
  <2>2. \A q \in Receivers : \A p \in receiver'[q].at :
            /\ receiver'[q].todo[p] > 0
            /\ receiver'[q].line[p] + receiver'[q].todo[p] <= ordered'[p]
            /\ receiver'[q].at = {p}
    BY DEF LinesSound
  <2>3. \A q \in Receivers : At(q, "lines")' => receiver'[q].at = {}
    BY DEF LinesSound, At
  <2> QED BY <1>2, <2>1, <2>2, <2>3 DEF LinesSound
<1>4. \A q \in Receivers : Busy(q)' => Busy(q)
  BY AwayIsPage DEF Busy
<1>5. \A q \in Receivers : ~At(q, "save") => ~At(q, "save")'
  BY AwayIsPage DEF At
<1>6. OrderFirst'
  BY <1>4, AwayIsPage DEF OrderFirst, PoLines, At
<1>7. ASSUME ~jostled' PROVE Alone'
  <2>1. Alone
    BY <1>7
  <2>2. StatusSays'
    BY <2>1 DEF Alone, StatusSays, PoLines
  <2>3. \A q \in Receivers : At(q, "save")' => q # r
    BY AwayIsPage DEF At
  <2>4. \A q \in Receivers \ {r} : At(q, "commit")' => receiver'[q].status = StatusOf(Seen(q))'
    BY <2>1 DEF Alone, At, StatusOf, Seen, PoLines
  <2>5. \A q \in Receivers, p \in Supplied : receiver'[q].todo[p] > 0 => receiver'[q].line[p] = received'[p]
    BY <2>1 DEF Alone
  <2>6. \A q \in Receivers : At(q, "save")' =>
            receiver'[q].status = supply' \/ (receiver'[q].status = "ordered" /\ supply' = "draft")
    BY <2>1, <2>3 DEF Alone, At
  <2>7. \A q \in Receivers : At(q, "commit")' => receiver'[q].status = StatusOf(Seen(q))'
    BY <2>4 DEF At
  <2> QED BY <1>4, <2>1, <2>2, <2>5, <2>6, <2>7 DEF Alone
<1> QED BY <1>1, <1>3, <1>6, <1>7

\* A page that is left.
LEMMA LeavesInv ==
    ASSUME SupplyInv, NEW r \in Receivers, Leaves(r), Busy(r),
           UNCHANGED <<supply, shelf, threshold, ordered, received, arrived, receipts, jostled>>,
           receiversLost' \in 0..MaxReceiversLost
    PROVE  SupplyInv'
<1>1. receiver' \in [Receivers -> ReceiptPage] /\ receiver'[r] = Away
      /\ \A q \in Receivers \ {r} : receiver'[q] = receiver[q]
  BY AwayIsPage DEF Leaves, SupplyInv, PurchaseOrdersTypeOK, ReceiptPage, Counts
<1> QED BY <1>1, AwayIsPage, PageMoves

LEMMA SaveOrderInv ==
    ASSUME SupplyInv, NEW r \in Receivers, mark_purchase_order_ordered(r)
    PROVE  SupplyInv'
<1> USE DEF SupplyInv
<1>1. UNCHANGED <<shelf, threshold, ordered, received, arrived, receipts, jostled, receiversLost>>
      /\ supply' = receiver[r].status /\ At(r, "save") /\ Leaves(r)
  BY DEF mark_purchase_order_ordered
<1>2. receiver' \in [Receivers -> ReceiptPage] /\ receiver'[r] = Away
      /\ \A q \in Receivers \ {r} : receiver'[q] = receiver[q]
  BY <1>1, AwayIsPage DEF Leaves, PurchaseOrdersTypeOK, ReceiptPage, Counts
<1>3. supply' \in SupplyStatus
  BY <1>1 DEF OrderFirst, At, PurchaseOrdersTypeOK
<1>4. supply # "none" /\ supply' # "none"
  BY <1>1, <1>3 DEF OrderFirst, At, Busy, SupplyStatus
<1>5. PurchaseOrdersTypeOK'
  BY <1>1, <1>2, <1>3 DEF PurchaseOrdersTypeOK, ReceiptPage, Counts
<1>6. LinesSound'
  <2>1. \A q \in Receivers : ~Busy(q)' => receiver'[q] = Away
    BY <1>2 DEF LinesSound, Busy
  <2>2. \A p \in Supplied : Away.line[p] <= arrived[p]
    BY AwayIsPage DEF PurchaseOrdersTypeOK
  <2>3. \A q \in Receivers : At(q, "lines")' => receiver'[q].at = {}
    BY <1>2, AwayIsPage DEF LinesSound, At
  <2> QED BY <1>1, <1>2, <2>1, <2>2, <2>3, AwayIsPage DEF LinesSound
<1>7. OrderFirst'
  BY <1>1, <1>2, <1>4, AwayIsPage DEF OrderFirst, PoLines, At
<1>8. ASSUME ~jostled' PROVE Alone'
  <2>1. Alone
    BY <1>1, <1>8
  <2>2. \A q \in Receivers : ~Busy(q)'
    BY <1>1, <1>2, <2>1, AwayIsPage DEF Alone, Busy, At
  <2>3. supply' = supply \/ (supply' = "ordered" /\ supply = "draft")
    BY <1>1, <2>1 DEF Alone
  <2>4. StatusSays'
    BY <1>1, <1>4, <2>1, <2>3 DEF Alone, StatusSays, PoLines
  <2> QED BY <1>1, <1>2, <2>1, <2>2, <2>4, AwayIsPage DEF Alone, Busy, At
<1> QED BY <1>5, <1>6, <1>7, <1>8

LEMMA RefuseLineInv ==
    ASSUME SupplyInv, NEW r \in Receivers, RefuseLine(r)
    PROVE  SupplyInv'
<1> USE DEF SupplyInv
<1>1. PICK p \in Supplied : At(r, "lines") /\ receiver' = [receiver EXCEPT ![r].todo[p] = 0]
  BY DEF RefuseLine, Left
<1>2. receiver[r] \in ReceiptPage
  BY DEF PurchaseOrdersTypeOK, ReceiptPage, Counts
<1>3. [receiver[r] EXCEPT !.todo[p] = 0] \in ReceiptPage
  BY <1>2 DEF ReceiptPage, Counts
<1>4. receiver' \in [Receivers -> ReceiptPage] /\ \A q \in Receivers \ {r} : receiver'[q] = receiver[q]
  BY <1>1, <1>3 DEF PurchaseOrdersTypeOK, ReceiptPage, Counts
<1>5. /\ receiver'[r].step = "lines" /\ receiver'[r].line = receiver[r].line /\ receiver'[r].at = receiver[r].at
      /\ \A q \in Supplied : receiver'[r].todo[q] = IF q = p THEN 0 ELSE receiver[r].todo[q]
  BY <1>1, <1>2 DEF PurchaseOrdersTypeOK, ReceiptPage, Counts, At
<1>6. receiver[r].at = {} /\ Busy(r)
  BY <1>1 DEF LinesSound, At, Busy
<1>7. receiversLost' \in 0..MaxReceiversLost
      /\ UNCHANGED <<supply, shelf, threshold, ordered, received, arrived, receipts, jostled>>
  BY DEF RefuseLine, PurchaseOrdersTypeOK
<1> QED BY <1>4, <1>5, <1>6, <1>7, PageMoves

LEMMA ReceiveLineInv ==
    ASSUME SupplyInv, NEW r \in Receivers, receive_purchase_order_line(r)
    PROVE  SupplyInv'
<1> USE DEF SupplyInv
<1>1. PICK p \in Supplied : /\ receiver[r].todo[p] > 0 /\ At(r, "lines") /\ Fits(r, p)
                            /\ receiver' = [receiver EXCEPT ![r].step = "status", ![r].at = {p}]
  BY DEF receive_purchase_order_line, Left
<1>2. receiver[r] \in ReceiptPage
  BY DEF PurchaseOrdersTypeOK, ReceiptPage, Counts
<1>3. [receiver[r] EXCEPT !.step = "status", !.at = {p}] \in ReceiptPage
  BY <1>2 DEF ReceiptPage
<1>4. receiver' \in [Receivers -> ReceiptPage] /\ \A q \in Receivers \ {r} : receiver'[q] = receiver[q]
  BY <1>1, <1>3 DEF PurchaseOrdersTypeOK, ReceiptPage, Counts
<1>5. /\ receiver'[r].step = "status" /\ receiver'[r].line = receiver[r].line
      /\ receiver'[r].todo = receiver[r].todo /\ receiver'[r].at = {p}
  BY <1>1, <1>2 DEF PurchaseOrdersTypeOK, ReceiptPage, Counts
<1>6. receiver[r].line[p] + receiver[r].todo[p] <= ordered[p] /\ Busy(r)
  BY <1>1 DEF Fits, At, Busy
<1>7. receiversLost' \in 0..MaxReceiversLost
      /\ UNCHANGED <<supply, shelf, threshold, ordered, received, arrived, receipts, jostled>>
  BY DEF receive_purchase_order_line, PurchaseOrdersTypeOK
<1> QED BY <1>1, <1>4, <1>5, <1>6, <1>7, PageMoves

LEMMA EvaluateOrderInv ==
    ASSUME SupplyInv, NEW r \in Receivers, EvaluateOrder(r)
    PROVE  SupplyInv'
<1> USE DEF SupplyInv
<1>1. At(r, "status") /\ receiver' = [receiver EXCEPT ![r].step = "commit", ![r].status = StatusOf(Seen(r))]
  BY DEF EvaluateOrder
<1>2. receiver[r] \in ReceiptPage /\ StatusOf(Seen(r)) \in SupplyStatus
  BY DEF PurchaseOrdersTypeOK, ReceiptPage, Counts, StatusOf, SupplyStatus
<1>3. [receiver[r] EXCEPT !.step = "commit", !.status = StatusOf(Seen(r))] \in ReceiptPage
  BY <1>2 DEF ReceiptPage
<1>4. receiver' \in [Receivers -> ReceiptPage] /\ \A q \in Receivers \ {r} : receiver'[q] = receiver[q]
  BY <1>1, <1>3 DEF PurchaseOrdersTypeOK, ReceiptPage, Counts
<1>5. /\ receiver'[r].step = "commit" /\ receiver'[r].line = receiver[r].line
      /\ receiver'[r].todo = receiver[r].todo /\ receiver'[r].at = receiver[r].at
      /\ receiver'[r].status = StatusOf(Seen(r))
  BY <1>1, <1>2 DEF PurchaseOrdersTypeOK, ReceiptPage, Counts
<1>6. receiversLost' \in 0..MaxReceiversLost
      /\ UNCHANGED <<supply, shelf, threshold, ordered, received, arrived, receipts, jostled>>
  BY DEF EvaluateOrder, PurchaseOrdersTypeOK
<1>7. StatusOf(Seen(r))' = StatusOf(Seen(r))
  BY <1>5, <1>6 DEF StatusOf, Seen, PoLines
<1>8. receiver'[r].status = StatusOf(Seen(r))' /\ receiver'[r].status # "none"
  BY <1>2, <1>5, <1>7 DEF SupplyStatus
<1>9. /\ Busy(r)
      /\ \A p \in receiver'[r].at :
            /\ receiver'[r].todo[p] > 0
            /\ receiver'[r].line[p] + receiver'[r].todo[p] <= ordered[p]
            /\ receiver'[r].at = {p}
  BY <1>1, <1>5 DEF LinesSound, At, Busy
<1> QED BY <1>4, <1>5, <1>6, <1>8, <1>9, PageMoves

\* What a commit makes of one line, and what it leaves of the others.
LEMMA CommittedLines ==
    ASSUME SupplyInv, NEW r \in Receivers, NEW p \in receiver[r].at, received' = Seen(r),
           arrived' = [arrived EXCEPT ![p] = @ + receiver[r].todo[p]]
    PROVE  /\ p \in Supplied /\ received' \in Counts /\ arrived' \in Counts
           /\ received'[p] = receiver[r].line[p] + receiver[r].todo[p] /\ received'[p] > 0
           /\ received'[p] <= ordered[p]
           /\ arrived'[p] = arrived[p] + receiver[r].todo[p]
           /\ \A q \in Supplied \ {p} : received'[q] = received[q] /\ arrived'[q] = arrived[q]
<1>1. p \in Supplied /\ receiver[r].at = {p}
  BY DEF SupplyInv, LinesSound, PurchaseOrdersTypeOK
<1>2. receiver[r].line[p] \in Nat /\ receiver[r].todo[p] \in Nat /\ arrived \in Counts /\ received \in Counts
  BY <1>1 DEF SupplyInv, PurchaseOrdersTypeOK, Counts
<1>3. receiver[r].todo[p] > 0 /\ receiver[r].line[p] + receiver[r].todo[p] <= ordered[p]
  BY DEF SupplyInv, LinesSound
<1>4. \A q \in Supplied : received'[q] = IF q = p THEN receiver[r].line[q] + receiver[r].todo[q] ELSE received[q]
  BY <1>1 DEF Seen
<1>5. received' \in Counts
  BY <1>1, <1>2, <1>4 DEF Seen, Counts
<1> QED BY <1>1, <1>2, <1>3, <1>4, <1>5 DEF Counts

LEMMA CommitReceiptInv ==
    ASSUME SupplyInv, NEW r \in Receivers, CommitReceipt(r)
    PROVE  SupplyInv'
<1> USE DEF SupplyInv
<1>1. PICK p \in receiver[r].at :
        /\ At(r, "commit") /\ received' = Seen(r)
        /\ shelf' = [shelf EXCEPT ![p] = @ + receiver[r].todo[p]]
        /\ arrived' = [arrived EXCEPT ![p] = @ + receiver[r].todo[p]]
        /\ supply' = receiver[r].status
        /\ receiver' = [receiver EXCEPT ![r].step = "lines", ![r].at = {}, ![r].todo[p] = 0, ![r].status = "none"]
        /\ UNCHANGED <<threshold, ordered, receipts, jostled, receiversLost>>
  BY DEF CommitReceipt
<1>2. /\ p \in Supplied /\ received' \in Counts /\ arrived' \in Counts
      /\ received'[p] = receiver[r].line[p] + receiver[r].todo[p] /\ received'[p] > 0
      /\ received'[p] <= ordered[p]
      /\ arrived'[p] = arrived[p] + receiver[r].todo[p]
      /\ \A q \in Supplied \ {p} : received'[q] = received[q] /\ arrived'[q] = arrived[q]
  BY <1>1, CommittedLines
<1>3. receiver[r] \in ReceiptPage
  BY DEF PurchaseOrdersTypeOK, ReceiptPage, Counts
<1>4. [receiver[r] EXCEPT !.step = "lines", !.at = {}, !.todo[p] = 0, !.status = "none"] \in ReceiptPage
  BY <1>2, <1>3 DEF ReceiptPage, Counts
<1>5. receiver' \in [Receivers -> ReceiptPage] /\ \A q \in Receivers \ {r} : receiver'[q] = receiver[q]
  BY <1>1, <1>4 DEF PurchaseOrdersTypeOK, ReceiptPage, Counts
<1>6. /\ receiver'[r].step = "lines" /\ receiver'[r].line = receiver[r].line /\ receiver'[r].at = {}
      /\ \A q \in Supplied : receiver'[r].todo[q] = IF q = p THEN 0 ELSE receiver[r].todo[q]
  BY <1>1, <1>2, <1>3 DEF PurchaseOrdersTypeOK, ReceiptPage, Counts
<1>7. supply' \in SupplyStatus /\ supply # "none"
  BY <1>1, <1>3 DEF OrderFirst, At, Busy, ReceiptPage
<1>8. PurchaseOrdersTypeOK'
  <2>1. shelf' \in Counts
    BY <1>1, <1>2, <1>3 DEF PurchaseOrdersTypeOK, Counts, ReceiptPage
  <2> QED BY <1>1, <1>2, <1>5, <1>7, <2>1 DEF PurchaseOrdersTypeOK, ReceiptPage, Counts
<1>9. \A q \in Supplied : arrived[q] <= arrived'[q]
  BY <1>2, <1>3 DEF PurchaseOrdersTypeOK, ReceiptPage, Counts
<1>10. LinesSound'
  <2>1. \A q \in Supplied : received'[q] <= ordered'[q]
    BY <1>1, <1>2 DEF LinesSound
  <2>2. receiver[r].line[p] <= arrived[p]
    BY <1>2 DEF LinesSound
  <2>3. \A q \in Supplied : received'[q] <= arrived'[q]
    BY <1>2, <1>3, <2>2 DEF LinesSound, PurchaseOrdersTypeOK, ReceiptPage, Counts
  <2>4. \A q \in Receivers : receiver'[q].line = receiver[q].line
    BY <1>5, <1>6
  <2>5. \A q \in Receivers, s \in Supplied : receiver'[q].line[s] <= arrived'[s]
    <3> SUFFICES ASSUME NEW q \in Receivers, NEW s \in Supplied PROVE receiver'[q].line[s] <= arrived'[s]
      OBVIOUS
    <3>1. receiver[q].line[s] \in Nat /\ arrived[s] \in Nat /\ arrived'[s] \in Nat
      BY <1>2 DEF PurchaseOrdersTypeOK, Counts
    <3> QED BY <1>9, <2>4, <3>1 DEF LinesSound
  <2>6. \A q \in Receivers : \A s \in receiver'[q].at :
            /\ receiver'[q].todo[s] > 0
            /\ receiver'[q].line[s] + receiver'[q].todo[s] <= ordered'[s]
            /\ receiver'[q].at = {s}
    BY <1>1, <1>5, <1>6 DEF LinesSound
  <2>7. \A q \in Receivers : (At(q, "lines")' => receiver'[q].at = {}) /\ (~Busy(q)' => receiver'[q] = Away)
    BY <1>5, <1>6 DEF LinesSound, At, Busy
  <2> QED BY <2>1, <2>3, <2>5, <2>6, <2>7 DEF LinesSound
<1>11. PoLines' = PoLines
  BY <1>1 DEF PoLines
<1>12. OrderFirst'
  BY <1>5, <1>6, <1>7, <1>11 DEF OrderFirst, At, SupplyStatus
<1>13. ASSUME ~jostled' PROVE Alone'
  <2>1. Alone /\ \A q \in Receivers : Busy(q) => q = r
    BY <1>1, <1>13 DEF Alone, At, Busy
  <2>2. supply' = StatusOf(received')
    BY <1>1, <2>1 DEF Alone
  <2>3. \A q \in Receivers \ {r} : receiver'[q] = Away /\ ~Busy(q)'
    BY <1>5, <2>1 DEF LinesSound, Busy
  <2>4. \A q \in Supplied : received'[q] = arrived'[q]
    <3>1. receiver[r].line[p] = received[p] /\ received[p] = arrived[p]
      BY <1>2, <2>1 DEF Alone, LinesSound
    <3> QED BY <1>2, <2>1, <3>1 DEF Alone
  <2>5. \A q \in Receivers, s \in Supplied : receiver'[q].todo[s] > 0 => receiver'[q].line[s] = received'[s]
    BY <1>2, <1>6, <2>1, <2>3, AwayIsPage DEF Alone
  <2>6. StatusSays'
    <3>1. \A q \in PoLines : received'[q] >= ordered[q] <=> received'[q] = ordered[q]
      <4>1. \A q \in Supplied : received'[q] <= ordered[q] /\ received'[q] \in Nat /\ ordered[q] \in Nat
        BY <1>1, <1>2, <1>10 DEF LinesSound, PurchaseOrdersTypeOK, Counts
      <4> QED BY <4>1 DEF PoLines
    <3>2. \A q \in PoLines : ~(received'[q] >= ordered[q]) <=> received'[q] < ordered[q]
      BY <1>2 DEF PoLines, PurchaseOrdersTypeOK, Counts
    <3>3. p \in PoLines
      BY <1>2 DEF PoLines, PurchaseOrdersTypeOK, Counts
    <3>4. supply' = "received" <=> \A q \in PoLines : received'[q] = ordered[q]
      BY <2>2, <3>1 DEF StatusOf
    <3>5. supply' = "partially_received" <=> \E q \in PoLines : received'[q] < ordered[q]
      BY <2>2, <3>2 DEF StatusOf
    <3> QED BY <1>1, <1>2, <1>7, <1>11, <3>3, <3>4, <3>5 DEF StatusSays, SupplyStatus
  <2>7. \A q \in Receivers : ~At(q, "save")' /\ ~At(q, "commit")'
    BY <1>6, <2>3, AwayIsPage DEF At
  <2> QED BY <2>3, <2>4, <2>5, <2>6, <2>7 DEF Alone
<1> QED BY <1>8, <1>10, <1>12, <1>13

LEMMA OpenPageInv ==
    ASSUME SupplyInv, NEW r \in Receivers, mark_ordered_action(r) \/ EditPurchaseOrder(r) \/ receive_view(r)
    PROVE  SupplyInv'
<1> USE DEF SupplyInv
<1>1. CASE mark_ordered_action(r)
  <2> DEFINE work == [Away EXCEPT !.step = "save", !.status = "ordered"]
  <2>1. work \in ReceiptPage /\ work.step = "save" /\ work.at = {} /\ work.status = "ordered"
        /\ work.line = Away.line /\ work.todo = Away.todo
    BY AwayIsPage DEF ReceiptPage, SupplyStatus
  <2>2. Submit(r, work) /\ supply = "draft"
    BY <1>1 DEF mark_ordered_action
  <2> HIDE DEF work
  <2> QED BY <2>1, <2>2, AwayIsPage, SubmitInv
<1>2. CASE EditPurchaseOrder(r)
  <2> DEFINE work == [Away EXCEPT !.step = "save", !.status = supply]
  <2>1. work \in ReceiptPage /\ work.step = "save" /\ work.at = {} /\ work.status = supply
        /\ work.line = Away.line /\ work.todo = Away.todo
    BY AwayIsPage DEF ReceiptPage, PurchaseOrdersTypeOK
  <2>2. Submit(r, work)
    BY <1>2 DEF EditPurchaseOrder
  <2> HIDE DEF work
  <2> QED BY <2>1, <2>2, AwayIsPage, SubmitInv
<1>3. CASE receive_view(r)
  <2>1. PICK typed \in [PoLines -> 0..MaxTyped] :
            Submit(r, [Away EXCEPT !.step = "lines", !.line = received,
                                   !.todo = [p \in Supplied |-> IF p \in PoLines THEN typed[p] ELSE 0]])
    BY <1>3 DEF receive_view
  <2> DEFINE todo == [p \in Supplied |-> IF p \in PoLines THEN typed[p] ELSE 0]
             work == [Away EXCEPT !.step = "lines", !.line = received, !.todo = todo]
  <2>2. todo \in Counts /\ received \in Counts
    BY PurchaseOrdersAssumption DEF Counts, PurchaseOrdersTypeOK, PoLines
  <2>3. Submit(r, work)
    BY <2>1
  <2> HIDE DEF todo
  <2>4. work \in ReceiptPage /\ work.step = "lines" /\ work.at = {} /\ work.line = received
    BY <2>2, AwayIsPage DEF ReceiptPage
  <2> HIDE DEF work
  <2> QED BY <2>3, <2>4, SubmitInv
<1> QED BY <1>1, <1>2, <1>3

\* Any step of the purchase orders keeps the invariant.
LEMMA SupplyStepInv == SupplyInv /\ [PurchaseOrdersNext]_supplyVars => SupplyInv'
<1> SUFFICES ASSUME SupplyInv, [PurchaseOrdersNext]_supplyVars PROVE SupplyInv'
  OBVIOUS
<1>1. CASE UNCHANGED supplyVars
  BY <1>1 DEF supplyVars, SupplyInv, PurchaseOrdersTypeOK, LinesSound, OrderFirst, Alone, StatusSays,
              PoLines, Busy, At, StatusOf, Seen
<1>2. CASE create_purchase_order_from_low_stock
  BY <1>2, CreateFromLowStockInv
<1>3. ASSUME NEW r \in Receivers, mark_ordered_action(r) \/ EditPurchaseOrder(r) \/ receive_view(r)
      PROVE  SupplyInv'
  BY <1>3, OpenPageInv
<1>4. ASSUME NEW r \in Receivers,
             \/ mark_purchase_order_ordered(r) \/ RefuseLine(r) \/ receive_purchase_order_line(r)
             \/ EvaluateOrder(r) \/ CommitReceipt(r)
      PROVE  SupplyInv'
  BY <1>4, SaveOrderInv, RefuseLineInv, ReceiveLineInv, EvaluateOrderInv, CommitReceiptInv
<1>5. ASSUME NEW r \in Receivers, PageDone(r) PROVE SupplyInv'
  BY <1>5, LeavesInv DEF PageDone, At, Busy, SupplyInv, PurchaseOrdersTypeOK
<1>6. ASSUME NEW r \in Receivers, ReceiverDies(r) PROVE SupplyInv'
  <2>1. receiversLost' \in 0..MaxReceiversLost
    BY <1>6, PurchaseOrdersAssumption DEF ReceiverDies, SupplyInv, PurchaseOrdersTypeOK
  <2> QED BY <1>6, <2>1, LeavesInv DEF ReceiverDies
<1> QED BY <1>1, <1>2, <1>3, <1>4, <1>5, <1>6 DEF PurchaseOrdersNext

LEMMA SupplyInvLines == SupplyInv => LinesClaimNoMoreThanArrived
BY DEF SupplyInv, LinesSound, Alone, LinesClaimNoMoreThanArrived

LEMMA SupplyInvStatus == SupplyInv => StatusTellsWhatArrived
BY DEF SupplyInv, Alone, StatusSays, StatusTellsWhatArrived

\* What the draft found on the shelf, whatever has arrived since: its lines are the products that were
\* low, and each line is long enough.
DraftSound ==
    /\ \A p \in Supplied : arrived[p] <= shelf[p]
    /\ supply = "none" => \A p \in Supplied : arrived[p] = 0
    /\ supply # "none" =>
        \A p \in Supplied :
            /\ p \in PoLines <=> shelf[p] - arrived[p] <= threshold[p]
            /\ p \in PoLines => (shelf[p] - arrived[p]) + ordered[p] > threshold[p]

LEMMA DraftInitSound == PurchaseOrdersInit => DraftSound
BY PurchaseOrdersAssumption DEF PurchaseOrdersInit, DraftSound

LEMMA SuggestedIsEnough ==
    ASSUME NEW limit \in Nat, NEW available \in Nat, available <= limit
    PROVE  Suggested(limit, available) \in Nat \ {0} /\ available + Suggested(limit, available) > limit
BY DEF Suggested

LEMMA SupplyCounts ==
    ASSUME SupplyInv, NEW p \in Supplied
    PROVE  /\ shelf[p] \in Nat /\ threshold[p] \in Nat /\ ordered[p] \in Nat /\ arrived[p] \in Nat /\ received[p] \in Nat
           /\ \A r \in Receivers : receiver[r].todo[p] \in Nat
<1>1. receiver \in [Receivers -> ReceiptPage]
  BY DEF SupplyInv, PurchaseOrdersTypeOK, ReceiptPage, Counts
<1> QED BY <1>1 DEF SupplyInv, PurchaseOrdersTypeOK, ReceiptPage, Counts

LEMMA DraftStepSound ==
    ASSUME SupplyInv, DraftSound, [PurchaseOrdersNext]_supplyVars
    PROVE  DraftSound'
<1>1. CASE create_purchase_order_from_low_stock
  <2>1. /\ supply = "none" /\ supply' = "draft" /\ shelf' = shelf /\ threshold' = threshold /\ arrived' = arrived
        /\ ordered' = [p \in Supplied |-> IF Low(p) THEN Suggested(threshold[p], shelf[p]) ELSE 0]
    BY <1>1 DEF create_purchase_order_from_low_stock
  <2>2. \A p \in Supplied : arrived[p] = 0 /\ shelf[p] \in Nat /\ threshold[p] \in Nat
    BY <2>1, SupplyCounts DEF DraftSound
  <2>3. ASSUME NEW p \in Supplied
        PROVE  /\ p \in PoLines' <=> shelf[p] <= threshold[p]
               /\ p \in PoLines' => shelf[p] + ordered'[p] > threshold[p]
    <3>1. p \in PoLines' <=> ordered'[p] > 0
      BY DEF PoLines
    <3>2. ordered'[p] = IF shelf[p] <= threshold[p] THEN Suggested(threshold[p], shelf[p]) ELSE 0
      BY <2>1 DEF Low
    <3>3. CASE shelf[p] <= threshold[p]
      BY <2>2, <3>1, <3>2, <3>3, SuggestedIsEnough
    <3>4. CASE ~(shelf[p] <= threshold[p])
      BY <2>2, <3>1, <3>2, <3>4
    <3> QED BY <3>3, <3>4
  <2> QED BY <2>1, <2>2, <2>3 DEF DraftSound
<1>2. ASSUME NEW r \in Receivers, CommitReceipt(r) PROVE DraftSound'
  <2>1. PICK p \in receiver[r].at :
            /\ At(r, "commit")
            /\ shelf' = [shelf EXCEPT ![p] = @ + receiver[r].todo[p]]
            /\ arrived' = [arrived EXCEPT ![p] = @ + receiver[r].todo[p]]
            /\ supply' = receiver[r].status /\ threshold' = threshold /\ ordered' = ordered
    BY <1>2 DEF CommitReceipt
  <2>2. supply # "none" /\ supply' # "none"
    BY <2>1 DEF SupplyInv, OrderFirst, Busy, At
  <2>3. receiver[r].at \subseteq Supplied
    BY DEF SupplyInv, PurchaseOrdersTypeOK
  <2>4. shelf \in [Supplied -> Nat] /\ arrived \in [Supplied -> Nat]
    BY DEF SupplyInv, PurchaseOrdersTypeOK
  <2>5. receiver[r].todo[p] \in Nat
    BY <2>3, SupplyCounts
  <2>6. \A q \in Supplied : shelf'[q] - arrived'[q] = shelf[q] - arrived[q] /\ (arrived[q] <= shelf[q] => arrived'[q] <= shelf'[q])
    BY <2>1, <2>3, <2>4, <2>5
  <2>7. PoLines' = PoLines
    BY <2>1 DEF PoLines
  <2> QED BY <2>1, <2>2, <2>6, <2>7 DEF DraftSound
<1>3. ASSUME UNCHANGED <<shelf, threshold, ordered, arrived>>, supply' = "none" <=> supply = "none" PROVE DraftSound'
  BY <1>3 DEF DraftSound, PoLines
<1>4. ASSUME NEW r \in Receivers, mark_purchase_order_ordered(r) PROVE DraftSound'
  <2>1. supply # "none" /\ supply' # "none" /\ UNCHANGED <<shelf, threshold, ordered, arrived>>
    BY <1>4 DEF mark_purchase_order_ordered, SupplyInv, OrderFirst, Busy, At
  <2> QED BY <2>1, <1>3
<1>5. ASSUME NEW r \in Receivers, mark_ordered_action(r) \/ EditPurchaseOrder(r) \/ receive_view(r) PROVE DraftSound'
  BY <1>3, <1>5 DEF mark_ordered_action, EditPurchaseOrder, receive_view, Submit
<1>6. ASSUME NEW r \in Receivers,
             RefuseLine(r) \/ receive_purchase_order_line(r) \/ EvaluateOrder(r) \/ PageDone(r) \/ ReceiverDies(r)
      PROVE  DraftSound'
  BY <1>3, <1>6 DEF RefuseLine, receive_purchase_order_line, EvaluateOrder, PageDone, ReceiverDies
<1>7. CASE UNCHANGED supplyVars
  BY <1>3, <1>7 DEF supplyVars
<1> QED BY <1>1, <1>2, <1>4, <1>5, <1>6, <1>7 DEF PurchaseOrdersNext

\* Whatever the reservations, the four judgements of a product are those of what is left to sell.
LEMMA JudgedAlike ==
    ASSUME NEW onHand \in Nat, NEW reservations \in Nat, NEW limit \in Nat
    PROVE  LET available == LeftToSell(onHand, reservations)
           IN  /\ LowStockFilter("low", onHand, reservations, limit) <=> available > 0 /\ available <= limit
               /\ LowStockFilter("out", onHand, reservations, limit) <=> available = 0
               /\ LowStockFilter("healthy", onHand, reservations, limit) <=> available > limit
<1>1. /\ LowStockFilter("low", onHand, reservations, limit) <=> onHand > reservations /\ onHand <= reservations + limit
      /\ LowStockFilter("out", onHand, reservations, limit) <=> onHand <= reservations
      /\ LowStockFilter("healthy", onHand, reservations, limit) <=> onHand > reservations + limit
  BY DEF LowStockFilter
<1> QED BY <1>1 DEF LeftToSell

LEMMA SupplyInvAgrees == SupplyInv /\ DraftSound => StockReportsAgree
<1> SUFFICES ASSUME SupplyInv, DraftSound, NEW p \in Supplied,
                    NEW onHand \in 0..(shelf[p] + 1), NEW reservations \in 0..(shelf[p] + 1),
                    LeftToSell(onHand, reservations) = shelf[p]
             PROVE  LET Shows(value) == LowStockFilter(value, onHand, reservations, threshold[p])
                    IN  /\ Shows("low") <=> stock_status(shelf[p], threshold[p]) = "low_stock"
                        /\ Shows("low") <=> is_low_stock(shelf[p], threshold[p])
                        /\ Shows("out") <=> stock_status(shelf[p], threshold[p]) = "out_of_stock"
                        /\ Shows("healthy") <=> stock_status(shelf[p], threshold[p]) = "in_stock"
                        /\ (supply # "none" /\ arrived[p] = 0) => (p \in PoLines <=> ~Shows("healthy"))
                        /\ (supply = "received" /\ ~jostled /\ p \in PoLines) => Shows("healthy")
  BY DEF StockReportsAgree
<1>1. shelf[p] \in Nat /\ threshold[p] \in Nat /\ ordered[p] \in Nat /\ arrived[p] \in Nat /\ received[p] \in Nat
  BY SupplyCounts
<1>2. /\ LowStockFilter("low", onHand, reservations, threshold[p]) <=> shelf[p] > 0 /\ shelf[p] <= threshold[p]
      /\ LowStockFilter("out", onHand, reservations, threshold[p]) <=> shelf[p] = 0
      /\ LowStockFilter("healthy", onHand, reservations, threshold[p]) <=> shelf[p] > threshold[p]
  <2>1. onHand \in Nat /\ reservations \in Nat
    BY <1>1
  <2> QED BY <1>1, <2>1, JudgedAlike
<1>3. /\ stock_status(shelf[p], threshold[p]) = "low_stock" <=> shelf[p] > 0 /\ shelf[p] <= threshold[p]
      /\ stock_status(shelf[p], threshold[p]) = "out_of_stock" <=> shelf[p] = 0
      /\ stock_status(shelf[p], threshold[p]) = "in_stock" <=> shelf[p] > threshold[p]
      /\ is_low_stock(shelf[p], threshold[p]) <=> shelf[p] > 0 /\ shelf[p] <= threshold[p]
  BY <1>1 DEF stock_status, is_low_stock
<1>4. (supply # "none" /\ arrived[p] = 0) => (p \in PoLines <=> ~(shelf[p] > threshold[p]))
  BY <1>1 DEF DraftSound
<1>5. (supply = "received" /\ ~jostled /\ p \in PoLines) => shelf[p] > threshold[p]
  <2> HAVE supply = "received" /\ ~jostled /\ p \in PoLines
  <2>1. received[p] = ordered[p] /\ received[p] = arrived[p]
    BY DEF SupplyInv, Alone, StatusSays
  <2>2. (shelf[p] - arrived[p]) + ordered[p] > threshold[p]
    BY DEF DraftSound
  <2> QED BY <1>1, <2>1, <2>2
<1> QED BY <1>2, <1>3, <1>4, <1>5

\* However many pages book however many lines at once, and whichever break off: no line claims more
\* than was ordered or than reached the stock.  Only as long as no two pages have overlapped does it
\* claim exactly what reached the stock (receive_purchase_order_line in inventory/services.py).
THEOREM ReceiptsAreReal == PurchaseOrdersSpec => []LinesClaimNoMoreThanArrived
<1>1. PurchaseOrdersInit => SupplyInv
  BY SupplyInitInv
<1>2. SupplyInv /\ [PurchaseOrdersNext]_supplyVars => SupplyInv'
  BY SupplyStepInv
<1>3. SupplyInv => LinesClaimNoMoreThanArrived
  BY SupplyInvLines
<1> QED BY <1>1, <1>2, <1>3, PTL DEF PurchaseOrdersSpec

\* As long as no two pages have overlapped the status of the order says between any two pages what its
\* lines say, for any number of lines (receive_purchase_order_line in inventory/services.py).
THEOREM SupplyStatusTells == PurchaseOrdersSpec => []StatusTellsWhatArrived
<1>1. PurchaseOrdersInit => SupplyInv
  BY SupplyInitInv
<1>2. SupplyInv /\ [PurchaseOrdersNext]_supplyVars => SupplyInv'
  BY SupplyStepInv
<1>3. SupplyInv => StatusTellsWhatArrived
  BY SupplyInvStatus
<1> QED BY <1>1, <1>2, <1>3, PTL DEF PurchaseOrdersSpec

-----------------------------------------------------------------------------
(* Shipments                                                              *)

Shipper == [step : {"idle", "manifest", "track", "peek", "write", "order", "log", "submit"},
            by : {"nobody", "task", "staff", "form"}, copy : ShipmentRow, order : Purchase, peeked : ShippingStatus]

\* the steps at which a shipper holds a copy that it will save
Holding == {"manifest", "track", "peek", "write", "submit"}

DatesOf(c) ==
    /\ c.status = "delivered" => c.deliveredAt
    /\ c.status = "picked_up" => c.shippedAt

\* The row and every copy that may become the row have the dates of their status.
DatesMatchEverywhere ==
    /\ DatesOf(shipping)
    /\ \A w \in Shippers : shipper[w].step \in Holding => DatesOf(shipper[w].copy)

Follows ==
    /\ shipping.status \in {"picked_up", "in_transit", "out_for_delivery"} => purchase \in {"shipped", "refunded"}
    /\ shipping.status = "delivered" => purchase \in {"delivered", "refunded"}

\* The steps of one save, when nothing comes between them.
OneAtATime ==
    /\ \A v, w \in Shippers : ~Resting(v) /\ ~Resting(w) => v = w
    /\ trail.chain
    /\ \A w \in Shippers : AtSave(w, "write") => shipper[w].peeked = shipping.status
    /\ \A w \in Shippers : AtSave(w, "order") \/ AtSave(w, "log") =>
            shipper[w].peeked = trail.to /\ shipper[w].copy.status = shipping.status
    /\ (\A w \in Shippers : ~AtSave(w, "order") /\ ~AtSave(w, "log")) => trail.to = shipping.status
    /\ \A w \in Shippers :
            shipper[w].step \in {"manifest", "track", "peek", "write", "order"} /\ shipper[w].by # "task"
                => shipper[w].order = purchase
    /\ (\A w \in Shippers : ~AtSave(w, "order")) => Follows

ShipmentInv ==
    /\ ShipmentTypeOK
    /\ ~typedIn => DatesMatchEverywhere
    /\ ~crossed /\ shippersLost = 0 => OneAtATime

LEMMA AshoreIsShipper == Ashore \in Shipper /\ Ashore.step = "idle" /\ Ashore.copy \in ShipmentRow /\ DatesOf(Ashore.copy)
BY DEF Ashore, Shipper, ShipmentRow, ShippingStatus, Purchase, DatesOf

LEMMA ShipmentsInitInv == ShipmentsInit => ShipmentInv
<1> SUFFICES ASSUME ShipmentsInit PROVE ShipmentInv
  OBVIOUS
<1> USE ShipmentsAssumption DEF ShipmentsInit
<1>1. \A w \in Shippers : shipper[w].step = "idle"
  BY AshoreIsShipper
<1>2. ShipmentTypeOK
  <2>1. shipper \in [Shippers -> Shipper]
    BY AshoreIsShipper
  <2>2. shipping \in ShipmentRow /\ purchase \in Purchase /\ trail \in [to : ShippingStatus, chain : BOOLEAN]
    BY DEF ShipmentRow, ShippingStatus, Purchase
  <2>3. parcel \in Words /\ presses \in 0..MaxPresses /\ shippersLost \in 0..MaxShipperLost
    OBVIOUS
  <2> QED BY <2>1, <2>2, <2>3 DEF ShipmentTypeOK, Shipper, ShipmentRow
<1>3. DatesMatchEverywhere
  BY <1>1 DEF DatesMatchEverywhere, DatesOf, Holding
<1>4. OneAtATime
  BY <1>1 DEF OneAtATime, Resting, AtSave, Follows
<1> QED BY <1>2, <1>3, <1>4 DEF ShipmentInv

\* Every word of the carrier that the map knows stands for a status of ours.
LEMMA StatusMapped == \A word : map_tracking_status(word) \subseteq ShippingStatus
BY DEF map_tracking_status

LEMMA OrderMoves ==
    ASSUME NEW seen \in Purchase, NEW status \in ShippingStatus, purchase \in Purchase
    PROVE  /\ Moved(seen, status) \in Purchase
           /\ seen = purchase /\ status \in {"picked_up", "in_transit", "out_for_delivery"}
                => Moved(seen, status) = "shipped"
           /\ seen = purchase /\ status = "delivered" => Moved(seen, status) = "delivered"
           /\ status \notin {"picked_up", "in_transit", "out_for_delivery", "delivered"}
                => Moved(seen, status) = purchase
<1>1. CASE status = "delivered"
  <2>1. OrderStatusFor(status) = {"delivered"}
    BY <1>1 DEF OrderStatusFor
  <2> QED BY <1>1, <2>1 DEF Moved, Purchase
<1>2. CASE status \in {"picked_up", "in_transit", "out_for_delivery"}
  <2>1. OrderStatusFor(status) = {"shipped"}
    BY <1>2 DEF OrderStatusFor
  <2> QED BY <1>2, <2>1 DEF Moved, Purchase
<1>3. CASE status \notin {"picked_up", "in_transit", "out_for_delivery", "delivered"}
  <2>1. OrderStatusFor(status) = {}
    BY <1>3 DEF OrderStatusFor
  <2> QED BY <1>3, <2>1 DEF Moved
<1> QED BY <1>1, <1>2, <1>3

-----------------------------------------------------------------------------
(* Every action keeps the invariant                                        *)

\* Somebody loads the row and, it may be, the order.
LEMMA TakeInv ==
    ASSUME ShipmentInv, NEW w \in Shippers, NEW by \in {"task", "staff", "form"},
           NEW step \in {"manifest", "track", "peek", "submit"}, NEW copy \in ShipmentRow, Take(w, by, step, copy),
           typedIn' \in BOOLEAN, ~typedIn' => ~typedIn /\ (DatesOf(shipping) => DatesOf(copy)),
           by = "form" <=> step = "submit"
    PROVE  ShipmentInv'
<1> USE DEF ShipmentInv
<1>1. UNCHANGED <<parcel, shipping, purchase, trail, shippersLost>> /\ Resting(w)
  BY DEF Take
<1>2. [Ashore EXCEPT !.step = step, !.by = by, !.copy = copy, !.order = IF by = "staff" THEN purchase ELSE @]
      \in Shipper
  BY AshoreIsShipper DEF Shipper, ShipmentTypeOK
<1>3. shipper' \in [Shippers -> Shipper] /\ \A v \in Shippers \ {w} : shipper'[v] = shipper[v]
  BY <1>2 DEF Take, ShipmentTypeOK, Shipper, ShipmentRow
<1>4. shipper'[w].step = step /\ shipper'[w].by = by /\ shipper'[w].copy = copy
      /\ (by = "staff" => shipper'[w].order = purchase)
  BY AshoreIsShipper DEF Take, ShipmentTypeOK, Shipper, Ashore
<1>5. presses' \in 0..MaxPresses /\ crossed' \in BOOLEAN
  BY ShipmentsAssumption DEF Take, ShipmentTypeOK
<1>6. ShipmentTypeOK'
  BY <1>1, <1>3, <1>5 DEF ShipmentTypeOK, Shipper, ShipmentRow
<1>7. ~typedIn' => DatesMatchEverywhere'
  BY <1>1, <1>3, <1>4 DEF DatesMatchEverywhere, DatesOf
<1>8. ASSUME ~crossed', shippersLost' = 0 PROVE OneAtATime'
  <2>1. OneAtATime /\ \A v \in Shippers : Resting(v)
    BY <1>1, <1>8 DEF Take, OthersSaving
  <2>2. \A v \in Shippers : (v # w => Resting(v)') /\ ~AtSave(v, "write")' /\ ~AtSave(v, "order")' /\ ~AtSave(v, "log")'
    BY <1>3, <1>4, <2>1 DEF Resting, AtSave
  <2>3. \A v \in Shippers : ~AtSave(v, "write") /\ ~AtSave(v, "order") /\ ~AtSave(v, "log")
    BY <2>1 DEF Resting, AtSave
  <2>4. Follows'
    BY <1>1, <2>1, <2>3 DEF OneAtATime, Follows
  <2>5. trail'.to = shipping'.status /\ trail'.chain
    BY <1>1, <2>1, <2>3 DEF OneAtATime
  <2>6. ASSUME NEW v \in Shippers, shipper'[v].step \in {"manifest", "track", "peek", "write", "order"},
               shipper'[v].by # "task"
        PROVE  shipper'[v].order = purchase'
    BY <1>1, <1>4, <2>2, <2>6 DEF Resting
  <2> QED BY <2>2, <2>4, <2>5, <2>6 DEF OneAtATime
<1> QED BY <1>6, <1>7, <1>8

\* Somebody who has not saved yet lets go, or goes on with a changed copy.
LEMMA CarriesOn ==
    ASSUME ShipmentInv, NEW w \in Shippers, UNCHANGED <<parcel, shipping, purchase, trail, crossed, typedIn, presses>>,
           shippersLost' \in 0..MaxShipperLost, shippersLost' = 0 => shippersLost = 0,
           shipper' \in [Shippers -> Shipper], \A v \in Shippers \ {w} : shipper'[v] = shipper[v],
           ~Resting(w), shippersLost' # 0 \/ shipper[w].step \in Holding,
           \/ shipper'[w] = Ashore
           \/ /\ shipper[w].step \in {"manifest", "track"} /\ shipper'[w].step = "peek"
              /\ shipper'[w].by = shipper[w].by /\ shipper'[w].order = shipper[w].order
              /\ DatesOf(shipper[w].copy) => DatesOf(shipper'[w].copy)
    PROVE  ShipmentInv'
<1> USE DEF ShipmentInv
<1>1. ShipmentTypeOK'
  BY DEF ShipmentTypeOK, Shipper, ShipmentRow
<1>2. ~typedIn' => DatesMatchEverywhere'
  BY AshoreIsShipper DEF DatesMatchEverywhere, DatesOf, Holding
<1>3. ASSUME ~crossed', shippersLost' = 0 PROVE OneAtATime'
  <2>1. OneAtATime /\ shipper[w].step \in Holding
    BY <1>3
  <2>2. shipper'[w].step \in {"idle", "peek"}
    BY AshoreIsShipper
  <2>3. \A v \in Shippers \ {w} : Resting(v) /\ Resting(v)'
    BY <2>1 DEF OneAtATime, Resting
  <2>4. \A v \in Shippers : /\ ~AtSave(v, "order") /\ ~AtSave(v, "log")
                            /\ ~AtSave(v, "write")' /\ ~AtSave(v, "order")' /\ ~AtSave(v, "log")'
    BY <2>1, <2>2, <2>3 DEF AtSave, Resting, Holding
  <2>5. Follows' /\ trail'.to = shipping'.status /\ trail'.chain
    BY <2>1, <2>4 DEF OneAtATime, Follows
  <2>6. ASSUME NEW v \in Shippers, shipper'[v].step \in {"manifest", "track", "peek", "write", "order"},
               shipper'[v].by # "task"
        PROVE  shipper'[v].order = purchase'
    BY <2>1, <2>3, <2>6, AshoreIsShipper DEF OneAtATime, Resting
  <2> QED BY <2>3, <2>4, <2>5, <2>6 DEF OneAtATime
<1> QED BY <1>1, <1>2, <1>3

LEMMA DropInv ==
    ASSUME ShipmentInv, NEW w \in Shippers, Drop(w), ~Resting(w),
           UNCHANGED <<parcel, shipping, purchase, trail, crossed, typedIn, presses>>,
           shippersLost' \in 0..MaxShipperLost, shippersLost' = 0 => shippersLost = 0,
           shippersLost' # 0 \/ shipper[w].step \in Holding
    PROVE  ShipmentInv'
<1>1. shipper' \in [Shippers -> Shipper] /\ shipper'[w] = Ashore
      /\ \A v \in Shippers \ {w} : shipper'[v] = shipper[v]
  BY AshoreIsShipper DEF Drop, ShipmentInv, ShipmentTypeOK, Shipper, ShipmentRow
<1> QED BY <1>1, CarriesOn

LEMMA CarrierAnswersInv ==
    ASSUME ShipmentInv, NEW w \in Shippers,
           assign_delhivery_waybill(w) \/ create_waybill(w) \/ TrackAnswers(w) \/ track(w)
    PROVE  ShipmentInv'
<1> USE DEF ShipmentInv
<1>1. /\ shipper[w].step \in {"manifest", "track"} /\ ~Resting(w) /\ shipper[w].step \in Holding
      /\ UNCHANGED <<parcel, shipping, purchase, trail, crossed, typedIn, presses, shippersLost>>
  BY DEF assign_delhivery_waybill, create_waybill, TrackAnswers, track, AtSave, Resting, Holding
<1>2. shippersLost' \in 0..MaxShipperLost /\ shipper[w] \in Shipper
  BY <1>1 DEF ShipmentTypeOK, Shipper, ShipmentRow
<1>3. CASE Drop(w)
  BY <1>1, <1>2, <1>3, DropInv
<1>4. CASE assign_delhivery_waybill(w)
  <2>1. shipper' = [shipper EXCEPT ![w].step = "peek", ![w].copy.waybill = TRUE]
    BY <1>4 DEF assign_delhivery_waybill
  <2>2. [shipper[w] EXCEPT !.step = "peek", !.copy.waybill = TRUE] \in Shipper
    BY <1>2 DEF Shipper, ShipmentRow
  <2>3. shipper' \in [Shippers -> Shipper] /\ \A v \in Shippers \ {w} : shipper'[v] = shipper[v]
    BY <2>1, <2>2 DEF ShipmentTypeOK, Shipper, ShipmentRow
  <2>4. /\ shipper'[w].step = "peek" /\ shipper'[w].by = shipper[w].by /\ shipper'[w].order = shipper[w].order
        /\ DatesOf(shipper[w].copy) => DatesOf(shipper'[w].copy)
    BY <1>2, <2>1 DEF ShipmentTypeOK, Shipper, ShipmentRow, DatesOf
  <2> QED BY <1>1, <1>2, <2>3, <2>4, CarriesOn
<1>5. CASE TrackAnswers(w)
  <2> DEFINE news == map_tracking_status(parcel) \ {shipper[w].copy.status}
  <2>1. CASE news = {}
    <3>1. shipper' \in [Shippers -> Shipper] /\ shipper'[w] = Ashore
          /\ \A v \in Shippers \ {w} : shipper'[v] = shipper[v]
      BY <1>5, <2>1, AshoreIsShipper DEF TrackAnswers, ShipmentTypeOK, Shipper, ShipmentRow
    <3> QED BY <1>1, <1>2, <3>1, CarriesOn
  <2>2. CASE news # {}
    <3>1. PICK status \in news :
            shipper' = [shipper EXCEPT ![w] = [shipper[w] EXCEPT !.step = "peek", !.copy = Tracked(shipper[w].copy, status)]]
      <4> DEFINE first == CHOOSE status \in news : TRUE
      <4>1. first \in news
        BY <2>2
      <4>2. shipper' = [shipper EXCEPT ![w] = [shipper[w] EXCEPT !.step = "peek", !.copy = Tracked(shipper[w].copy, first)]]
        BY <1>5, <2>2, Zenon DEF TrackAnswers
      <4> HIDE DEF first
      <4> QED BY <4>1, <4>2
    <3>2. Tracked(shipper[w].copy, status) \in ShipmentRow /\ DatesOf(Tracked(shipper[w].copy, status))
      BY <1>2, StatusMapped DEF Tracked, Shipper, ShipmentRow, DatesOf
    <3>3. [shipper[w] EXCEPT !.step = "peek", !.copy = Tracked(shipper[w].copy, status)] \in Shipper
      BY <1>2, <3>2 DEF Shipper
    <3>4. shipper' \in [Shippers -> Shipper] /\ \A v \in Shippers \ {w} : shipper'[v] = shipper[v]
      BY <3>1, <3>3 DEF ShipmentTypeOK, Shipper, ShipmentRow
    <3>5. /\ shipper'[w].step = "peek" /\ shipper'[w].by = shipper[w].by /\ shipper'[w].order = shipper[w].order
          /\ DatesOf(shipper'[w].copy)
      BY <1>2, <3>1, <3>2 DEF ShipmentTypeOK, Shipper
    <3> QED BY <1>1, <1>2, <3>4, <3>5, CarriesOn
  <2> QED BY <2>1, <2>2
<1> QED BY <1>3, <1>4, <1>5 DEF create_waybill, track

LEMMA PeekInv ==
    ASSUME ShipmentInv, NEW w \in Shippers, _cache_previous_status(w)
    PROVE  ShipmentInv'
<1> USE DEF ShipmentInv
<1>1. UNCHANGED <<parcel, shipping, purchase, trail, crossed, typedIn, presses, shippersLost>> /\ AtSave(w, "peek")
      /\ shipper' = [shipper EXCEPT ![w].step = "write", ![w].peeked = shipping.status]
  BY DEF _cache_previous_status
<1>2. shipper[w] \in Shipper /\ shipping.status \in ShippingStatus
  BY DEF ShipmentTypeOK, Shipper, ShipmentRow
<1>3. [shipper[w] EXCEPT !.step = "write", !.peeked = shipping.status] \in Shipper
  BY <1>2 DEF Shipper
<1>4. shipper' \in [Shippers -> Shipper] /\ \A v \in Shippers \ {w} : shipper'[v] = shipper[v]
  BY <1>1, <1>3 DEF ShipmentTypeOK, Shipper, ShipmentRow
<1>5. /\ shipper'[w].step = "write" /\ shipper'[w].copy = shipper[w].copy /\ shipper'[w].by = shipper[w].by
      /\ shipper'[w].order = shipper[w].order /\ shipper'[w].peeked = shipping.status
  BY <1>1, <1>2 DEF ShipmentTypeOK, Shipper
<1>6. ShipmentTypeOK'
  BY <1>1, <1>4 DEF ShipmentTypeOK, Shipper, ShipmentRow
<1>7. ~typedIn' => DatesMatchEverywhere'
  BY <1>1, <1>4, <1>5 DEF DatesMatchEverywhere, DatesOf, Holding, AtSave
<1>8. ASSUME ~crossed', shippersLost' = 0 PROVE OneAtATime'
  <2>1. OneAtATime
    BY <1>1, <1>8
  <2>2. \A v \in Shippers \ {w} : Resting(v) /\ Resting(v)'
    BY <1>1, <1>4, <2>1 DEF OneAtATime, Resting, AtSave
  <2>3. \A v \in Shippers : ~AtSave(v, "order") /\ ~AtSave(v, "log") /\ ~AtSave(v, "order")' /\ ~AtSave(v, "log")'
    BY <1>1, <1>5, <2>2 DEF AtSave, Resting
  <2>4. Follows' /\ trail'.to = shipping'.status /\ trail'.chain
    BY <1>1, <2>1, <2>3 DEF OneAtATime, Follows
  <2>5. \A v \in Shippers : AtSave(v, "write")' => shipper'[v].peeked = shipping'.status
    BY <1>1, <1>5, <2>2 DEF AtSave, Resting
  <2>6. ASSUME NEW v \in Shippers, shipper'[v].step \in {"manifest", "track", "peek", "write", "order"},
               shipper'[v].by # "task"
        PROVE  shipper'[v].order = purchase'
    BY <1>1, <1>5, <2>1, <2>2, <2>6 DEF OneAtATime, Resting, AtSave
  <2> QED BY <2>2, <2>3, <2>4, <2>5, <2>6 DEF OneAtATime
<1> QED BY <1>6, <1>7, <1>8

LEMMA WriteShipmentInv ==
    ASSUME ShipmentInv, NEW w \in Shippers, WriteShipment(w)
    PROVE  ShipmentInv'
<1> USE DEF ShipmentInv
<1> DEFINE left == [Ashore.copy EXCEPT !.status = shipper[w].copy.status]
<1>1. UNCHANGED <<parcel, purchase, trail, crossed, typedIn, presses, shippersLost>> /\ AtSave(w, "write")
      /\ shipping' = shipper[w].copy /\ shipper' = [shipper EXCEPT ![w].step = "order", ![w].copy = left]
  BY DEF WriteShipment
<1>2. shipper[w] \in Shipper /\ shipper[w].copy \in ShipmentRow
  BY DEF ShipmentTypeOK, Shipper, ShipmentRow
<1>3. left \in ShipmentRow /\ left.status = shipper[w].copy.status
  BY <1>2, AshoreIsShipper DEF ShipmentRow
<1> HIDE DEF left
<1>4. [shipper[w] EXCEPT !.step = "order", !.copy = left] \in Shipper
  BY <1>2, <1>3 DEF Shipper
<1>5. shipper' \in [Shippers -> Shipper] /\ \A v \in Shippers \ {w} : shipper'[v] = shipper[v]
  BY <1>1, <1>4 DEF ShipmentTypeOK, Shipper, ShipmentRow
<1>6. /\ shipper'[w].step = "order" /\ shipper'[w].copy = left /\ shipper'[w].by = shipper[w].by
      /\ shipper'[w].order = shipper[w].order /\ shipper'[w].peeked = shipper[w].peeked
  BY <1>1, <1>2 DEF ShipmentTypeOK, Shipper
<1>7. ShipmentTypeOK'
  BY <1>1, <1>2, <1>5 DEF ShipmentTypeOK, Shipper, ShipmentRow
<1>8. ~typedIn' => DatesMatchEverywhere'
  BY <1>1, <1>5, <1>6 DEF DatesMatchEverywhere, DatesOf, Holding, AtSave
<1>9. ASSUME ~crossed', shippersLost' = 0 PROVE OneAtATime'
  <2>1. OneAtATime
    BY <1>1, <1>9
  <2>2. \A v \in Shippers \ {w} : Resting(v) /\ Resting(v)'
    BY <1>1, <1>5, <2>1 DEF OneAtATime, Resting, AtSave
  <2>3. shipper[w].peeked = shipping.status /\ trail.to = shipping.status /\ trail.chain
    BY <1>1, <2>1, <2>2 DEF OneAtATime, Resting, AtSave
  <2>4. AtSave(w, "order")' /\ \A v \in Shippers : ~AtSave(v, "write")' /\ (v # w => ~AtSave(v, "order")' /\ ~AtSave(v, "log")')
    BY <1>6, <2>2 DEF AtSave, Resting
  <2>5. shipper'[w].peeked = trail'.to /\ shipper'[w].copy.status = shipping'.status
    BY <1>1, <1>3, <1>6, <2>3
  <2>6. ASSUME NEW v \in Shippers, shipper'[v].step \in {"manifest", "track", "peek", "write", "order"},
               shipper'[v].by # "task"
        PROVE  shipper'[v].order = purchase'
    BY <1>1, <1>6, <2>1, <2>2, <2>6 DEF OneAtATime, Resting, AtSave
  <2>7. ~AtSave(w, "log")' /\ trail'.chain
    BY <1>1, <1>6, <2>3 DEF AtSave
  <2> QED BY <2>2, <2>4, <2>5, <2>6, <2>7 DEF OneAtATime
<1> QED BY <1>7, <1>8, <1>9

LEMMA SyncOrderInv ==
    ASSUME ShipmentInv, NEW w \in Shippers, _sync_order_status(w)
    PROVE  ShipmentInv'
<1> USE DEF ShipmentInv
<1> DEFINE seen == IF shipper[w].by = "task" THEN purchase ELSE shipper[w].order
<1>1. UNCHANGED <<parcel, shipping, trail, crossed, typedIn, presses, shippersLost>> /\ AtSave(w, "order")
      /\ shipper' = [shipper EXCEPT ![w].step = "log"] /\ purchase' = Moved(seen, shipper[w].copy.status)
  BY DEF _sync_order_status
<1>2. shipper[w] \in Shipper /\ seen \in Purchase /\ shipper[w].copy.status \in ShippingStatus
      /\ purchase \in Purchase
  BY DEF ShipmentTypeOK, Shipper, ShipmentRow
<1>3. [shipper[w] EXCEPT !.step = "log"] \in Shipper
  BY <1>2 DEF Shipper
<1>4. shipper' \in [Shippers -> Shipper] /\ \A v \in Shippers \ {w} : shipper'[v] = shipper[v]
  BY <1>1, <1>3 DEF ShipmentTypeOK, Shipper, ShipmentRow
<1>5. /\ shipper'[w].step = "log" /\ shipper'[w].copy = shipper[w].copy /\ shipper'[w].peeked = shipper[w].peeked
  BY <1>1, <1>2 DEF ShipmentTypeOK, Shipper
<1>6. ShipmentTypeOK'
  BY <1>1, <1>2, <1>4, OrderMoves DEF ShipmentTypeOK, Shipper, ShipmentRow
<1>7. ~typedIn' => DatesMatchEverywhere'
  BY <1>1, <1>4, <1>5 DEF DatesMatchEverywhere, DatesOf, Holding, AtSave
<1>8. ASSUME ~crossed', shippersLost' = 0 PROVE OneAtATime'
  <2>1. OneAtATime
    BY <1>1, <1>8
  <2>2. \A v \in Shippers \ {w} : Resting(v) /\ Resting(v)'
    BY <1>1, <1>4, <2>1 DEF OneAtATime, Resting, AtSave
  <2>3. shipper[w].peeked = trail.to /\ shipper[w].copy.status = shipping.status /\ trail.chain /\ seen = purchase
    BY <1>1, <2>1 DEF OneAtATime, AtSave
  <2> HIDE DEF seen
  <2>4. Follows'
    BY <1>1, <1>2, <2>3, OrderMoves DEF Follows
  <2>5. \A v \in Shippers : ~AtSave(v, "write")' /\ ~AtSave(v, "order")' /\ (AtSave(v, "log")' => v = w)
    BY <1>5, <2>2 DEF AtSave, Resting
  <2>6. AtSave(w, "log")' /\ \A v \in Shippers :
            ~(shipper'[v].step \in {"manifest", "track", "peek", "write", "order"})
    BY <1>5, <2>2 DEF AtSave, Resting
  <2> QED BY <1>1, <1>5, <2>2, <2>3, <2>4, <2>5, <2>6 DEF OneAtATime
<1> QED BY <1>6, <1>7, <1>8

\* A save that is finished: its entry is in the trail.
LEMMA LogInv ==
    ASSUME ShipmentInv, NEW w \in Shippers, _record_status_history(w)
    PROVE  ShipmentInv'
<1> USE DEF ShipmentInv
<1>1. UNCHANGED <<parcel, shipping, purchase, crossed, typedIn, presses, shippersLost>> /\ AtSave(w, "log")
      /\ trail' = Logged(shipper[w].peeked, shipper[w].copy.status)
  BY DEF _record_status_history
<1>2. shipper' \in [Shippers -> Shipper] /\ shipper'[w] = Ashore
      /\ \A v \in Shippers \ {w} : shipper'[v] = shipper[v]
  BY AshoreIsShipper DEF _record_status_history, Drop, ShipmentTypeOK, Shipper, ShipmentRow
<1>3. shipper[w] \in Shipper /\ shipper[w].copy.status \in ShippingStatus
  BY DEF ShipmentTypeOK, Shipper, ShipmentRow
<1>4. trail' \in [to : ShippingStatus, chain : BOOLEAN]
  BY <1>1, <1>3 DEF Logged, ShipmentTypeOK
<1>5. ShipmentTypeOK'
  BY <1>1, <1>2, <1>4 DEF ShipmentTypeOK, Shipper, ShipmentRow
<1>6. ~typedIn' => DatesMatchEverywhere'
  BY <1>1, <1>2, AshoreIsShipper DEF DatesMatchEverywhere, DatesOf, Holding
<1>7. ASSUME ~crossed', shippersLost' = 0 PROVE OneAtATime'
  <2>1. OneAtATime
    BY <1>1, <1>7
  <2>2. \A v \in Shippers : Resting(v)'
    BY <1>1, <1>2, <2>1, AshoreIsShipper DEF OneAtATime, Resting, AtSave
  <2>3. \A v \in Shippers : shipper'[v].step = "idle"
    BY <2>2 DEF Resting
  <2>4. shipper[w].peeked = trail.to /\ shipper[w].copy.status = shipping.status /\ trail.chain
    BY <1>1, <2>1 DEF OneAtATime
  <2>5. trail'.to = shipping'.status /\ trail'.chain
    BY <1>1, <2>4 DEF Logged
  <2>6. \A v \in Shippers : ~AtSave(v, "order")
    BY <1>1, <2>1 DEF OneAtATime, Resting, AtSave
  <2>7. Follows'
    BY <1>1, <2>1, <2>6 DEF OneAtATime, Follows
  <2> QED BY <2>2, <2>3, <2>5, <2>7 DEF OneAtATime, AtSave
<1> QED BY <1>5, <1>6, <1>7

\* The form: row, order and trail in one transaction.
LEMMA FormInv ==
    ASSUME ShipmentInv, NEW w \in Shippers, SubmitForm(w)
    PROVE  ShipmentInv'
<1> USE DEF ShipmentInv
<1>1. UNCHANGED <<parcel, crossed, typedIn, presses, shippersLost>> /\ AtSave(w, "submit")
      /\ shipping' = shipper[w].copy /\ purchase' = Moved(purchase, shipper[w].copy.status)
      /\ trail' = Logged(shipping.status, shipper[w].copy.status)
  BY DEF SubmitForm
<1>2. shipper' \in [Shippers -> Shipper] /\ shipper'[w] = Ashore
      /\ \A v \in Shippers \ {w} : shipper'[v] = shipper[v]
  BY AshoreIsShipper DEF SubmitForm, Drop, ShipmentTypeOK, Shipper, ShipmentRow
<1>3. shipper[w] \in Shipper /\ shipper[w].copy \in ShipmentRow /\ shipper[w].copy.status \in ShippingStatus
      /\ purchase \in Purchase
  BY DEF ShipmentTypeOK, Shipper, ShipmentRow
<1>4. trail' \in [to : ShippingStatus, chain : BOOLEAN]
  BY <1>1, <1>3 DEF Logged, ShipmentTypeOK
<1>5. ShipmentTypeOK'
  BY <1>1, <1>2, <1>3, <1>4, OrderMoves DEF ShipmentTypeOK, Shipper, ShipmentRow
<1>6. ~typedIn' => DatesMatchEverywhere'
  BY <1>1, <1>2, AshoreIsShipper DEF DatesMatchEverywhere, DatesOf, Holding, AtSave
<1>7. ASSUME ~crossed', shippersLost' = 0 PROVE OneAtATime'
  <2>1. OneAtATime
    BY <1>1, <1>7
  <2>2. \A v \in Shippers : Resting(v)' /\ ~AtSave(v, "order") /\ ~AtSave(v, "log")
    BY <1>1, <1>2, <2>1, AshoreIsShipper DEF OneAtATime, Resting, AtSave
  <2>3. \A v \in Shippers : shipper'[v].step = "idle"
    BY <2>2 DEF Resting
  <2>4. trail.to = shipping.status /\ trail.chain /\ Follows
    BY <2>1, <2>2 DEF OneAtATime
  <2>5. trail'.to = shipping'.status /\ trail'.chain
    BY <1>1, <2>4 DEF Logged
  <2>6. Follows'
    BY <1>1, <1>3, OrderMoves DEF Follows
  <2> QED BY <2>2, <2>3, <2>5, <2>6 DEF OneAtATime, AtSave
<1> QED BY <1>5, <1>6, <1>7

LEMMA CarrierMovesInv == ShipmentInv /\ CarrierMoves => ShipmentInv'
<1> SUFFICES ASSUME ShipmentInv, CarrierMoves PROVE ShipmentInv'
  OBVIOUS
<1> USE DEF ShipmentInv
<1>1. UNCHANGED <<shipping, purchase, trail, shipper, crossed, typedIn, presses, shippersLost>> /\ parcel' \in Words
  BY ShipmentsAssumption DEF CarrierMoves
<1>2. ShipmentTypeOK'
  BY <1>1 DEF ShipmentTypeOK
<1> QED BY <1>1, <1>2 DEF DatesMatchEverywhere, OneAtATime, Resting, AtSave, Follows

LEMMA OrderClosesInv == ShipmentInv /\ OrderCloses => ShipmentInv'
<1> SUFFICES ASSUME ShipmentInv, OrderCloses PROVE ShipmentInv'
  OBVIOUS
<1> USE DEF ShipmentInv
<1>1. UNCHANGED <<parcel, shipping, trail, shipper, typedIn, presses, shippersLost>>
      /\ ((purchase = "packed" /\ purchase' = "cancelled") \/ purchase' = "refunded")
      /\ crossed' = (crossed \/ \E v \in Shippers : ~Resting(v))
  BY DEF OrderCloses
<1>2. ShipmentTypeOK'
  BY <1>1 DEF ShipmentTypeOK, Purchase
<1>3. ~typedIn' => DatesMatchEverywhere'
  BY <1>1 DEF DatesMatchEverywhere
<1>4. ASSUME ~crossed', shippersLost' = 0 PROVE OneAtATime'
  <2>1. OneAtATime /\ \A v \in Shippers : Resting(v)
    BY <1>1, <1>4
  <2>2. \A v \in Shippers : shipper[v].step = "idle" /\ shipper'[v].step = "idle"
    BY <1>1, <2>1 DEF Resting
  <2>3. Follows'
    BY <1>1, <2>1, <2>2 DEF OneAtATime, Follows, AtSave
  <2> QED BY <1>1, <2>1, <2>2, <2>3 DEF OneAtATime, Resting, AtSave
<1> QED BY <1>2, <1>3, <1>4

LEMMA ShipperDiesInv ==
    ASSUME ShipmentInv, NEW w \in Shippers, ShipperDies(w)
    PROVE  ShipmentInv'
<1>1. /\ Drop(w) /\ ~Resting(w) /\ UNCHANGED <<parcel, shipping, purchase, trail, crossed, typedIn, presses>>
      /\ shippersLost' = shippersLost + 1 /\ shippersLost < MaxShipperLost /\ shippersLost \in 0..MaxShipperLost
  BY DEF ShipperDies, ShipmentInv, ShipmentTypeOK
<1>2. shippersLost' \in 0..MaxShipperLost /\ shippersLost' # 0
  BY <1>1, ShipmentsAssumption
<1> QED BY <1>1, <1>2, DropInv

\* The pages and the task: each begins by loading the row.
LEMMA LoadsInv ==
    ASSUME ShipmentInv, NEW w \in Shippers,
           \/ mark_picked_up(w) \/ mark_delivered(w) \/ EditShipment(w) \/ assign_delhivery_waybill_action(w)
           \/ sync_delhivery_tracking_action(w) \/ sync_all_shipment_tracking(w)
    PROVE  ShipmentInv'
<1>1. shipping \in ShipmentRow /\ typedIn \in BOOLEAN
  BY DEF ShipmentInv, ShipmentTypeOK, ShipmentRow
<1>2. CASE mark_picked_up(w)
  <2>1. PICK c \in ShipmentRow : c = [shipping EXCEPT !.status = "picked_up", !.shippedAt = TRUE]
    BY <1>1 DEF ShipmentRow, ShippingStatus
  <2>2. Take(w, "staff", "peek", c) /\ typedIn' = typedIn /\ DatesOf(c)
    BY <1>1, <1>2, <2>1 DEF mark_picked_up, DatesOf, ShipmentRow
  <2> QED BY <1>1, <2>2, TakeInv
<1>3. CASE mark_delivered(w)
  <2>1. PICK c \in ShipmentRow : c = [shipping EXCEPT !.status = "delivered", !.deliveredAt = TRUE]
    BY <1>1 DEF ShipmentRow, ShippingStatus
  <2>2. Take(w, "staff", "peek", c) /\ typedIn' = typedIn /\ DatesOf(c)
    BY <1>1, <1>3, <2>1 DEF mark_delivered, DatesOf, ShipmentRow
  <2> QED BY <1>1, <2>2, TakeInv
<1>4. CASE EditShipment(w)
  <2>1. PICK c \in ShipmentRow : Take(w, "form", "submit", c) /\ typedIn' = (typedIn \/ c # shipping)
    BY <1>4, ShipmentsAssumption DEF EditShipment
  <2>2. typedIn' \in BOOLEAN /\ (~typedIn' => ~typedIn /\ c = shipping)
    BY <1>1, <2>1
  <2> QED BY <2>1, <2>2, TakeInv
<1>5. CASE assign_delhivery_waybill_action(w) \/ sync_delhivery_tracking_action(w)
  <2>1. PICK c \in ShipmentRow : c = shipping
    BY <1>1
  <2>2. (Take(w, "staff", "manifest", c) \/ Take(w, "staff", "track", c)) /\ typedIn' = typedIn
    BY <1>5, <2>1 DEF assign_delhivery_waybill_action, sync_delhivery_tracking_action
  <2> QED BY <1>1, <2>1, <2>2, TakeInv
<1>6. CASE sync_all_shipment_tracking(w)
  <2>1. PICK c \in ShipmentRow : c = shipping
    BY <1>1
  <2>2. Take(w, "task", "track", c) /\ typedIn' = typedIn
    BY <1>6, <2>1 DEF sync_all_shipment_tracking
  <2> QED BY <1>1, <2>1, <2>2, TakeInv
<1> QED BY <1>2, <1>3, <1>4, <1>5, <1>6

LEMMA ShipmentsStepInv == ShipmentInv /\ [ShipmentsNext]_shipmentVars => ShipmentInv'
<1> SUFFICES ASSUME ShipmentInv, [ShipmentsNext]_shipmentVars PROVE ShipmentInv'
  OBVIOUS
<1>1. CASE UNCHANGED shipmentVars
  BY <1>1 DEF shipmentVars, ShipmentInv, ShipmentTypeOK, DatesMatchEverywhere, OneAtATime, Resting, AtSave, Follows
<1>2. ASSUME NEW w \in Shippers,
             \/ mark_picked_up(w) \/ mark_delivered(w) \/ EditShipment(w) \/ assign_delhivery_waybill_action(w)
             \/ sync_delhivery_tracking_action(w) \/ sync_all_shipment_tracking(w)
      PROVE  ShipmentInv'
  BY <1>2, LoadsInv
<1>3. ASSUME NEW w \in Shippers, assign_delhivery_waybill(w) \/ create_waybill(w) \/ TrackAnswers(w) \/ track(w)
      PROVE  ShipmentInv'
  BY <1>3, CarrierAnswersInv
<1>4. ASSUME NEW w \in Shippers, Save(w) PROVE ShipmentInv'
  BY <1>4, PeekInv, WriteShipmentInv, SyncOrderInv, LogInv, FormInv DEF Save
<1>5. ASSUME NEW w \in Shippers, ShipperDies(w) PROVE ShipmentInv'
  BY <1>5, ShipperDiesInv
<1>6. CASE CarrierMoves \/ OrderCloses
  BY <1>6, CarrierMovesInv, OrderClosesInv
<1> QED BY <1>1, <1>2, <1>3, <1>4, <1>5, <1>6 DEF ShipmentsNext, Shippers

-----------------------------------------------------------------------------
(* What follows                                                            *)

LEMMA ShipmentInvTells == ShipmentInv => ShipmentTypeOK /\ DatesMatchStatus /\ OrderFollowsShipment /\ TrailIsAChain
<1> SUFFICES ASSUME ShipmentInv PROVE ShipmentTypeOK /\ DatesMatchStatus /\ OrderFollowsShipment /\ TrailIsAChain
  OBVIOUS
<1>1. ShipmentTypeOK /\ DatesMatchStatus
  BY DEF ShipmentInv, DatesMatchEverywhere, DatesOf, DatesMatchStatus
<1>2. OrderFollowsShipment
  BY DEF ShipmentInv, OneAtATime, OrderFollowsShipment, Follows, Resting, AtSave
<1>3. TrailIsAChain
  BY DEF ShipmentInv, OneAtATime, TrailIsAChain
<1> QED BY <1>1, <1>2, <1>3

LEMMA ShipmentInvHolds == ShipmentsSpec => []ShipmentInv
BY ShipmentsInitInv, ShipmentsStepInv, PTL DEF ShipmentsSpec

\* As long as staff typed nothing into the form, a shipment that shows delivered has the day of its
\* delivery, and one that shows picked up the day it was shipped, however many stale saves overwrite one
\* another (the setters of fulfillment/services.py write the date with the status, and a save writes
\* the whole row).  Nothing is said of the other statuses, nor that a date implies its status.
THEOREM DatesAlwaysMatch == ShipmentsSpec => []DatesMatchStatus
BY ShipmentInvHolds, ShipmentInvTells, PTL

\* For any number of shippers: as long as no two saves have met and none has broken off, the order
\* follows its shipment whenever nobody is saving, and the trail of the parcel's statuses is a chain
\* (fulfillment/signals.py).
THEOREM OrderAndTrailFollow == ShipmentsSpec => [](OrderFollowsShipment /\ TrailIsAChain)
BY ShipmentInvHolds, ShipmentInvTells, PTL

\* The variables keep their types.
THEOREM ShipmentTypesHold == ShipmentsSpec => []ShipmentTypeOK
BY ShipmentInvHolds, ShipmentInvTells, PTL

-----------------------------------------------------------------------------
(* The mail queue                                                          *)

MailIn(w, step, l) == mailer[w].step = step /\ l \in mailer[w].has

\* everybody that some template goes to
Recipients == UNION {t[2].to \union t[2].cc : t \in Templates}

Letter == [at : {"nowhere", "dropped", "queued", "delivered", "sent", "failed", "lost"},
           to : SUBSET Recipients, retries : 0..max_retries]

\* A message is with one worker or with the broker, and a letter that no worker was lost with was
\* taken by the mail server exactly if it is sent or waits to be acknowledged.
EmailsInv ==
    /\ letter \in [Letters -> Letter]
    /\ \A l \in Letters : letter[l].at = "failed" => letter[l].retries = max_retries
    /\ mailer \in [Mailers -> [step : {"idle", "send", "ack"}, has : SUBSET Letters]]
    /\ copies \in [Letters -> Nat]
    /\ \A w \in Mailers : \A l \in mailer[w].has : letter[l].at = "delivered" /\ mailer[w].has = {l}
    /\ \A v, w \in Mailers : mailer[v].has \intersect mailer[w].has # {} => v = w
    /\ \A w \in Mailers : mailer[w].step = "idle" => mailer[w].has = {}
    /\ \A l \in Letters \ again :
        copies[l] = IF letter[l].at = "sent" \/ \E w \in Mailers : MailIn(w, "ack", l) THEN 1 ELSE 0

LEMMA EmailsInitInv == EmailsInit => EmailsInv
<1> SUFFICES ASSUME EmailsInit PROVE EmailsInv
  OBVIOUS
<1>1. Unwritten \in Letter /\ Unwritten.at = "nowhere"
  BY EmailsAssumption DEF Unwritten, Letter
<1>2. /\ letter \in [Letters -> Letter] /\ \A l \in Letters : letter[l].at = "nowhere"
      /\ \A w \in Mailers : mailer[w].step = "idle" /\ mailer[w].has = {}
      /\ mailer \in [Mailers -> [step : {"idle", "send", "ack"}, has : SUBSET Letters]]
      /\ copies \in [Letters -> Nat] /\ \A l \in Letters : copies[l] = 0
  BY <1>1 DEF EmailsInit, Unoccupied
<1> QED BY <1>2 DEF EmailsInv, Letter, MailIn

\* What the steps do to one letter.
LEMMA LetterGoes ==
    ASSUME NEW this \in Letter, NEW place \in {"queued", "delivered", "sent", "lost"}
    PROVE  [this EXCEPT !.at = place] \in Letter /\ [this EXCEPT !.at = place].at = place
BY DEF Letter

LEMMA LetterTriedAgain ==
    ASSUME NEW this \in Letter
    PROVE  /\ Retried(this) \in Letter /\ Retried(this).at \in {"queued", "failed"}
           /\ Retried(this).at = "failed" => Retried(this).retries = max_retries
<1>1. CASE this.retries < max_retries
  <2>1. Retried(this) = [this EXCEPT !.at = "queued", !.retries = this.retries + 1]
    BY <1>1 DEF Retried
  <2>2. this.retries + 1 \in 0..max_retries
    BY <1>1, EmailsAssumption DEF Letter
  <2> QED BY <2>1, <2>2 DEF Letter
<1>2. CASE ~(this.retries < max_retries)
  <2>1. Retried(this) = [this EXCEPT !.at = "failed"]
    BY <1>2 DEF Retried
  <2>2. this.retries = max_retries
    BY <1>2, EmailsAssumption DEF Letter
  <2> QED BY <2>1, <2>2 DEF Letter
<1> QED BY <1>1, <1>2

LEMMA EmailsStepInv == EmailsInv /\ [EmailsNext]_emailVars => EmailsInv'
<1> SUFFICES ASSUME EmailsInv, [EmailsNext]_emailVars PROVE EmailsInv'
  OBVIOUS
<1> USE DEF EmailsInv, Letter
<1>1. CASE UNCHANGED emailVars
  BY <1>1 DEF emailVars, MailIn
<1>2. ASSUME NEW l \in Letters, send_templated_email(l) PROVE EmailsInv'
  <2>1. PICK new \in Letter : letter' = [letter EXCEPT ![l] = new] /\ new.at \in {"dropped", "queued"}
    <3>1. PICK template \in Templates :
            LET who == template[2]
            IN  letter' = [letter EXCEPT ![l] = IF who.to = {} THEN [letter[l] EXCEPT !.at = "dropped"]
                                                ELSE [letter[l] EXCEPT !.at = "queued", !.to = who.to \union who.cc]]
      BY <1>2, Zenon DEF send_templated_email
    <3>2. PICK readers : readers = template[2].to \union template[2].cc
      OBVIOUS
    <3>3. readers \subseteq Recipients
      BY <3>2 DEF Recipients
    <3>4. letter[l] \in Letter
      OBVIOUS
    <3>5. PICK dropped \in Letter : dropped = [letter[l] EXCEPT !.at = "dropped"]
      BY <3>4 DEF Letter
    <3>6. PICK queued \in Letter : queued = [letter[l] EXCEPT !.at = "queued", !.to = readers]
      BY <3>3, <3>4 DEF Letter
    <3>7. letter' = [letter EXCEPT ![l] = dropped] \/ letter' = [letter EXCEPT ![l] = queued]
      BY <3>1, <3>2, <3>5, <3>6, Zenon
    <3>8. dropped.at = "dropped" /\ queued.at = "queued"
      BY <3>4, <3>5, <3>6 DEF Letter
    <3> QED BY <3>7, <3>8
  <2>2. UNCHANGED <<mailer, copies, again>> /\ letter[l].at = "nowhere"
    BY <1>2 DEF send_templated_email
  <2>3. /\ letter' \in [Letters -> Letter] /\ letter'[l] = new
        /\ \A k \in Letters \ {l} : letter'[k] = letter[k]
    BY <2>1
  <2>4. \A w \in Mailers : l \notin mailer[w].has
    BY <2>2
  <2> QED BY <2>1, <2>2, <2>3, <2>4 DEF MailIn
<1>3. ASSUME NEW w \in Mailers, Deliver(w) PROVE EmailsInv'
  <2>1. PICK l \in Letters : /\ letter[l].at = "queued" /\ letter' = [letter EXCEPT ![l].at = "delivered"]
                             /\ mailer' = [mailer EXCEPT ![w] = [step |-> "send", has |-> {l}]]
    BY <1>3 DEF Deliver
  <2>2. UNCHANGED <<copies, again>> /\ mailer[w].step = "idle" /\ mailer[w].has = {}
    BY <1>3 DEF Deliver
  <2>3. /\ mailer'[w].step = "send" /\ mailer'[w].has = {l} /\ \A v \in Mailers \ {w} : mailer'[v] = mailer[v]
        /\ mailer' \in [Mailers -> [step : {"idle", "send", "ack"}, has : SUBSET Letters]]
    BY <2>1
  <2>4. /\ letter' \in [Letters -> Letter] /\ letter'[l].at = "delivered"
        /\ \A k \in Letters \ {l} : letter'[k] = letter[k]
    <3>1. letter[l] \in Letter
      OBVIOUS
    <3>2. PICK new \in Letter : new = [letter[l] EXCEPT !.at = "delivered"] /\ new.at = "delivered"
      BY <3>1, LetterGoes
    <3>3. letter' = [letter EXCEPT ![l] = new]
      BY <2>1, <3>2
    <3> QED BY <3>2, <3>3
  <2>5. \A v \in Mailers : l \notin mailer[v].has
    BY <2>1
  <2>6. \A k \in Letters : \A v \in Mailers : MailIn(v, "ack", k)' <=> MailIn(v, "ack", k)
    BY <2>2, <2>3 DEF MailIn
  <2>8. \A k \in Letters \ again' :
            copies'[k] = IF letter'[k].at = "sent" \/ \E v \in Mailers : MailIn(v, "ack", k)' THEN 1 ELSE 0
    BY <2>1, <2>2, <2>4, <2>6
  <2>9. \A u, v \in Mailers : mailer'[u].has \intersect mailer'[v].has # {} => u = v
    BY <2>3, <2>5
  <2>10. ASSUME NEW v \in Mailers, NEW k \in mailer'[v].has
         PROVE  letter'[k].at = "delivered" /\ mailer'[v].has = {k}
    <3>1. CASE v = w
      BY <3>1, <2>3, <2>4, <2>10
    <3>2. CASE v # w
      <4>1. k \in mailer[v].has /\ mailer'[v].has = mailer[v].has
        BY <3>2, <2>3, <2>10
      <4>2. k \in Letters /\ k # l
        BY <4>1, <2>5
      <4> QED BY <4>1, <4>2, <2>4
    <3> QED BY <3>1, <3>2
  <2>11. \A k \in Letters : letter'[k].at = "failed" => letter'[k].retries = max_retries
    BY <2>4
  <2>12. \A v \in Mailers : mailer'[v].step = "idle" => mailer'[v].has = {}
    BY <2>3
  <2>13. copies' \in [Letters -> Nat]
    BY <2>2
  <2> QED BY <2>3, <2>4, <2>8, <2>9, <2>10, <2>11, <2>12, <2>13
<1>4. ASSUME NEW w \in Mailers, send_email_task(w) PROVE EmailsInv'
  <2>1. PICK l \in Letters : /\ mailer[w].step = "send" /\ mailer[w].has = {l}
                             /\ copies' = [copies EXCEPT ![l] = copies[l] + 1]
                             /\ mailer' = [mailer EXCEPT ![w].step = "ack"] /\ UNCHANGED <<letter, again>>
    BY <1>4 DEF send_email_task, Handling
  <2>2. /\ mailer'[w].step = "ack" /\ mailer'[w].has = {l} /\ \A v \in Mailers \ {w} : mailer'[v] = mailer[v]
        /\ mailer' \in [Mailers -> [step : {"idle", "send", "ack"}, has : SUBSET Letters]]
    BY <2>1
  <2>3. /\ letter[l].at = "delivered" /\ \A v \in Mailers : ~MailIn(v, "ack", l)
    BY <2>1 DEF MailIn
  <2>4. MailIn(w, "ack", l)' /\ \A k \in Letters \ {l} : \A v \in Mailers : MailIn(v, "ack", k)' <=> MailIn(v, "ack", k)
    BY <2>1, <2>2 DEF MailIn
  <2>5. copies' \in [Letters -> Nat] /\ copies'[l] = copies[l] + 1 /\ \A k \in Letters \ {l} : copies'[k] = copies[k]
    BY <2>1
  <2>6. \A k \in Letters \ again' :
            copies'[k] = IF letter'[k].at = "sent" \/ \E v \in Mailers : MailIn(v, "ack", k)' THEN 1 ELSE 0
    <3> SUFFICES ASSUME NEW k \in Letters \ again'
                 PROVE copies'[k] = IF letter'[k].at = "sent" \/ \E v \in Mailers : MailIn(v, "ack", k)' THEN 1 ELSE 0
      OBVIOUS
    <3>1. CASE k = l
      BY <3>1, <2>1, <2>3, <2>4, <2>5
    <3>2. CASE k # l
      BY <3>2, <2>1, <2>4, <2>5
    <3> QED BY <3>1, <3>2
  <2> QED BY <2>1, <2>2, <2>5, <2>6
<1>5. ASSUME NEW w \in Mailers, retry(w) \/ Acknowledge(w) \/ MailerLost(w) PROVE EmailsInv'
  <2>1. PICK l \in Letters : \E new \in Letter :
            /\ l \in mailer[w].has /\ letter' = [letter EXCEPT ![l] = new] /\ again \subseteq again'
            /\ new.at = "failed" => new.retries = max_retries
            /\ \/ mailer[w].step = "send" /\ new.at \in {"queued", "failed"}
               \/ mailer[w].step # "send" /\ new.at = "sent"
               \/ l \in again'
    <3>1. CASE retry(w)
      <4>1. PICK l \in Letters : Handling(w, "send", l) /\ letter' = [letter EXCEPT ![l] = Retried(letter[l])]
                                 /\ UNCHANGED again
        BY <3>1 DEF retry
      <4>2. PICK new : new = Retried(letter[l])
        OBVIOUS
      <4>3. letter[l] \in Letter
        OBVIOUS
      <4>4. new \in Letter /\ new.at \in {"queued", "failed"} /\ (new.at = "failed" => new.retries = max_retries)
        BY <4>2, <4>3, LetterTriedAgain
      <4> QED BY <4>1, <4>2, <4>4 DEF Handling
    <3>2. CASE Acknowledge(w)
      <4>1. PICK l \in Letters : Handling(w, "ack", l) /\ letter' = [letter EXCEPT ![l].at = "sent"] /\ UNCHANGED again
        BY <3>2 DEF Acknowledge
      <4>2. letter[l] \in Letter
        OBVIOUS
      <4> PICK new \in Letter : new = [letter[l] EXCEPT !.at = "sent"] /\ new.at = "sent"
        BY <4>2, LetterGoes
      <4>3. new.at = "sent" /\ letter' = [letter EXCEPT ![l] = new]
        BY <4>1
      <4> QED BY <4>1, <4>3 DEF Handling
    <3>3. CASE MailerLost(w)
      <4>1. PICK l \in mailer[w].has, place \in {"queued", "lost"} :
                letter' = [letter EXCEPT ![l].at = place] /\ again' = again \union {l}
        BY <3>3 DEF MailerLost
      <4>2. PICK new \in Letter : new = [letter[l] EXCEPT !.at = place]
        BY <4>1 DEF Letter
      <4>3. new.at # "failed" /\ letter' = [letter EXCEPT ![l] = new] /\ l \in Letters
        BY <4>1, <4>2 DEF Letter
      <4> QED BY <4>1, <4>3
    <3> QED BY <1>5, <3>1, <3>2, <3>3
  <2> PICK new \in Letter :
            /\ l \in mailer[w].has /\ letter' = [letter EXCEPT ![l] = new] /\ again \subseteq again'
            /\ new.at = "failed" => new.retries = max_retries
            /\ \/ mailer[w].step = "send" /\ new.at \in {"queued", "failed"}
               \/ mailer[w].step # "send" /\ new.at = "sent"
               \/ l \in again'
    BY <2>1
  <2>2. mailer' = [mailer EXCEPT ![w] = Unoccupied] /\ copies' = copies
    BY <1>5 DEF retry, Acknowledge, MailerLost
  <2>3. /\ mailer'[w].step = "idle" /\ mailer'[w].has = {} /\ \A v \in Mailers \ {w} : mailer'[v] = mailer[v]
        /\ mailer' \in [Mailers -> [step : {"idle", "send", "ack"}, has : SUBSET Letters]]
    BY <2>2 DEF Unoccupied
  <2>4. letter' \in [Letters -> Letter] /\ letter'[l] = new /\ \A k \in Letters \ {l} : letter'[k] = letter[k]
    OBVIOUS
  <2>5. mailer[w].has = {l} /\ letter[l].at = "delivered" /\ \A v \in Mailers \ {w} : l \notin mailer[v].has
    BY <2>1
  <2>6. \A v \in Mailers : ~MailIn(v, "ack", l)'
    BY <2>3, <2>5 DEF MailIn
  <2>7. \A k \in Letters \ {l} : \A v \in Mailers : MailIn(v, "ack", k)' <=> MailIn(v, "ack", k)
    BY <2>3, <2>5 DEF MailIn
  <2>8. \A k \in Letters \ again' :
            copies'[k] = IF letter'[k].at = "sent" \/ \E v \in Mailers : MailIn(v, "ack", k)' THEN 1 ELSE 0
    <3> SUFFICES ASSUME NEW k \in Letters \ again'
                 PROVE copies'[k] = IF letter'[k].at = "sent" \/ \E v \in Mailers : MailIn(v, "ack", k)' THEN 1 ELSE 0
      OBVIOUS
    <3>1. k \in Letters \ again
      BY <2>1
    <3>2. CASE k = l /\ mailer[w].step = "send"
      <4>1. \A v \in Mailers : ~MailIn(v, "ack", l)
        BY <3>2, <2>5 DEF MailIn
      <4>2. new.at # "sent"
        BY <3>2, <2>1
      <4> QED BY <3>1, <3>2, <4>1, <4>2, <2>2, <2>4, <2>5, <2>6
    <3>3. CASE k = l /\ mailer[w].step # "send"
      <4>1. mailer[w].step = "ack" /\ new.at = "sent"
        BY <3>3, <2>1
      <4>2. MailIn(w, "ack", l)
        BY <4>1, <2>5 DEF MailIn
      <4> QED BY <3>1, <3>3, <4>1, <4>2, <2>2, <2>4
    <3>4. CASE k # l
      BY <3>1, <3>4, <2>2, <2>4, <2>7
    <3> QED BY <3>2, <3>3, <3>4
  <2>9. \A v \in Mailers : \A k \in mailer'[v].has : letter'[k].at = "delivered" /\ mailer'[v].has = {k}
    BY <2>3, <2>4, <2>5
  <2>10. \A u, v \in Mailers : mailer'[u].has \intersect mailer'[v].has # {} => u = v
    BY <2>3
  <2>11. copies' \in [Letters -> Nat]
    BY <2>2
  <2> QED BY <2>1, <2>3, <2>4, <2>8, <2>9, <2>10, <2>11
<1> QED BY <1>1, <1>2, <1>3, <1>4, <1>5 DEF EmailsNext

LEMMA EmailsInvOnce == EmailsInv => MailedOnce
<1> SUFFICES ASSUME EmailsInv, NEW l \in Letters \ again
             PROVE  /\ copies[l] <= 1
                    /\ letter[l].at = "sent" => copies[l] = 1
                    /\ letter[l].at = "failed" => copies[l] = 0 /\ letter[l].retries = max_retries
  BY DEF MailedOnce
<1>1. copies[l] = IF letter[l].at = "sent" \/ \E w \in Mailers : MailIn(w, "ack", l) THEN 1 ELSE 0
  BY DEF EmailsInv, Letter
<1>2. letter[l].at = "failed" => \A w \in Mailers : ~MailIn(w, "ack", l)
  BY DEF EmailsInv, Letter, MailIn
<1> QED BY <1>1, <1>2 DEF EmailsInv, Letter

\* Letters go to the buyer and to staff, and to nobody else.
LEMMA WhoGetsLetters == Recipients \subseteq {"buyer", "staff"}
<1> SUFFICES ASSUME NEW template \in Templates
             PROVE  template[2].to \union template[2].cc \subseteq {"buyer", "staff"}
  BY DEF Recipients
<1>1. Buyer.to \union Buyer.cc \subseteq {"buyer", "staff"} /\ Staff.to \union Staff.cc \subseteq {"buyer", "staff"}
  BY EmailsAssumption DEF Buyer, Staff
<1>2. CASE template[2] = Buyer \/ template[2] = Staff
  BY <1>1, <1>2
<1>3. CASE template[2] = [to |-> {"buyer"}, cc |-> STAFF_NOTIFICATION_EMAIL]
  BY <1>3, EmailsAssumption
<1>4. template[2] = Buyer \/ template[2] = Staff \/ template[2] = [to |-> {"buyer"}, cc |-> STAFF_NOTIFICATION_EMAIL]
  BY DEF Templates, CartLetters, _notify_refund_needed, PaymentLetters, ReturnLetters, send_shipment_ndr_email,
         contact, register
<1> QED BY <1>2, <1>3, <1>4

\* What the invariant of the letters says nothing of
MailersCount == again \subseteq Letters /\ mailersLost \in 0..MaxMailersLost

LEMMA MailersCountStep == EmailsInv /\ MailersCount /\ [EmailsNext]_emailVars => MailersCount'
<1> SUFFICES ASSUME EmailsInv, MailersCount, [EmailsNext]_emailVars PROVE MailersCount'
  OBVIOUS
<1>1. ASSUME NEW w \in Mailers, MailerLost(w) PROVE MailersCount'
  <2>1. mailer[w].has \subseteq Letters
    BY DEF EmailsInv
  <2> QED BY <1>1, <2>1, EmailsAssumption DEF MailerLost, MailersCount
<1>2. ASSUME UNCHANGED <<again, mailersLost>> PROVE MailersCount'
  BY <1>2 DEF MailersCount
<1> QED BY <1>1, <1>2 DEF EmailsNext, emailVars, send_templated_email, Deliver, send_email_task, retry, Acknowledge

LEMMA EmailsInvTypes == EmailsInv /\ MailersCount => EmailsTypeOK
BY WhoGetsLetters DEF EmailsInv, MailersCount, EmailsTypeOK, Letter

-----------------------------------------------------------------------------
(* Notices                                                                 *)

\* Between two saves that nobody came between the last entry is the order's status; a save that has
\* written and not logged yet leaves the entry one behind.
TrailInv ==
    /\ record.chain
    /\ \A w \in Officers : officer[w].step = "write" => officer[w].peeked = standing
    /\ \A w \in Officers : officer[w].step = "log" => officer[w].peeked = record.last /\ officer[w].to = standing
    /\ \A v, w \in Officers : officer[v].step = "log" /\ officer[w].step = "log" => v = w
    /\ (\A w \in Officers : officer[w].step # "log") => record.last = standing

\* Letters wait only once the save is through.
LettersLast == \A w \in Officers : officer[w].step # "mail" => officer[w].letters = {}

NoticesInv == NoticesTypeOK /\ LettersLast /\ (~mingled /\ officersLost = 0 => TrailInv)

Officer == [step : {"idle", "peek", "write", "log", "mail"}, to : OrderStatus, peeked : OrderStatus,
            letters : SUBSET {"generic", "own", "staff"}]

LEMMA OffDutyIsOfficer == OffDuty \in Officer /\ OffDuty.step = "idle" /\ OffDuty.letters = {}
BY DEF OffDuty, Officer, OrderStatus

LEMMA NoticesInitInv == NoticesInit => NoticesInv
<1> SUFFICES ASSUME NoticesInit PROVE NoticesInv
  OBVIOUS
<1>1. \A w \in Officers : officer[w].step = "idle" /\ officer[w].letters = {}
  BY OffDutyIsOfficer DEF NoticesInit
<1>2. officer \in [Officers -> Officer]
  BY OffDutyIsOfficer DEF NoticesInit
<1>3. /\ standing \in OrderStatus /\ record \in [last : OrderStatus, chain : BOOLEAN, entries : [OrderStatus -> Nat]]
      /\ told \in [OrderStatus -> Nat] /\ staffTold \in Nat /\ owing \in Nat
      /\ mingled \in BOOLEAN /\ moves \in 0..MaxMoves /\ officersLost \in 0..MaxOfficersLost
  <2>1. "awaiting_payment" \in OrderStatus
    BY DEF OrderStatus
  <2>2. [s \in OrderStatus |-> 0] \in [OrderStatus -> Nat]
    OBVIOUS
  <2>3. record \in [last : OrderStatus, chain : BOOLEAN, entries : [OrderStatus -> Nat]]
    BY <2>1, <2>2 DEF NoticesInit
  <2>4. told \in [OrderStatus -> Nat]
    BY <2>2 DEF NoticesInit
  <2>5. moves = 0 /\ officersLost = 0 /\ mingled = FALSE /\ staffTold = 0 /\ owing = 0 /\ standing \in OrderStatus
    BY <2>1 DEF NoticesInit
  <2>6. moves \in 0..MaxMoves /\ officersLost \in 0..MaxOfficersLost
    BY <2>5, NoticesAssumption
  <2> QED BY <2>3, <2>4, <2>5, <2>6
<1>4. record.last = standing /\ record.chain
  BY DEF NoticesInit
<1> QED BY <1>1, <1>2, <1>3, <1>4 DEF NoticesInv, NoticesTypeOK, LettersLast, TrailInv, Officer

LEMMA EntryMade ==
    ASSUME record \in [last : OrderStatus, chain : BOOLEAN, entries : [OrderStatus -> Nat]],
           NEW from \in OrderStatus, NEW to \in OrderStatus
    PROVE  /\ Entered(from, to) \in [last : OrderStatus, chain : BOOLEAN, entries : [OrderStatus -> Nat]]
           /\ record.chain /\ record.last = from => Entered(from, to).chain /\ Entered(from, to).last = to
<1>1. CASE from = to
  BY <1>1 DEF Entered
<1>2. CASE from # to
  <2>1. Entered(from, to) = [last |-> to, chain |-> record.chain /\ record.last = from,
                             entries |-> [record.entries EXCEPT ![to] = record.entries[to] + 1]]
    BY <1>2 DEF Entered
  <2>2. [record.entries EXCEPT ![to] = record.entries[to] + 1] \in [OrderStatus -> Nat]
    OBVIOUS
  <2> QED BY <2>1, <2>2
<1> QED BY <1>1, <1>2

\* A save under the lock: the entry follows the status at once.
LEMMA SaveUnderLockInv ==
    ASSUME NoticesInv, NEW w \in Officers, NEW to \in OrderStatus, NEW skip \in BOOLEAN,
           NEW own \in SUBSET {"own", "staff"}, SaveUnderLock(w, to, skip, own), owing' \in Nat
    PROVE  NoticesInv'
<1> USE DEF NoticesInv
<1>1. /\ standing' = to /\ record' = Entered(standing, to) /\ UNCHANGED <<told, staffTold, officersLost>>
      /\ officer[w].step = "idle" /\ moves' = moves + 1 /\ moves < MaxMoves
      /\ mingled' = (mingled \/ BetweenSteps(w))
  BY DEF SaveUnderLock, Moves
<1> DEFINE letters == _send_status_change_email(standing, to, skip) \union own
<1>2. letters \subseteq {"generic", "own", "staff"}
  BY DEF _send_status_change_email
<1>3. officer' = [officer EXCEPT ![w] = [OffDuty EXCEPT !.step = "mail", !.to = to, !.letters = letters]]
  BY DEF SaveUnderLock
<1> HIDE DEF letters
<1>4. PICK after \in Officer : after = [OffDuty EXCEPT !.step = "mail", !.to = to, !.letters = letters]
                               /\ after.step = "mail"
  <2>1. [OffDuty EXCEPT !.step = "mail", !.to = to, !.letters = letters] \in Officer
    BY <1>2, OffDutyIsOfficer DEF Officer
  <2>2. [OffDuty EXCEPT !.step = "mail", !.to = to, !.letters = letters].step = "mail"
    BY OffDutyIsOfficer DEF Officer
  <2> QED BY <2>1, <2>2
<1>5. officer' \in [Officers -> Officer] /\ officer'[w].step = "mail" /\ \A v \in Officers \ {w} : officer'[v] = officer[v]
  BY <1>3, <1>4 DEF NoticesTypeOK, Officer
<1>6. record' \in [last : OrderStatus, chain : BOOLEAN, entries : [OrderStatus -> Nat]]
      /\ (record.chain /\ record.last = standing => record'.chain /\ record'.last = standing')
  BY <1>1, EntryMade DEF NoticesTypeOK
<1>7. moves' \in 0..MaxMoves /\ mingled' \in BOOLEAN
  BY <1>1, NoticesAssumption DEF NoticesTypeOK, BetweenSteps
<1>8. NoticesTypeOK'
  BY <1>1, <1>5, <1>6, <1>7 DEF NoticesTypeOK, Officer
<1>9. ASSUME ~mingled', officersLost' = 0 PROVE TrailInv'
  <2>1. TrailInv /\ \A v \in Officers : officer[v].step \notin {"write", "log"}
    BY <1>1, <1>9 DEF BetweenSteps
  <2>2. \A v \in Officers : officer'[v].step \notin {"write", "log"}
    BY <1>5, <2>1
  <2>3. record'.chain /\ record'.last = standing'
    BY <1>6, <2>1 DEF TrailInv
  <2> QED BY <2>2, <2>3 DEF TrailInv
<1>10. LettersLast'
  BY <1>5 DEF LettersLast
<1> QED BY <1>8, <1>9, <1>10

LEMMA ServicesInv ==
    ASSUME NoticesInv, NEW w \in Officers,
           \/ on_payment_captured(w) \/ on_payment_failed(w) \/ on_refund_processed(w)
           \/ store_dashboard_order_accept(w) \/ store_dashboard_order_mark_packed(w)
           \/ cancel_order(w) \/ release_expired_reservations(w)
    PROVE  NoticesInv'
<1> USE DEF OrderStatus
<1>1. owing \in Nat
  BY DEF NoticesInv, NoticesTypeOK
<1>2. CASE on_payment_captured(w) \/ on_payment_failed(w) \/ on_refund_processed(w)
  <2>1. PICK to \in OrderStatus : _save_status_without_generic_email(w, to)
    BY <1>2 DEF on_payment_captured, on_payment_failed, on_refund_processed
  <2> QED BY <1>1, <2>1, SaveUnderLockInv DEF _save_status_without_generic_email
<1>3. CASE store_dashboard_order_accept(w) \/ store_dashboard_order_mark_packed(w)
  <2>1. PICK to \in OrderStatus : SaveUnderLock(w, to, TRUE, {}) /\ owing' = owing
    BY <1>3 DEF store_dashboard_order_accept, store_dashboard_order_mark_packed, _advance_order_status
  <2> QED BY <1>1, <2>1, SaveUnderLockInv
<1>4. CASE cancel_order(w)
  <2>1. PICK own \in SUBSET {"own", "staff"} : SaveUnderLock(w, "cancelled", FALSE, own)
    BY <1>4 DEF cancel_order
  <2>2. owing' \in Nat
    BY <1>1, <1>4 DEF cancel_order
  <2> QED BY <2>1, <2>2, SaveUnderLockInv
<1>5. CASE release_expired_reservations(w)
  <2>1. SaveUnderLock(w, "expired", FALSE, {}) /\ owing' = owing
    BY <1>5 DEF release_expired_reservations
  <2> QED BY <1>1, <2>1, SaveUnderLockInv
<1> QED BY <1>2, <1>3, <1>4, <1>5

\* A step that writes neither status nor trail, of a process that is in none of the two steps after it
\* unless it has just read the status.
LEMMA NoWriteInv ==
    ASSUME NoticesInv, NEW w \in Officers, NEW after \in Officer, officer' = [officer EXCEPT ![w] = after],
           UNCHANGED <<standing, record, owing, mingled>>, told' \in [OrderStatus -> Nat], staffTold' \in Nat,
           moves' \in 0..MaxMoves, officersLost' \in 0..MaxOfficersLost, officersLost' = 0 => officersLost = 0,
           officersLost' # 0 \/ officer[w].step # "log",
           after.step # "log", after.step = "write" => after.peeked = standing,
           after.step # "mail" => after.letters = {}
    PROVE  NoticesInv'
<1> USE DEF NoticesInv
<1>1. officer' \in [Officers -> Officer] /\ officer'[w] = after /\ \A v \in Officers \ {w} : officer'[v] = officer[v]
  BY DEF NoticesTypeOK, Officer
<1>2. NoticesTypeOK'
  BY <1>1 DEF NoticesTypeOK, Officer
<1>4. LettersLast'
  BY <1>1 DEF LettersLast
<1>3. ASSUME ~mingled', officersLost' = 0 PROVE TrailInv'
  <2>1. TrailInv /\ officer[w].step # "log"
    BY <1>3
  <2>2. \A v \in Officers : officer'[v].step = "log" => v # w /\ officer'[v] = officer[v]
    BY <1>1
  <2>3. \A v \in Officers : officer[v].step = "log" => officer'[v].step = "log"
    BY <1>1, <2>1
  <2>4. \A v \in Officers : officer'[v].step = "write" => officer'[v].peeked = standing'
    BY <1>1, <2>1 DEF TrailInv
  <2> QED BY <2>1, <2>2, <2>3, <2>4 DEF TrailInv
<1> QED BY <1>2, <1>3, <1>4

LEMMA WriteOrderInv ==
    ASSUME NoticesInv, NEW w \in Officers, WriteOrder(w)
    PROVE  NoticesInv'
<1> USE DEF NoticesInv
<1>1. /\ standing' = officer[w].to /\ officer[w].step = "write" /\ mingled' = (mingled \/ BetweenSteps(w))
      /\ officer' = [officer EXCEPT ![w].step = "log"]
      /\ UNCHANGED <<record, told, staffTold, owing, moves, officersLost>>
  BY DEF WriteOrder
<1>2. officer[w] \in Officer
  BY DEF NoticesTypeOK, Officer
<1>3. /\ officer' \in [Officers -> Officer] /\ \A v \in Officers \ {w} : officer'[v] = officer[v]
      /\ officer'[w].step = "log" /\ officer'[w].peeked = officer[w].peeked /\ officer'[w].to = officer[w].to
      /\ officer'[w].letters = officer[w].letters
  BY <1>1, <1>2 DEF NoticesTypeOK, Officer
<1>4. standing' \in OrderStatus /\ mingled' \in BOOLEAN
  BY <1>1, <1>2 DEF Officer, BetweenSteps, NoticesTypeOK
<1>5. NoticesTypeOK'
  BY <1>1, <1>3, <1>4 DEF NoticesTypeOK, Officer
<1>6. ASSUME ~mingled', officersLost' = 0 PROVE TrailInv'
  <2>1. TrailInv /\ \A v \in Officers \ {w} : officer[v].step \notin {"write", "log"}
    BY <1>1, <1>6 DEF BetweenSteps
  <2>2. \A v \in Officers : officer[v].step # "log"
    BY <1>1, <2>1
  <2>3. officer[w].peeked = standing /\ record.last = standing /\ record.chain
    BY <1>1, <2>1, <2>2 DEF TrailInv
  <2>4. \A v \in Officers \ {w} : officer'[v].step \notin {"write", "log"}
    BY <1>3, <2>1
  <2> QED BY <1>1, <1>3, <2>3, <2>4 DEF TrailInv
<1>7. LettersLast'
  BY <1>1, <1>3 DEF LettersLast
<1> QED BY <1>5, <1>6, <1>7

LEMMA LogOrderInv ==
    ASSUME NoticesInv, NEW w \in Officers, LogOrder(w)
    PROVE  NoticesInv'
<1> USE DEF NoticesInv
<1>1. /\ record' = Entered(officer[w].peeked, officer[w].to) /\ officer[w].step = "log"
      /\ UNCHANGED <<standing, told, staffTold, owing, mingled, moves, officersLost>>
  BY DEF LogOrder
<1>2. officer[w] \in Officer /\ officer[w].peeked \in OrderStatus /\ officer[w].to \in OrderStatus
  BY DEF NoticesTypeOK, Officer
<1> DEFINE letters == _send_status_change_email(officer[w].peeked, officer[w].to, FALSE)
<1>3. letters \subseteq {"generic", "own", "staff"}
  BY DEF _send_status_change_email
<1>4. officer' = [officer EXCEPT ![w].step = "mail", ![w].letters = letters]
  BY DEF LogOrder
<1> HIDE DEF letters
<1>5. /\ officer' \in [Officers -> Officer] /\ \A v \in Officers \ {w} : officer'[v] = officer[v]
      /\ officer'[w].step = "mail"
  BY <1>2, <1>3, <1>4 DEF NoticesTypeOK, Officer
<1>6. record' \in [last : OrderStatus, chain : BOOLEAN, entries : [OrderStatus -> Nat]]
      /\ (record.chain /\ record.last = officer[w].peeked => record'.chain /\ record'.last = officer[w].to)
  BY <1>1, <1>2, EntryMade DEF NoticesTypeOK
<1>7. NoticesTypeOK'
  BY <1>1, <1>5, <1>6 DEF NoticesTypeOK, Officer
<1>8. ASSUME ~mingled', officersLost' = 0 PROVE TrailInv'
  <2>1. TrailInv /\ \A v \in Officers \ {w} : officer[v].step # "log"
    BY <1>1, <1>8 DEF TrailInv
  <2>2. record'.chain /\ record'.last = standing'
    BY <1>1, <1>6, <2>1 DEF TrailInv
  <2>3. \A v \in Officers : officer'[v].step # "log"
    BY <1>5, <2>1
  <2>4. \A v \in Officers : officer'[v].step = "write" => officer'[v].peeked = standing'
    BY <1>1, <1>5, <2>1 DEF TrailInv
  <2> QED BY <2>2, <2>3, <2>4 DEF TrailInv
<1>9. LettersLast'
  BY <1>5 DEF LettersLast
<1> QED BY <1>7, <1>8, <1>9

\* The steps of one process that change neither status nor trail.
LEMMA QuietStepsInv ==
    ASSUME NoticesInv, NEW w \in Officers,
           \/ payment_retry(w) \/ _sync_shipped_order(w) \/ _cache_previous_order_status(w)
           \/ TellBuyer(w) \/ _notify_staff_refund_needed(w) \/ AllMailed(w) \/ OfficerDies(w)
    PROVE  NoticesInv'
<1>1. /\ officer[w] \in Officer /\ standing \in OrderStatus /\ told \in [OrderStatus -> Nat] /\ staffTold \in Nat
      /\ moves \in 0..MaxMoves /\ officersLost \in 0..MaxOfficersLost
  BY DEF NoticesInv, NoticesTypeOK, Officer
<1>2. CASE payment_retry(w) \/ _sync_shipped_order(w)
  <2>1. PICK to \in OrderStatus : Unlocked(w, to)
    BY <1>2 DEF payment_retry, _sync_shipped_order, OrderStatus
  <2>2. PICK after \in Officer : after = [OffDuty EXCEPT !.step = "peek", !.to = to] /\ after.step = "peek" /\ after.letters = {}
    <3>1. [OffDuty EXCEPT !.step = "peek", !.to = to] \in Officer
      BY OffDutyIsOfficer DEF Officer
    <3>2. [OffDuty EXCEPT !.step = "peek", !.to = to].step = "peek"
      BY OffDutyIsOfficer DEF Officer
    <3>3. [OffDuty EXCEPT !.step = "peek", !.to = to].letters = {}
      BY OffDutyIsOfficer DEF Officer
    <3> QED BY <3>1, <3>2, <3>3
  <2>3. UNCHANGED owing /\ moves' \in 0..MaxMoves /\ officer[w].step = "idle" /\ officer' = [officer EXCEPT ![w] = after]
        /\ UNCHANGED <<standing, record, told, staffTold, mingled, officersLost>>
    BY <1>1, <2>1, <2>2, NoticesAssumption DEF Unlocked, Moves
  <2> QED BY <1>1, <2>2, <2>3, NoWriteInv
<1>3. CASE _cache_previous_order_status(w)
  <2>1. PICK after \in Officer : /\ after = [officer[w] EXCEPT !.step = "write", !.peeked = standing]
                                 /\ after.step = "write" /\ after.peeked = standing /\ after.letters = officer[w].letters
    <3>1. [officer[w] EXCEPT !.step = "write", !.peeked = standing] \in Officer
      BY <1>1 DEF Officer
    <3>2. /\ [officer[w] EXCEPT !.step = "write", !.peeked = standing].step = "write"
          /\ [officer[w] EXCEPT !.step = "write", !.peeked = standing].peeked = standing
          /\ [officer[w] EXCEPT !.step = "write", !.peeked = standing].letters = officer[w].letters
      BY <1>1 DEF Officer
    <3> QED BY <3>1, <3>2
  <2>3. after.letters = {}
    BY <1>3, <2>1 DEF _cache_previous_order_status, NoticesInv, LettersLast
  <2>2. officer' = [officer EXCEPT ![w] = after] /\ officer[w].step = "peek"
        /\ UNCHANGED <<standing, record, told, staffTold, owing, mingled, moves, officersLost>>
    BY <1>3, <2>1 DEF _cache_previous_order_status
  <2> QED BY <1>1, <2>1, <2>2, <2>3, NoWriteInv
<1>4. CASE TellBuyer(w) \/ _notify_staff_refund_needed(w)
  <2>1. PICK letters \in SUBSET officer[w].letters : officer' = [officer EXCEPT ![w].letters = letters]
    BY <1>4 DEF TellBuyer, _notify_staff_refund_needed
  <2>2. PICK after \in Officer : after = [officer[w] EXCEPT !.letters = letters] /\ after.step = officer[w].step
    <3>1. [officer[w] EXCEPT !.letters = letters] \in Officer
      BY <1>1 DEF Officer
    <3>2. [officer[w] EXCEPT !.letters = letters].step = officer[w].step
      BY <1>1 DEF Officer
    <3> QED BY <3>1, <3>2
  <2>3. officer' = [officer EXCEPT ![w] = after] /\ told' \in [OrderStatus -> Nat] /\ staffTold' \in Nat
        /\ UNCHANGED <<standing, record, owing, mingled, moves, officersLost>>
    BY <1>1, <1>4, <2>1, <2>2 DEF TellBuyer, _notify_staff_refund_needed, Officer
  <2>4. officer[w].step = "mail"
    BY <1>4 DEF TellBuyer, _notify_staff_refund_needed, NoticesInv, LettersLast
  <2> QED BY <1>1, <2>2, <2>3, <2>4, NoWriteInv
<1>5. CASE AllMailed(w) \/ OfficerDies(w)
  <2>1. officer' = [officer EXCEPT ![w] = OffDuty] /\ UNCHANGED <<standing, record, told, staffTold, owing, mingled, moves>>
    BY <1>5 DEF AllMailed, OfficerDies
  <2>2. /\ officersLost' \in 0..MaxOfficersLost /\ (officersLost' = 0 => officersLost = 0)
        /\ officersLost' # 0 \/ officer[w].step # "log"
    BY <1>1, <1>5, NoticesAssumption DEF AllMailed, OfficerDies
  <2> QED BY <1>1, <2>1, <2>2, OffDutyIsOfficer, NoWriteInv
<1> QED BY <1>2, <1>3, <1>4, <1>5

LEMMA NoticesStepInv == NoticesInv /\ [NoticesNext]_noticeVars => NoticesInv'
<1> SUFFICES ASSUME NoticesInv, [NoticesNext]_noticeVars PROVE NoticesInv'
  OBVIOUS
<1>1. CASE UNCHANGED noticeVars
  BY <1>1 DEF noticeVars, NoticesInv, NoticesTypeOK, LettersLast, TrailInv
<1>2. CASE NoticesNext
  BY <1>2, ServicesInv, WriteOrderInv, LogOrderInv, QuietStepsInv DEF NoticesNext
<1> QED BY <1>1, <1>2

LEMMA NoticesInvTrail == NoticesInv => OrderTrailIsAChain
BY DEF NoticesInv, TrailInv, OrderTrailIsAChain


\* Who still owes the buyer a letter about status s, and who owes staff theirs.
OwesBuyer(w, s) == officer[w].to = s /\ officer[w].letters \ {"staff"} # {}
Owing(s) == {w \in Officers : OwesBuyer(w, s)}
OwesStaff(w) == "staff" \in officer[w].letters
OwingStaff == {w \in Officers : OwesStaff(w)}

InTheQueue == {"accepted", "packed"}
Refunded == {"refunded", "partially_refunded"}
Unqueued == OrderStatus \ (InTheQueue \union Refunded)

\* Every entry of the trail was told to the buyer or is about to be.
LettersTrack ==
    /\ \A w \in Officers : officer[w].letters \ {"staff"} \in {{}, {"generic"}, {"own"}}
    /\ \A w \in Officers : officer[w].step \in {"peek", "write", "log"} =>
            officer[w].to \in {"awaiting_payment", "shipped", "delivered"}
    /\ \A s \in OrderStatus : IsFiniteSet(Owing(s))
    /\ IsFiniteSet(OwingStaff)
    /\ \A s \in Unqueued : told[s] + Cardinality(Owing(s)) = record.entries[s]
    /\ \A s \in Refunded : told[s] + Cardinality(Owing(s)) >= record.entries[s]
    /\ \A s \in InTheQueue : told[s] = 0 /\ \A w \in Officers : ~OwesBuyer(w, s)
    /\ staffTold + Cardinality(OwingStaff) = owing

LettersInv == officersLost = 0 => LettersTrack

Bit(b) == IF b THEN 1 ELSE 0

\* Two sets that differ in one element at most.
LEMMA CountOne ==
    ASSUME NEW S, NEW T, NEW w, IsFiniteSet(S), S \ {w} = T \ {w}
    PROVE  /\ IsFiniteSet(T) /\ Cardinality(S) \in Nat /\ Cardinality(T) \in Nat
           /\ Cardinality(T) + Bit(w \in S) = Cardinality(S) + Bit(w \in T)
<1>1. Cardinality(S) \in Nat
  BY FS_CardinalityType
<1>2. CASE w \in S /\ w \in T
  <2>1. S = T
    BY <1>2
  <2> QED BY <1>1, <2>1
<1>3. CASE w \notin S /\ w \notin T
  <2>1. S = T
    BY <1>3
  <2> QED BY <1>1, <2>1
<1>4. CASE w \notin S /\ w \in T
  <2>1. T = S \union {w}
    BY <1>4
  <2>2. IsFiniteSet(T) /\ Cardinality(T) = Cardinality(S) + 1
    BY <1>4, <2>1, FS_AddElement
  <2> QED BY <1>1, <1>4, <2>2 DEF Bit
<1>5. CASE w \in S /\ w \notin T
  <2>1. T = S \ {w}
    BY <1>5
  <2>2. IsFiniteSet(T) /\ Cardinality(T) = Cardinality(S) - 1
    BY <1>5, <2>1, FS_RemoveElement
  <2>3. Cardinality(T) \in Nat
    BY <2>2, FS_CardinalityType
  <2> QED BY <1>1, <1>5, <2>2, <2>3 DEF Bit
<1> QED BY <1>2, <1>3, <1>4, <1>5

\* A step of one officer: what is told, owed and entered changes alike.
LEMMA LettersKept ==
    ASSUME NoticesTypeOK, NoticesTypeOK', LettersTrack, NEW w \in Officers,
           \A v \in Officers \ {w} : officer'[v] = officer[v],
           officer'[w].letters \ {"staff"} \in {{}, {"generic"}, {"own"}},
           officer'[w].step \in {"peek", "write", "log"} =>
                officer'[w].to \in {"awaiting_payment", "shipped", "delivered"},
           \A s \in Unqueued : told'[s] + Bit(OwesBuyer(w, s)') + record.entries[s]
                               = told[s] + Bit(OwesBuyer(w, s)) + record.entries'[s],
           \A s \in Refunded : told'[s] + Bit(OwesBuyer(w, s)') + record.entries[s]
                               >= told[s] + Bit(OwesBuyer(w, s)) + record.entries'[s],
           \A s \in InTheQueue : told'[s] = told[s] /\ ~OwesBuyer(w, s)',
           staffTold' + Bit(OwesStaff(w)') + owing = staffTold + Bit(OwesStaff(w)) + owing'
    PROVE  LettersTrack'
<1>1. \A s \in OrderStatus : /\ IsFiniteSet(Owing(s)) /\ Owing(s) \ {w} = Owing(s)' \ {w}
                             /\ (w \in Owing(s) <=> OwesBuyer(w, s)) /\ (w \in Owing(s)' <=> OwesBuyer(w, s)')
  <2> TAKE s \in OrderStatus
  <2>1. IsFiniteSet(Owing(s))
    BY DEF LettersTrack
  <2>2. \A v \in Officers \ {w} : OwesBuyer(v, s) <=> OwesBuyer(v, s)'
    BY DEF OwesBuyer
  <2>3. (w \in Owing(s) <=> OwesBuyer(w, s)) /\ (w \in Owing(s)' <=> OwesBuyer(w, s)')
    BY DEF Owing
  <2>4. Owing(s) \ {w} = Owing(s)' \ {w}
    BY <2>2 DEF Owing
  <2> QED BY <2>1, <2>3, <2>4
<1>2. /\ IsFiniteSet(OwingStaff) /\ OwingStaff \ {w} = OwingStaff' \ {w}
      /\ (w \in OwingStaff <=> OwesStaff(w)) /\ (w \in OwingStaff' <=> OwesStaff(w)')
  BY DEF LettersTrack, OwingStaff, OwesStaff
<1>3. \A s \in OrderStatus :
        /\ IsFiniteSet(Owing(s)') /\ Cardinality(Owing(s)) \in Nat /\ Cardinality(Owing(s)') \in Nat
        /\ Cardinality(Owing(s)') + Bit(OwesBuyer(w, s)) = Cardinality(Owing(s)) + Bit(OwesBuyer(w, s)')
  BY <1>1, CountOne DEF Bit
<1>4. /\ IsFiniteSet(OwingStaff') /\ Cardinality(OwingStaff) \in Nat /\ Cardinality(OwingStaff') \in Nat
      /\ Cardinality(OwingStaff') + Bit(OwesStaff(w)) = Cardinality(OwingStaff) + Bit(OwesStaff(w)')
  BY <1>2, CountOne DEF Bit
<1>5. \A s \in OrderStatus : /\ told[s] \in Nat /\ told'[s] \in Nat
                             /\ record.entries[s] \in Nat /\ record.entries'[s] \in Nat
  BY DEF NoticesTypeOK
<1>6. \A s \in OrderStatus : Bit(OwesBuyer(w, s)) \in Nat /\ Bit(OwesBuyer(w, s)') \in Nat
  BY DEF Bit
<1>7. \A s \in Unqueued : told'[s] + Cardinality(Owing(s)') = record.entries'[s]
  <2> TAKE s \in Unqueued
  <2>1. s \in OrderStatus
    BY DEF Unqueued
  <2>2. told[s] + Cardinality(Owing(s)) = record.entries[s]
    BY DEF LettersTrack
  <2> QED BY <1>3, <1>5, <1>6, <2>1, <2>2
<1>8. \A s \in Refunded : told'[s] + Cardinality(Owing(s)') >= record.entries'[s]
  <2> TAKE s \in Refunded
  <2>1. s \in OrderStatus
    BY DEF Refunded, OrderStatus
  <2>2. told[s] + Cardinality(Owing(s)) >= record.entries[s]
    BY DEF LettersTrack
  <2> QED BY <1>3, <1>5, <1>6, <2>1, <2>2
<1>9. \A s \in InTheQueue : told'[s] = 0 /\ \A v \in Officers : ~OwesBuyer(v, s)'
  BY DEF LettersTrack, OwesBuyer
<1>10. staffTold' + Cardinality(OwingStaff') = owing'
  <2>1. /\ staffTold \in Nat /\ staffTold' \in Nat /\ owing \in Nat /\ owing' \in Nat
        /\ staffTold + Cardinality(OwingStaff) = owing
    BY DEF NoticesTypeOK, LettersTrack
  <2>2. Bit(OwesStaff(w)) \in Nat /\ Bit(OwesStaff(w)') \in Nat
    BY DEF Bit
  <2>3. PICK before, after : before = Cardinality(OwingStaff) /\ after = Cardinality(OwingStaff')
    OBVIOUS
  <2>4. /\ before \in Nat /\ after \in Nat /\ staffTold + before = owing
        /\ after + Bit(OwesStaff(w)) = before + Bit(OwesStaff(w)')
    BY <1>4, <2>1, <2>3
  <2>5. staffTold' + after = owing'
    <3>1. staffTold' + Bit(OwesStaff(w)') + owing = staffTold + Bit(OwesStaff(w)) + owing'
      OBVIOUS
    <3>2. PICK bit, bit1 : bit = Bit(OwesStaff(w)) /\ bit1 = Bit(OwesStaff(w)')
      OBVIOUS
    <3>3. /\ bit \in Nat /\ bit1 \in Nat /\ after + bit = before + bit1
          /\ staffTold' + bit1 + owing = staffTold + bit + owing'
      BY ONLY <2>2, <2>4, <3>1, <3>2
    <3>4. /\ {staffTold, staffTold', owing, owing', before, after, bit, bit1} \subseteq Nat
          /\ staffTold + before = owing
      BY ONLY <2>1, <2>4, <3>3
    <3> QED BY ONLY <3>3, <3>4
  <2> QED BY <2>3, <2>5
<1>11. \A v \in Officers : /\ officer'[v].letters \ {"staff"} \in {{}, {"generic"}, {"own"}}
                           /\ officer'[v].step \in {"peek", "write", "log"} =>
                                officer'[v].to \in {"awaiting_payment", "shipped", "delivered"}
  BY DEF LettersTrack
<1>12. (\A s \in OrderStatus : IsFiniteSet(Owing(s)))' /\ (IsFiniteSet(OwingStaff))'
  BY <1>3, <1>4
<1> QED BY <1>7, <1>8, <1>9, <1>10, <1>11, <1>12 DEF LettersTrack

LEMMA EntriesMade ==
    ASSUME NoticesTypeOK, NEW from \in OrderStatus, NEW to \in OrderStatus, record' = Entered(from, to)
    PROVE  \A s \in OrderStatus : record'.entries[s] = record.entries[s] + Bit(s = to /\ from # to)
<1>1. record.entries \in [OrderStatus -> Nat]
  BY DEF NoticesTypeOK
<1>2. CASE from = to
  BY <1>1, <1>2 DEF Entered, Bit
<1>3. CASE from # to
  <2>1. record'.entries = [record.entries EXCEPT ![to] = record.entries[to] + 1]
    BY <1>3 DEF Entered
  <2> QED BY <1>1, <1>3, <2>1 DEF Bit
<1> QED BY <1>2, <1>3

\* The end of a save, locked or not: letters are written for the entry that is made.
LEMMA SavedLetters ==
    ASSUME NoticesTypeOK, NoticesTypeOK', LettersTrack, NEW w \in Officers, officer[w].letters = {},
           \A v \in Officers \ {w} : officer'[v] = officer[v],
           NEW from \in OrderStatus, NEW to \in OrderStatus, record' = Entered(from, to),
           officer'[w].step = "mail", officer'[w].to = to,
           officer'[w].letters \ {"staff"} \in {{}, {"generic"}, {"own"}},
           UNCHANGED <<told, staffTold>>, owing' = owing + Bit("staff" \in officer'[w].letters),
           to \in Unqueued => (officer'[w].letters \ {"staff"} # {} <=> from # to),
           to \in Refunded => officer'[w].letters \ {"staff"} # {},
           to \in InTheQueue => officer'[w].letters \ {"staff"} = {}
    PROVE  LettersTrack'
<1>1. \A s \in OrderStatus : ~OwesBuyer(w, s) /\ ~OwesStaff(w)
  BY DEF OwesBuyer, OwesStaff
<1>2. \A s \in OrderStatus : OwesBuyer(w, s)' <=> s = to /\ officer'[w].letters \ {"staff"} # {}
  BY DEF OwesBuyer
<1>3. \A s \in OrderStatus : record'.entries[s] = record.entries[s] + Bit(s = to /\ from # to)
  BY EntriesMade
<1>4. \A s \in OrderStatus : told[s] \in Nat /\ record.entries[s] \in Nat /\ staffTold \in Nat /\ owing \in Nat
  BY DEF NoticesTypeOK
<1>5. \A s \in Unqueued : told'[s] + Bit(OwesBuyer(w, s)') + record.entries[s]
                          = told[s] + Bit(OwesBuyer(w, s)) + record.entries'[s]
  <2> TAKE s \in Unqueued
  <2>1. s \in OrderStatus
    BY DEF Unqueued
  <2>2. OwesBuyer(w, s)' <=> s = to /\ from # to
    BY <1>2, <2>1
  <2>3. Bit(OwesBuyer(w, s)') = Bit(s = to /\ from # to) /\ Bit(OwesBuyer(w, s)) = 0
    BY <1>1, <2>1, <2>2 DEF Bit
  <2>4. Bit(s = to /\ from # to) \in Nat
    BY DEF Bit
  <2> QED BY <1>3, <1>4, <2>1, <2>3, <2>4
<1>6. \A s \in Refunded : told'[s] + Bit(OwesBuyer(w, s)') + record.entries[s]
                          >= told[s] + Bit(OwesBuyer(w, s)) + record.entries'[s]
  <2> TAKE s \in Refunded
  <2>1. s \in OrderStatus
    BY DEF Refunded, OrderStatus
  <2>2. OwesBuyer(w, s)' <=> s = to
    BY <1>2, <2>1
  <2>3. Bit(OwesBuyer(w, s)') >= Bit(s = to /\ from # to) /\ Bit(OwesBuyer(w, s)) = 0
    BY <1>1, <2>1, <2>2 DEF Bit
  <2>4. Bit(s = to /\ from # to) \in Nat /\ Bit(OwesBuyer(w, s)') \in Nat
    BY DEF Bit
  <2> QED BY <1>3, <1>4, <2>1, <2>3, <2>4
<1>7. \A s \in InTheQueue : told'[s] = told[s] /\ ~OwesBuyer(w, s)'
  BY DEF OwesBuyer
<1>8. staffTold' + Bit(OwesStaff(w)') + owing = staffTold + Bit(OwesStaff(w)) + owing'
  <2>1. Bit(OwesStaff(w)') = Bit("staff" \in officer'[w].letters) /\ Bit(OwesStaff(w)) = 0
    BY DEF Bit, OwesStaff
  <2>2. Bit("staff" \in officer'[w].letters) \in Nat /\ staffTold \in Nat /\ owing \in Nat
    BY DEF Bit, NoticesTypeOK
  <2> QED BY <2>1, <2>2
<1> QED BY <1>5, <1>6, <1>7, <1>8, LettersKept

LEMMA LockedLetters ==
    ASSUME NoticesInv, NoticesInv', LettersTrack, NEW w \in Officers, NEW to \in OrderStatus, NEW skip \in BOOLEAN,
           NEW own \in SUBSET {"own", "staff"}, SaveUnderLock(w, to, skip, own),
           owing' = owing + Bit("staff" \in own),
           skip \/ "own" \notin own,
           to \in Unqueued => standing # to /\ (skip => "own" \in own),
           to \in Refunded => "own" \in own,
           to \in InTheQueue => skip /\ "own" \notin own
    PROVE  LettersTrack'
<1> DEFINE letters == _send_status_change_email(standing, to, skip) \union own
<1>1. /\ officer[w].step = "idle" /\ record' = Entered(standing, to) /\ UNCHANGED <<told, staffTold>>
      /\ officer' = [officer EXCEPT ![w] = [OffDuty EXCEPT !.step = "mail", !.to = to, !.letters = letters]]
  BY DEF SaveUnderLock, Moves
<1>2. /\ letters \subseteq {"generic", "own", "staff"}
      /\ "generic" \in letters <=> standing # to /\ ~skip
      /\ "own" \in letters <=> "own" \in own
      /\ "staff" \in letters <=> "staff" \in own
  BY DEF _send_status_change_email
<1> HIDE DEF letters
<1>3. PICK after \in Officer : after = [OffDuty EXCEPT !.step = "mail", !.to = to, !.letters = letters]
                               /\ after.step = "mail" /\ after.to = to /\ after.letters = letters
  <2> DEFINE after == [OffDuty EXCEPT !.step = "mail", !.to = to, !.letters = letters]
  <2>1. after \in Officer
    BY <1>2, OffDutyIsOfficer DEF Officer
  <2>2. after.step = "mail" /\ after.to = to /\ after.letters = letters
    BY OffDutyIsOfficer DEF Officer
  <2> QED BY <2>1, <2>2
<1>4. officer'[w] = after /\ \A v \in Officers \ {w} : officer'[v] = officer[v]
  BY <1>1, <1>3 DEF NoticesInv, NoticesTypeOK
<1>5. officer[w].letters = {}
  BY <1>1 DEF NoticesInv, LettersLast
<1>6. letters \ {"staff"} = (IF standing # to /\ ~skip THEN {"generic"} ELSE {}) \union (IF "own" \in own THEN {"own"} ELSE {})
  BY <1>2
<1>7. letters \ {"staff"} \in {{}, {"generic"}, {"own"}}
  BY <1>6
<1>8. standing \in OrderStatus /\ NoticesTypeOK /\ NoticesTypeOK'
  BY DEF NoticesInv, NoticesTypeOK
<1>9. owing' = owing + Bit("staff" \in officer'[w].letters)
  BY <1>2, <1>3, <1>4 DEF Bit
<1>10. /\ to \in Unqueued => (letters \ {"staff"} # {} <=> standing # to)
       /\ to \in Refunded => letters \ {"staff"} # {}
       /\ to \in InTheQueue => letters \ {"staff"} = {}
  BY <1>6
<1> QED BY <1>1, <1>3, <1>4, <1>5, <1>7, <1>8, <1>9, <1>10, SavedLetters

LEMMA ServicesLetters ==
    ASSUME NoticesInv, NoticesInv', LettersTrack, NEW w \in Officers,
           \/ on_payment_captured(w) \/ on_payment_failed(w) \/ on_refund_processed(w)
           \/ store_dashboard_order_accept(w) \/ store_dashboard_order_mark_packed(w)
           \/ cancel_order(w) \/ release_expired_reservations(w)
    PROVE  LettersTrack'
<1> USE DEF OrderStatus, Unqueued, Refunded, InTheQueue, Bit
<1>1. owing \in Nat
  BY DEF NoticesInv, NoticesTypeOK
<1>2. CASE on_payment_captured(w) \/ on_payment_failed(w) \/ on_refund_processed(w)
  <2>1. PICK to \in OrderStatus : /\ _save_status_without_generic_email(w, to) /\ to \notin InTheQueue
                                  /\ to \in Unqueued => standing # to
    BY <1>2 DEF on_payment_captured, on_payment_failed, on_refund_processed
  <2>2. SaveUnderLock(w, to, TRUE, {"own"}) /\ owing' = owing
    BY <2>1 DEF _save_status_without_generic_email
  <2>4. owing' = owing + Bit("staff" \in {"own"})
    BY <1>1, <2>2
  <2>3. {"own"} \in SUBSET {"own", "staff"} /\ "own" \in {"own"} /\ TRUE \in BOOLEAN
    OBVIOUS
  <2> HIDE DEF OrderStatus, Unqueued, Refunded, InTheQueue, Bit
  <2> QED BY <2>1, <2>2, <2>3, <2>4, LockedLetters
<1>3. CASE store_dashboard_order_accept(w) \/ store_dashboard_order_mark_packed(w)
  <2>1. PICK to \in InTheQueue : SaveUnderLock(w, to, TRUE, {}) /\ owing' = owing
    BY <1>3 DEF store_dashboard_order_accept, store_dashboard_order_mark_packed, _advance_order_status
  <2>2. owing' = owing + Bit("staff" \in {}) /\ to \in OrderStatus
    BY <1>1, <2>1
  <2>3. to \notin Unqueued /\ to \notin Refunded /\ "own" \notin {} /\ TRUE \in BOOLEAN
    BY <2>1
  <2> HIDE DEF OrderStatus, Unqueued, Refunded, InTheQueue, Bit
  <2> QED BY <2>1, <2>2, <2>3, LockedLetters
<1>4. CASE cancel_order(w)
  <2>1. standing # "cancelled"
    BY <1>4 DEF cancel_order, MayBeCancelled
  <2>2. CASE standing \in PaidFor
    <3>1. SaveUnderLock(w, "cancelled", FALSE, {"staff"}) /\ owing' = owing + 1
      BY <1>4, <2>2 DEF cancel_order
    <3> QED BY <1>1, <2>1, <3>1, LockedLetters
  <2>3. CASE standing \notin PaidFor
    <3>1. SaveUnderLock(w, "cancelled", FALSE, {}) /\ owing' = owing + 0
      BY <1>4, <2>3 DEF cancel_order
    <3> QED BY <1>1, <2>1, <3>1, LockedLetters
  <2> QED BY <2>2, <2>3
<1>5. CASE release_expired_reservations(w)
  <2>1. SaveUnderLock(w, "expired", FALSE, {}) /\ owing' = owing /\ standing # "expired"
    BY <1>5 DEF release_expired_reservations
  <2>3. owing' = owing + Bit("staff" \in {})
    BY <1>1, <2>1
  <2>2. "expired" \in OrderStatus /\ "expired" \notin Refunded /\ "expired" \notin InTheQueue
    OBVIOUS
  <2> HIDE DEF OrderStatus, Unqueued, Refunded, InTheQueue, Bit
  <2> QED BY <2>1, <2>2, <2>3, LockedLetters
<1> QED BY <1>2, <1>3, <1>4, <1>5

\* A save that is under way, or a process that is done, owes nothing.
LEMMA NoLetters ==
    ASSUME NoticesTypeOK, NoticesTypeOK', LettersTrack, NEW w \in Officers, officer[w].letters = {},
           \A v \in Officers \ {w} : officer'[v] = officer[v], officer'[w].letters = {},
           officer'[w].step \in {"peek", "write", "log"} =>
                officer'[w].to \in {"awaiting_payment", "shipped", "delivered"},
           UNCHANGED <<record, told, staffTold, owing>>
    PROVE  LettersTrack'
<1>1. \A s \in OrderStatus : ~OwesBuyer(w, s) /\ ~OwesBuyer(w, s)'
  BY DEF OwesBuyer
<1>2. ~OwesStaff(w) /\ ~OwesStaff(w)'
  BY DEF OwesStaff
<1>3. /\ \A s \in OrderStatus : told[s] \in Nat /\ record.entries[s] \in Nat
      /\ staffTold \in Nat /\ owing \in Nat
  BY DEF NoticesTypeOK
<1>4. \A s \in OrderStatus : told'[s] + Bit(OwesBuyer(w, s)') + record.entries[s]
                             = told[s] + Bit(OwesBuyer(w, s)) + record.entries'[s]
  BY <1>1, <1>3 DEF Bit
<1>5. \A s \in OrderStatus : told'[s] + Bit(OwesBuyer(w, s)') + record.entries[s]
                             >= told[s] + Bit(OwesBuyer(w, s)) + record.entries'[s]
  BY <1>1, <1>3 DEF Bit
<1>6. staffTold' + Bit(OwesStaff(w)') + owing = staffTold + Bit(OwesStaff(w)) + owing'
  BY <1>2, <1>3 DEF Bit
<1>7. officer'[w].letters \ {"staff"} \in {{}, {"generic"}, {"own"}}
  OBVIOUS
<1>8. Unqueued \subseteq OrderStatus /\ Refunded \subseteq OrderStatus /\ InTheQueue \subseteq OrderStatus
  BY DEF Unqueued, Refunded, InTheQueue, OrderStatus
<1>9. \A s \in InTheQueue : told'[s] = told[s] /\ ~OwesBuyer(w, s)'
  BY <1>1, <1>8
<1>10. /\ \A s \in Unqueued : told'[s] + Bit(OwesBuyer(w, s)') + record.entries[s]
                              = told[s] + Bit(OwesBuyer(w, s)) + record.entries'[s]
       /\ \A s \in Refunded : told'[s] + Bit(OwesBuyer(w, s)') + record.entries[s]
                              >= told[s] + Bit(OwesBuyer(w, s)) + record.entries'[s]
  BY <1>4, <1>5, <1>8
<1> QED BY <1>6, <1>7, <1>9, <1>10, LettersKept

LEMMA UnlockedLetters ==
    ASSUME NoticesInv, NoticesInv', LettersTrack, NEW w \in Officers,
           \/ payment_retry(w) \/ _sync_shipped_order(w) \/ _cache_previous_order_status(w)
           \/ WriteOrder(w) \/ LogOrder(w)
    PROVE  LettersTrack'
<1>1. NoticesTypeOK /\ NoticesTypeOK' /\ officer \in [Officers -> Officer] /\ LettersLast
  BY DEF NoticesInv, NoticesTypeOK, Officer
<1>2. CASE payment_retry(w) \/ _sync_shipped_order(w)
  <2>1. PICK to \in {"awaiting_payment", "shipped", "delivered"} : Unlocked(w, to)
    BY <1>2 DEF payment_retry, _sync_shipped_order
  <2> DEFINE after == [OffDuty EXCEPT !.step = "peek", !.to = to]
  <2>2. after \in Officer /\ after.step = "peek" /\ after.to = to /\ after.letters = {}
    BY <2>1, OffDutyIsOfficer DEF Officer, OrderStatus
  <2>3. /\ officer' = [officer EXCEPT ![w] = after] /\ officer[w].step = "idle"
        /\ UNCHANGED <<record, told, staffTold, owing>>
    BY <2>1 DEF Unlocked, Moves
  <2> HIDE DEF after
  <2>4. officer'[w] = after /\ \A v \in Officers \ {w} : officer'[v] = officer[v]
    BY <1>1, <2>3
  <2>5. officer[w].letters = {}
    BY <1>1, <2>3 DEF LettersLast
  <2> QED BY <1>1, <2>1, <2>2, <2>3, <2>4, <2>5, NoLetters
<1>3. CASE _cache_previous_order_status(w) \/ WriteOrder(w)
  <2>1. /\ officer[w].step \in {"peek", "write"} /\ UNCHANGED <<record, told, staffTold, owing>>
        /\ officer'[w].to = officer[w].to /\ officer'[w].letters = officer[w].letters
        /\ \A v \in Officers \ {w} : officer'[v] = officer[v]
    BY <1>1, <1>3 DEF _cache_previous_order_status, WriteOrder, Officer
  <2>2. officer[w].letters = {} /\ officer[w].to \in {"awaiting_payment", "shipped", "delivered"}
    BY <1>1, <2>1 DEF LettersLast, LettersTrack
  <2> QED BY <1>1, <2>1, <2>2, NoLetters
<1>4. CASE LogOrder(w)
  <2> DEFINE from == officer[w].peeked
             to == officer[w].to
             letters == _send_status_change_email(from, to, FALSE)
  <2>1. /\ officer[w].step = "log" /\ record' = Entered(from, to) /\ UNCHANGED <<told, staffTold, owing>>
        /\ officer' = [officer EXCEPT ![w].step = "mail", ![w].letters = letters]
    BY <1>4 DEF LogOrder
  <2>2. from \in OrderStatus /\ to \in {"awaiting_payment", "shipped", "delivered"} /\ officer[w].letters = {}
    BY <1>1, <2>1 DEF Officer, LettersLast, LettersTrack
  <2>3. letters = IF from = to THEN {} ELSE {"generic"}
    BY DEF _send_status_change_email
  <2>4. /\ officer'[w].step = "mail" /\ officer'[w].to = to /\ officer'[w].letters = letters
        /\ \A v \in Officers \ {w} : officer'[v] = officer[v]
    BY <1>1, <2>1 DEF Officer
  <2> HIDE DEF letters
  <2>5. to \in OrderStatus /\ to \in Unqueued /\ to \notin Refunded /\ to \notin InTheQueue
    BY <2>2 DEF OrderStatus, Unqueued, Refunded, InTheQueue
  <2>6. owing' = owing + Bit("staff" \in officer'[w].letters)
    BY <1>1, <2>1, <2>3, <2>4 DEF Bit, NoticesTypeOK
  <2>7. /\ officer'[w].letters \ {"staff"} \in {{}, {"generic"}, {"own"}}
        /\ officer'[w].letters \ {"staff"} # {} <=> from # to
    BY <2>3, <2>4
  <2> HIDE DEF from, to
  <2> QED BY <1>1, <2>1, <2>2, <2>4, <2>5, <2>6, <2>7, SavedLetters
<1> QED BY <1>2, <1>3, <1>4

LEMMA MailingLetters ==
    ASSUME NoticesInv, NoticesInv', LettersTrack, NEW w \in Officers,
           TellBuyer(w) \/ _notify_staff_refund_needed(w) \/ AllMailed(w)
    PROVE  LettersTrack'
<1>1. /\ NoticesTypeOK /\ NoticesTypeOK' /\ officer \in [Officers -> Officer] /\ LettersLast
      /\ Unqueued \subseteq OrderStatus /\ Refunded \subseteq OrderStatus /\ InTheQueue \subseteq OrderStatus
  BY DEF NoticesInv, NoticesTypeOK, Officer, Unqueued, Refunded, InTheQueue, OrderStatus
<1>2. /\ \A s \in OrderStatus : told[s] \in Nat /\ record.entries[s] \in Nat
      /\ staffTold \in Nat /\ owing \in Nat
  BY <1>1 DEF NoticesTypeOK
<1>3. CASE TellBuyer(w)
  <2>1. PICK kind \in officer[w].letters \ {"staff"} : officer' = [officer EXCEPT ![w].letters = @ \ {kind}]
    BY <1>3 DEF TellBuyer
  <2>2. told' = [told EXCEPT ![officer[w].to] = @ + 1] /\ UNCHANGED <<record, staffTold, owing>>
    BY <1>3 DEF TellBuyer
  <2>3. /\ officer'[w].to = officer[w].to /\ officer'[w].step = officer[w].step
        /\ officer'[w].letters = officer[w].letters \ {kind}
        /\ \A v \in Officers \ {w} : officer'[v] = officer[v]
    BY <1>1, <2>1 DEF Officer
  <2>4. officer[w].letters \ {"staff"} = {kind} /\ officer'[w].letters \ {"staff"} = {}
    BY <2>1, <2>3 DEF LettersTrack
  <2>5. \A s \in OrderStatus : (OwesBuyer(w, s) <=> s = officer[w].to) /\ ~OwesBuyer(w, s)'
    BY <2>4 DEF OwesBuyer
  <2>6. OwesStaff(w)' <=> OwesStaff(w)
    BY <2>1, <2>3 DEF OwesStaff
  <2>7. \A s \in OrderStatus : told'[s] = told[s] + Bit(s = officer[w].to)
    BY <1>1, <1>2, <2>2 DEF NoticesTypeOK, Bit
  <2>8. \A s \in OrderStatus : told'[s] + Bit(OwesBuyer(w, s)') + record.entries[s]
                               = told[s] + Bit(OwesBuyer(w, s)) + record.entries'[s]
    BY <1>2, <2>2, <2>5, <2>7 DEF Bit
  <2>9. \A s \in OrderStatus : told'[s] + Bit(OwesBuyer(w, s)') + record.entries[s]
                               >= told[s] + Bit(OwesBuyer(w, s)) + record.entries'[s]
    BY <1>2, <2>2, <2>5, <2>7 DEF Bit
  <2>10. \A s \in InTheQueue : told'[s] = told[s] /\ ~OwesBuyer(w, s)'
    <3> TAKE s \in InTheQueue
    <3>1. ~OwesBuyer(w, s) /\ s \in OrderStatus
      BY <1>1 DEF LettersTrack
    <3>2. told'[s] = told[s] + 0
      BY <2>5, <2>7, <3>1 DEF Bit
    <3> QED BY <1>2, <2>5, <3>1, <3>2
  <2>11. staffTold' + Bit(OwesStaff(w)') + owing = staffTold + Bit(OwesStaff(w)) + owing'
    BY <1>2, <2>2, <2>6 DEF Bit
  <2>12. /\ \A s \in Unqueued : told'[s] + Bit(OwesBuyer(w, s)') + record.entries[s]
                               = told[s] + Bit(OwesBuyer(w, s)) + record.entries'[s]
         /\ \A s \in Refunded : told'[s] + Bit(OwesBuyer(w, s)') + record.entries[s]
                               >= told[s] + Bit(OwesBuyer(w, s)) + record.entries'[s]
    BY <1>1, <2>8, <2>9
  <2>13. officer'[w].step \in {"peek", "write", "log"} =>
                officer'[w].to \in {"awaiting_payment", "shipped", "delivered"}
    BY <2>3 DEF LettersTrack
  <2> QED BY <1>1, <2>3, <2>4, <2>10, <2>11, <2>12, <2>13, LettersKept
<1>4. CASE _notify_staff_refund_needed(w)
  <2>1. /\ "staff" \in officer[w].letters /\ officer' = [officer EXCEPT ![w].letters = @ \ {"staff"}]
        /\ staffTold' = staffTold + 1 /\ UNCHANGED <<record, told, owing>>
    BY <1>4 DEF _notify_staff_refund_needed
  <2>2. /\ officer'[w].to = officer[w].to /\ officer'[w].step = officer[w].step
        /\ officer'[w].letters = officer[w].letters \ {"staff"}
        /\ \A v \in Officers \ {w} : officer'[v] = officer[v]
    BY <1>1, <2>1 DEF Officer
  <2>3. officer'[w].letters \ {"staff"} = officer[w].letters \ {"staff"}
    BY <2>2
  <2>4. \A s \in OrderStatus : OwesBuyer(w, s)' <=> OwesBuyer(w, s)
    BY <2>2, <2>3 DEF OwesBuyer
  <2>5. OwesStaff(w) /\ ~OwesStaff(w)'
    BY <2>1, <2>2 DEF OwesStaff
  <2>6. /\ \A s \in Unqueued : told'[s] + Bit(OwesBuyer(w, s)') + record.entries[s]
                               = told[s] + Bit(OwesBuyer(w, s)) + record.entries'[s]
        /\ \A s \in Refunded : told'[s] + Bit(OwesBuyer(w, s)') + record.entries[s]
                               >= told[s] + Bit(OwesBuyer(w, s)) + record.entries'[s]
    BY <1>1, <1>2, <2>1, <2>4 DEF Bit
  <2>7. \A s \in InTheQueue : told'[s] = told[s] /\ ~OwesBuyer(w, s)'
    BY <1>1, <2>1, <2>4 DEF LettersTrack
  <2>8. staffTold' + Bit(OwesStaff(w)') + owing = staffTold + Bit(OwesStaff(w)) + owing'
    BY <1>2, <2>1, <2>5 DEF Bit
  <2>9. /\ officer'[w].letters \ {"staff"} \in {{}, {"generic"}, {"own"}}
        /\ officer'[w].step \in {"peek", "write", "log"} =>
                officer'[w].to \in {"awaiting_payment", "shipped", "delivered"}
    BY <2>2, <2>3 DEF LettersTrack
  <2> QED BY <1>1, <2>2, <2>6, <2>7, <2>8, <2>9, LettersKept
<1>5. CASE AllMailed(w)
  <2>1. /\ officer[w].letters = {} /\ officer' = [officer EXCEPT ![w] = OffDuty]
        /\ UNCHANGED <<record, told, staffTold, owing>>
    BY <1>5 DEF AllMailed
  <2>2. officer'[w] = OffDuty /\ \A v \in Officers \ {w} : officer'[v] = officer[v]
    BY <1>1, <2>1
  <2> QED BY <1>1, <2>1, <2>2, OffDutyIsOfficer, NoLetters
<1> QED BY <1>3, <1>4, <1>5

LEMMA LettersInitInv == NoticesInit => LettersInv
<1> SUFFICES ASSUME NoticesInit PROVE LettersTrack
  BY DEF LettersInv
<1>1. \A w \in Officers : officer[w].step = "idle" /\ officer[w].letters = {}
  BY OffDutyIsOfficer DEF NoticesInit
<1>2. \A s : \A w \in Officers : ~OwesBuyer(w, s) /\ ~OwesStaff(w)
  BY <1>1 DEF OwesBuyer, OwesStaff
<1>3. (\A s \in OrderStatus : Owing(s) = {}) /\ OwingStaff = {}
  BY <1>2 DEF Owing, OwingStaff
<1>4. \A s \in OrderStatus : told[s] = 0 /\ record.entries[s] = 0 /\ staffTold = 0 /\ owing = 0
  BY DEF NoticesInit
<1>5. Unqueued \subseteq OrderStatus /\ Refunded \subseteq OrderStatus /\ InTheQueue \subseteq OrderStatus
  BY DEF Unqueued, Refunded, InTheQueue, OrderStatus
<1>6. staffTold = 0 /\ owing = 0
  BY DEF NoticesInit
<1>7. IsFiniteSet({}) /\ Cardinality({}) = 0
  BY FS_EmptySet
<1>8. \A s \in OrderStatus : IsFiniteSet(Owing(s)) /\ told[s] + Cardinality(Owing(s)) = record.entries[s]
  BY <1>3, <1>4, <1>7
<1>9. IsFiniteSet(OwingStaff) /\ staffTold + Cardinality(OwingStaff) = owing
  BY <1>3, <1>6, <1>7
<1>10. \A s \in Refunded : told[s] + Cardinality(Owing(s)) >= record.entries[s]
  BY <1>3, <1>4, <1>5, <1>7
<1> QED BY <1>1, <1>2, <1>4, <1>5, <1>8, <1>9, <1>10 DEF LettersTrack

LEMMA LettersStepInv == NoticesInv /\ LettersInv /\ [NoticesNext]_noticeVars => LettersInv'
<1> SUFFICES ASSUME NoticesInv, LettersInv, [NoticesNext]_noticeVars, officersLost' = 0 PROVE LettersTrack'
  BY DEF LettersInv
<1>1. NoticesInv'
  BY NoticesStepInv
<1>2. CASE UNCHANGED noticeVars
  BY <1>2 DEF noticeVars, LettersInv, LettersTrack, Owing, OwesBuyer, OwingStaff, OwesStaff
<1>3. ASSUME NEW w \in Officers, OfficerDies(w) PROVE FALSE
  BY <1>3 DEF OfficerDies, NoticesInv, NoticesTypeOK
<1>4. CASE NoticesNext
  <2>1. officersLost = 0
    BY <1>3, <1>4 DEF NoticesNext, on_payment_captured, on_payment_failed, on_refund_processed,
          _save_status_without_generic_email, store_dashboard_order_accept, store_dashboard_order_mark_packed,
          _advance_order_status, cancel_order, release_expired_reservations, SaveUnderLock,
          payment_retry, _sync_shipped_order, Unlocked, _cache_previous_order_status, WriteOrder, LogOrder,
          TellBuyer, _notify_staff_refund_needed, AllMailed
  <2>2. LettersTrack
    BY <2>1 DEF LettersInv
  <2> QED BY <1>1, <1>3, <1>4, <2>2, ServicesLetters, UnlockedLetters, MailingLetters DEF NoticesNext
<1> QED BY <1>2, <1>4

LEMMA LettersInvTold == NoticesInv /\ LettersInv => BuyerToldOnce
<1> SUFFICES ASSUME NoticesInv, LettersInv, officersLost = 0, \A w \in Officers : officer[w].step = "idle"
             PROVE  /\ \A s \in OrderStatus \ {"accepted", "packed", "refunded", "partially_refunded"} : told[s] = record.entries[s]
                    /\ told["accepted"] = 0 /\ told["packed"] = 0
                    /\ \A s \in {"refunded", "partially_refunded"} : told[s] >= record.entries[s]
                    /\ staffTold = owing
  BY DEF BuyerToldOnce
<1>1. \A w \in Officers : officer[w].letters = {}
  BY DEF NoticesInv, LettersLast
<1>2. (\A s \in OrderStatus : Owing(s) = {}) /\ OwingStaff = {}
  BY <1>1 DEF Owing, OwesBuyer, OwingStaff, OwesStaff
<1>3. /\ \A s \in Unqueued : told[s] + 0 = record.entries[s]
      /\ \A s \in Refunded : told[s] + 0 >= record.entries[s]
      /\ \A s \in InTheQueue : told[s] = 0
      /\ staffTold + 0 = owing
  BY <1>2, FS_EmptySet DEF LettersInv, LettersTrack, Unqueued, Refunded, OrderStatus
<1>4. \A s \in OrderStatus : told[s] \in Nat /\ staffTold \in Nat
  BY DEF NoticesInv, NoticesTypeOK
<1> QED BY <1>3, <1>4 DEF Unqueued, Refunded, InTheQueue, OrderStatus

-----------------------------------------------------------------------------
(* The back office                                                         *)

\* A step of the back office is a step of each of these parts or leaves it alone.
LEMMA PartsStep ==
    [Next]_vars => /\ [CheckoutsNext]_checkoutVars /\ [AddressBookNext]_addressVars /\ [StorefrontNext]_storeVars
                   /\ [StockAlertsNext]_alertVars /\ [PurchaseOrdersNext]_supplyVars
                   /\ [NumbersNext]_numberVars /\ [ShipmentsNext]_shipmentVars
                   /\ [NoticesNext]_noticeVars /\ [EmailsNext]_emailVars /\ [ReportsNext]_reportVars
                   /\ [TxNext]_sessionVars /\ UNCHANGED part
BY DEF Next, vars

PartsInv ==
    /\ part \in Parts
    /\ CheckoutsInv /\ AddressesInv /\ StoreInv /\ AlertsInv
    /\ SupplyInv /\ DraftSound /\ NumbersInv /\ ShipmentInv /\ ReportsInv
    /\ NoticesInv /\ LettersInv /\ EmailsInv /\ MailersCount /\ TxInv

LEMMA PartsInvHolds == Spec => []PartsInv
<1>1. Init => PartsInv
  <2>1. EmailsInit => MailersCount
    BY EmailsAssumption DEF EmailsInit, MailersCount
  <2> QED BY <2>1, CheckoutsInitInv, AddressesInitInv, StoreInitInv, AlertsInitInv, SupplyInitInv, DraftInitSound,
             NumbersInitInv, ShipmentsInitInv, ReportsInitInv, NoticesInitInv, LettersInitInv, EmailsInitInv, TxInitInv
          DEF Init, PartsInv
<1>2. PartsInv /\ [Next]_vars => PartsInv'
  BY PartsStep, CheckoutsStepInv, AddressesStepInv, StoreStepInv, AlertsStepInv, SupplyStepInv, DraftStepSound,
     NumbersStepInv, ShipmentsStepInv, ReportsStepInv, NoticesStepInv, LettersStepInv, EmailsStepInv,
     MailersCountStep, TxStepInv DEF PartsInv
<1> QED BY <1>1, <1>2, PTL DEF Spec

\* The variables of every part keep their types.
THEOREM BackOfficeTypesHold == Spec => []BackOfficeTypeOK
<1>1. PartsInv => BackOfficeTypeOK
  BY CheckoutsInvTypes, EmailsInvTypes, ReportsInvTypes, ShipmentInvTells
     DEF PartsInv, BackOfficeTypeOK, AddressesInv, StoreInv, AlertsInv, SupplyInv, NumbersInv, ShipmentInv, NoticesInv,
         TxInv
<1> QED BY <1>1, PartsInvHolds, PTL

\* What staff read is what the rows say: the badges, filters and drafts of low stock agree on every
\* product; a page of the profitability report loses and invents nothing beyond the rounding of its
\* rows, over any window; the dashboard's revenue, chart and breakdown are those of the same orders
\* (catalog/profitability.py, catalog/admin.py, accounts/views.py, inventory/services.py), for any
\* products, prices, tax rates, baskets, orders and refunds.
THEOREM StaffReadTheRows == Spec => []ReportsAgree
<1>1. PartsInv => ReportsAgree
  BY SupplyInvAgrees, ReportsInvReport, ReportsInvDashboard DEF PartsInv, ReportsAgree, SalesReportsAddUp
<1> QED BY <1>1, PartsInvHolds, PTL

\* An order whose cart and prices stood still meanwhile charges what its items cost, and takes off no
\* more than that and no less than the promo (cart/views.py, cart/models.py), for any prices and any
\* number of requests.
THEOREM OrdersCharge == Spec => []OrdersChargeTheirItems
<1>1. PartsInv => OrdersChargeTheirItems
  BY CheckoutsInvCharges DEF PartsInv
<1> QED BY <1>1, PartsInvHolds, PTL

\* A coupon is redeemed beyond a limit only by a checkout that was past its form when another
\* redemption was written (cart/models.py), for any limits and number of requests.
THEOREM LimitsHold == Spec => []CouponLimitsHold
<1>1. PartsInv => CouponLimitsHold
  BY CheckoutsInvCharges DEF PartsInv
<1> QED BY <1>1, PartsInvHolds, PTL

\* What a buyer whose requests never overlapped put into the cart is there or was ordered, unit for
\* unit (cart/views.py, cart/models.py), for any number of requests, products and units.
THEOREM UnitsOrderedOnce == Spec => []EveryUnitOrderedOnce
<1>1. PartsInv => EveryUnitOrderedOnce
  BY CheckoutsInvUnits DEF PartsInv
<1> QED BY <1>1, PartsInvHolds, PTL

\* The halves of an invoice's tax miss it by one paisa at most, every tax is its rate on the taxable
\* value to half a paisa, and when the cart stood still tax and taxable value make up the subtotal
\* (fulfillment/services.py), for any prices, quantities and rates.
THEOREM InvoicesAddUp == Spec => []InvoiceAddsUp
<1>1. PartsInv => InvoiceAddsUp
  BY CheckoutsInvInvoice DEF PartsInv
<1> QED BY <1>1, PartsInvHolds, PTL

\* As long as no two requests of a buyer overlap at most one address is the default, and one is until
\* its tick was taken off (Address.save, accounts/views.py and services.py), for any number of tabs
\* and addresses.
THEOREM OneDefault == Spec => []OneDefaultAddress
<1>1. PartsInv => OneDefaultAddress
  BY AddressesInvDefault DEF PartsInv
<1> QED BY <1>1, PartsInvHolds, PTL

\* However requests overlap, a buyer has one review of a product at most and has paid for it, and one
\* wish at most, there after an odd number of clicks that did not overlap (catalog/views.py), for any
\* number of buyers, browsers and products.
THEOREM OneReviewEach == Spec => []OneReviewOneWish
<1>1. PartsInv => OneReviewOneWish
  BY StoreInvRows DEF PartsInv
<1> QED BY <1>1, PartsInvHolds, PTL

\* When nobody is at work and nobody died over a letter the buyer has one letter for each entry of the
\* order's trail that has one, refunds one each, and staff theirs (cart/signals.py and admin.py), for
\* any number of officers and moves, whatever saves overlapped.
THEOREM BuyersToldOnce == Spec => []BuyerToldOnce
<1>1. PartsInv => BuyerToldOnce
  BY LettersInvTold DEF PartsInv
<1> QED BY <1>1, PartsInvHolds, PTL

\* Whoever is marked as notified was mailed, once and nobody else unless a mailing broke off
\* (notify_back_in_stock in catalog/emails.py), for any number of visitors and saves, as long as
\* nobody signs up and no other save mails during a mailing.
THEOREM AlertsAreAnswered == Spec => []AlertsAnsweredOnce
<1>1. PartsInv => AlertsAnsweredOnce
  BY AlertsInvAnswered DEF PartsInv
<1> QED BY <1>1, PartsInvHolds, PTL

\* In the whole back office no purchase order line claims more than was ordered or arrived, whatever
\* overlaps; that it claims exactly what arrived, and that the order's status says what its lines say,
\* holds as long as no two pages have overlapped (inventory/services.py and admin.py).
THEOREM SuppliesAddUp == Spec => [](LinesClaimNoMoreThanArrived /\ StatusTellsWhatArrived)
<1>1. PartsInv => LinesClaimNoMoreThanArrived /\ StatusTellsWhatArrived
  BY SupplyInvLines, SupplyInvStatus DEF PartsInv
<1> QED BY <1>1, PartsInvHolds, PTL

\* In the whole back office no invoice number is used twice and each that is missing was burned by a lost
\* race or a crash between number and invoice; purchase orders have no gap (_next_invoice_number in
\* fulfillment/services.py, generate_po_number in inventory/services.py).
THEOREM NumbersAlwaysAddUp == Spec => []NumbersAddUp
<1>1. PartsInv => NumbersAddUp
  BY NumbersInvAddUp, NumbersInvGapless DEF PartsInv, NumbersAddUp
<1> QED BY <1>1, PartsInvHolds, PTL

\* As long as no two saves of the shipment have crossed and none has broken off, an order whose shipment
\* nobody is saving follows its parcel (fulfillment/signals.py), whatever the other parts do.
THEOREM OrdersFollowShipments == Spec => []OrderFollowsShipment
<1>1. PartsInv => OrderFollowsShipment
  BY ShipmentInvTells DEF PartsInv
<1> QED BY <1>1, PartsInvHolds, PTL

\* Each status trail is a chain that ends in the status of the row (the signals of fulfillment and of the
\* cart), as long as no write has come between the steps of an unlocked save and no process has died in
\* one: what sequential writers do over any history, for any number of them.
THEOREM TrailsStayChains == Spec => []TrailsAreChains
<1>1. PartsInv => TrailsAreChains
  BY ShipmentInvTells, NoticesInvTrail DEF PartsInv, TrailsAreChains
<1> QED BY <1>1, PartsInvHolds, PTL

\* The mail server gets a letter once, and never one that was given up (send_email_task in
\* common/tasks.py), for any number of letters, workers and retries, unless a worker is lost with it.
THEOREM LettersMailedOnce == Spec => []MailedOnce
<1>1. PartsInv => MailedOnce
  BY EmailsInvOnce DEF PartsInv
<1> QED BY <1>1, PartsInvHolds, PTL
=============================================================================
