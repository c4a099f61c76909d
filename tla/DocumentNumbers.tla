--------------------------- MODULE DocumentNumbers ---------------------------
(***************************************************************************)
(* The two series of numbered documents: invoices                          *)
(* (fulfillment/services.py), whose number is committed before the invoice *)
(* exists, and purchase orders (inventory/services.py, models.py), whose   *)
(* number is taken inside the transaction that creates the order.  Any     *)
(* number of writers run at once and may die at any step.                  *)
(***************************************************************************)
EXTENDS Naturals

CONSTANTS
    Writers,        \* the workers that run the pipeline of an order or a page of purchase orders
    PaidOrders,     \* bound: the orders that get an invoice
    Suppliers,      \* bound: one purchase order for each
    Years,          \* bound: the financial years, 1 .. Years
    MaxWritersLost  \* bound: writers that may die

ASSUME NumbersAssumption ==
    /\ Years \in Nat \ {0} /\ MaxWritersLost \in Nat
    /\ PaidOrders \intersect (Suppliers \union Writers) = {}

VARIABLES
    year,           \* _current_financial_year
    lastNumber,     \* InvoiceNumberSequence.last_number of each year
    invoice,        \* the Invoice of each order: its year and number, 0 while there is none
    poNumber,       \* the purchase order of each supplier: its number, 0 while there is none
    poLast,         \* PurchaseOrderSequence.last_number
    writer,         \* what each writer is doing
    wasted,         \* history: the invoice numbers that were taken and not used
    writersLost

numberVars == <<year, lastNumber, invoice, poNumber, poLast, writer, wasted, writersLost>>

AtRest == [step |-> "idle", for |-> "nobody", year |-> 1, number |-> 0]
Unnumbered == [year |-> 1, number |-> 0]
Invoiced(o) == invoice[o].number > 0

Writing(w, step) == writer[w].step = step
PutDown(w) == writer' = [writer EXCEPT ![w] = AtRest]

NumbersInit ==
    /\ year = 1
    /\ lastNumber = [y \in 1..Years |-> 0]
    /\ invoice = [o \in PaidOrders |-> Unnumbered]
    /\ poNumber = [s \in Suppliers |-> 0]
    /\ poLast = 0
    /\ writer = [w \in Writers |-> AtRest]
    /\ wasted = {}
    /\ writersLost = 0

NewYear ==
    /\ year < Years
    /\ year' = year + 1
    /\ UNCHANGED <<lastNumber, invoice, poNumber, poLast, writer, wasted, writersLost>>

-----------------------------------------------------------------------------
(* generate_invoice                                                        *)

\* the look for an invoice; one that exists is all the caller wants
LookForInvoice(w) ==
    \E o \in PaidOrders :
        /\ Writing(w, "idle") /\ ~Invoiced(o)
        /\ writer' = [writer EXCEPT ![w] = [AtRest EXCEPT !.step = "number", !.for = o]]
        /\ UNCHANGED <<year, lastNumber, invoice, poNumber, poLast, wasted, writersLost>>

\* Mutant of _next_invoice_number: the number of invoices there are, plus one.
NumberFromCount(w) ==
    /\ Writing(w, "number")
    /\ lastNumber' = [lastNumber EXCEPT ![year] = @ + 1]
    /\ \E n \in 1..lastNumber'[year] :
        /\ \A m \in 1..(n - 1) : \E o \in PaidOrders : invoice[o] = [year |-> year, number |-> m]
        /\ \A o \in PaidOrders : invoice[o] # [year |-> year, number |-> n]
        /\ writer' = [writer EXCEPT ![w].step = "create", ![w].year = year, ![w].number = n]
    /\ UNCHANGED <<year, invoice, poNumber, poLast, wasted, writersLost>>

\* its own transaction, on the locked row of the financial year
_next_invoice_number(w) ==
    /\ Writing(w, "number")
    /\ lastNumber' = [lastNumber EXCEPT ![year] = @ + 1]
    /\ writer' = [writer EXCEPT ![w].step = "create", ![w].year = year, ![w].number = lastNumber'[year]]
    /\ UNCHANGED <<year, invoice, poNumber, poLast, wasted, writersLost>>

Taken(w) == [year |-> writer[w].year, number |-> writer[w].number]

\* Invoice.objects.create: the second invoice of an order fails on the unique key.
CreateInvoice(w) ==
    LET o == writer[w].for
    IN  /\ Writing(w, "create")
        /\ IF Invoiced(o)
           THEN wasted' = wasted \union {Taken(w)} /\ UNCHANGED invoice
           ELSE invoice' = [invoice EXCEPT ![o] = Taken(w)] /\ UNCHANGED wasted
        /\ PutDown(w)
        /\ UNCHANGED <<year, lastNumber, poNumber, poLast, writersLost>>

-----------------------------------------------------------------------------
(* create_purchase_order                                                   *)

\* the sequence row stays locked until the transaction ends
Locked == \E v \in Writers : Writing(v, "lines")

_generate_po_number(w) ==
    \E s \in Suppliers :
        /\ Writing(w, "idle") /\ poNumber[s] = 0 /\ ~Locked
        /\ writer' = [writer EXCEPT ![w] = [AtRest EXCEPT !.step = "lines", !.for = s, !.number = poLast + 1]]
        /\ UNCHANGED <<year, lastNumber, invoice, poNumber, poLast, wasted, writersLost>>

\* the commit: sequence, order and lines together
CreatePurchaseOrder(w) ==
    /\ Writing(w, "lines")
    /\ poLast' = writer[w].number
    /\ poNumber' = [poNumber EXCEPT ![writer[w].for] = writer[w].number]
    /\ PutDown(w)
    /\ UNCHANGED <<year, lastNumber, invoice, wasted, writersLost>>

-----------------------------------------------------------------------------

\* a worker dies, or what it does next raises: whatever it has not committed is gone
WriterDies(w) ==
    /\ ~Writing(w, "idle")
    /\ writersLost < MaxWritersLost
    /\ writersLost' = writersLost + 1
    /\ wasted' = IF Writing(w, "create") THEN wasted \union {Taken(w)} ELSE wasted
    /\ PutDown(w)
    /\ UNCHANGED <<year, lastNumber, invoice, poNumber, poLast>>

NumbersNext ==
    \/ NewYear
    \/ \E w \in Writers :
        \/ LookForInvoice(w) \/ _next_invoice_number(w) \/ CreateInvoice(w)
        \/ _generate_po_number(w) \/ CreatePurchaseOrder(w)
        \/ WriterDies(w)

NumbersSpec == NumbersInit /\ [][NumbersNext]_numberVars

-----------------------------------------------------------------------------
(* Properties                                                              *)

\* The type invariant.
NumbersTypeOK ==
    LET Number == [year : 1..Years, number : Nat]
    IN  /\ year \in 1..Years
        /\ lastNumber \in [1..Years -> Nat]
        /\ invoice \in [PaidOrders -> Number]
        /\ poNumber \in [Suppliers -> Nat] /\ poLast \in Nat
        /\ writer \in [Writers -> [step : {"idle", "number", "create", "lines"},
                                   for : {"nobody"} \union PaidOrders \union Suppliers,
                                   year : 1..Years, number : Nat]]
        /\ wasted \subseteq Number
        /\ writersLost \in 0..MaxWritersLost

\* the orders and writers that hold an invoice number, and the number they hold
Holders == {o \in PaidOrders : Invoiced(o)} \union {w \in Writers : Writing(w, "create")}
Held(h) == IF h \in PaidOrders THEN invoice[h] ELSE Taken(h)

\* "Gapless sequential invoice numbers" (fulfillment/models.py:18): every number up to the last one
\* is on an invoice, or in the hands of a writer that is about to create one.  A violation run: the
\* number is committed before the invoice, so a writer that dies in between leaves a gap, and so
\* does the loser of the race that the docstring of generate_invoice calls safe.
InvoiceNumbersAreGapless ==
    \A y \in 1..Years : \A n \in 1..lastNumber[y] : \E h \in Holders : Held(h) = [year |-> y, number |-> n]

\* What the code does keep: "a corrected or voided invoice can never cause a number to be skipped or
\* reused" (fulfillment/models.py:20-22).  No number is ever held twice or used after it was wasted,
\* and in every year the numbers from 1 to last_number are the ones held and the ones wasted, so
\* that only a lost race or a crash between number and invoice leaves a gap.
InvoiceNumbersAddUp ==
    /\ \A g, h \in Holders : g # h => Held(g) # Held(h)
    /\ \A h \in Holders : Held(h) \notin wasted
    /\ \A y \in 1..Years : \A n \in 1..lastNumber[y] :
            [year |-> y, number |-> n] \in wasted \union {Held(h) : h \in Holders}

\* Purchase orders are numbered without a gap whatever dies: the numbers in use are exactly those
\* from 1 to last_number, each once.
PurchaseOrdersAreGapless ==
    /\ \A s, t \in Suppliers : s # t /\ poNumber[s] = poNumber[t] => poNumber[s] = 0
    /\ {poNumber[s] : s \in Suppliers} \ {0} = 1..poLast
=============================================================================
