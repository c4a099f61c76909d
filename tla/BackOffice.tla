------------------------------ MODULE BackOffice ------------------------------
(***************************************************************************)
(* The components of the shop that share no state, side by side: what one  *)
(* of them does changes no variable of another, so that a behaviour of the *)
(* shop is an interleaving of theirs, and each may be looked at with the   *)
(* others standing still.  `part` says which one moves.                    *)
(***************************************************************************)
EXTENDS Checkouts, AddressBook, StockAlerts, PurchaseOrders, DocumentNumbers, Shipments,
        Reports, Notices, Emails, Storefront, StockTransactions

VARIABLE part

Parts == {"checkouts", "address_book", "stock_alerts", "purchase_orders", "document_numbers", "shipments",
          "reports", "notices", "emails", "storefront", "stock"}

vars == <<part, checkoutVars, addressVars, alertVars, supplyVars, numberVars, shipmentVars,
          reportVars, noticeVars, emailVars, storeVars, sessionVars>>

\* A part that does not move starts in one state only.
Init ==
    /\ part \in Parts
    /\ CheckoutsInit /\ AddressBookInit /\ StockAlertsInit /\ PurchaseOrdersInit /\ NumbersInit
    /\ ShipmentsInit /\ ReportsInit /\ NoticesInit /\ EmailsInit /\ StorefrontInit /\ TxInit
    /\ part # "purchase_orders" =>
            shelf = [p \in Supplied |-> 0] /\ threshold = [p \in Supplied |-> CHOOSE t \in Thresholds : TRUE]

Next ==
    /\ UNCHANGED part
    /\ \/ /\ part = "checkouts" /\ CheckoutsNext
          /\ UNCHANGED <<addressVars, alertVars, supplyVars, numberVars, shipmentVars, reportVars, noticeVars, emailVars, storeVars, sessionVars>>
       \/ /\ part = "address_book" /\ AddressBookNext
          /\ UNCHANGED <<checkoutVars, alertVars, supplyVars, numberVars, shipmentVars, reportVars, noticeVars, emailVars, storeVars, sessionVars>>
       \/ /\ part = "stock_alerts" /\ StockAlertsNext
          /\ UNCHANGED <<checkoutVars, addressVars, supplyVars, numberVars, shipmentVars, reportVars, noticeVars, emailVars, storeVars, sessionVars>>
       \/ /\ part = "purchase_orders" /\ PurchaseOrdersNext
          /\ UNCHANGED <<checkoutVars, addressVars, alertVars, numberVars, shipmentVars, reportVars, noticeVars, emailVars, storeVars, sessionVars>>
       \/ /\ part = "document_numbers" /\ NumbersNext
          /\ UNCHANGED <<checkoutVars, addressVars, alertVars, supplyVars, shipmentVars, reportVars, noticeVars, emailVars, storeVars, sessionVars>>
       \/ /\ part = "shipments" /\ ShipmentsNext
          /\ UNCHANGED <<checkoutVars, addressVars, alertVars, supplyVars, numberVars, reportVars, noticeVars, emailVars, storeVars, sessionVars>>
       \/ /\ part = "reports" /\ ReportsNext
          /\ UNCHANGED <<checkoutVars, addressVars, alertVars, supplyVars, numberVars, shipmentVars, noticeVars, emailVars, storeVars, sessionVars>>
       \/ /\ part = "notices" /\ NoticesNext
          /\ UNCHANGED <<checkoutVars, addressVars, alertVars, supplyVars, numberVars, shipmentVars, reportVars, emailVars, storeVars, sessionVars>>
       \/ /\ part = "emails" /\ EmailsNext
          /\ UNCHANGED <<checkoutVars, addressVars, alertVars, supplyVars, numberVars, shipmentVars, reportVars, noticeVars, storeVars, sessionVars>>
       \/ /\ part = "storefront" /\ StorefrontNext
          /\ UNCHANGED <<checkoutVars, addressVars, alertVars, supplyVars, numberVars, shipmentVars, reportVars, noticeVars, emailVars, sessionVars>>
       \/ /\ part = "stock" /\ TxNext
          /\ UNCHANGED <<checkoutVars, addressVars, alertVars, supplyVars, numberVars, shipmentVars, reportVars, noticeVars, emailVars, storeVars>>

\* (A part that stands still has no fair action to take: no parcel has a waybill yet, no letter is
\* queued, no session runs.  So its fairness rules out no behaviour of another.)
Spec == Init /\ [][Next]_vars /\ ShipmentsFairness /\ EmailsFairness /\ TxFairness

-----------------------------------------------------------------------------
(* Properties that speak of several parts                                  *)

\* The type invariant of all parts.
BackOfficeTypeOK ==
    /\ part \in Parts
    /\ CheckoutsTypeOK /\ AddressBookTypeOK /\ StockAlertsTypeOK /\ PurchaseOrdersTypeOK /\ NumbersTypeOK
    /\ ShipmentTypeOK /\ ReportsTypeOK /\ NoticesTypeOK /\ EmailsTypeOK /\ StorefrontTypeOK
    /\ TxTypeOK

\* What staff read on any screen is what the rows say: the stock report and the list of products to
\* reorder (StockReportsAgree), the dashboard and the profitability report (SalesReportsAddUp).
ReportsAgree == StockReportsAgree /\ SalesReportsAddUp

\* Invoices and purchase orders are numbered without a gap or a double, as far as each may be
\* (InvoiceNumbersAddUp, PurchaseOrdersAreGapless).
NumbersAddUp == InvoiceNumbersAddUp /\ PurchaseOrdersAreGapless

\* The trail of a parcel's order and the trail of an order that several people work on are chains that
\* end in the status the order has (TrailIsAChain, OrderTrailIsAChain).
TrailsAreChains == TrailIsAChain /\ OrderTrailIsAChain
=============================================================================
