------------------------------- MODULE Returns -------------------------------
(***************************************************************************)
(* The return requests of one delivered order (returns/services.py), with  *)
(* the refunds they lead to (module Refunds).  Every service loads what it *)
(* checks and writes later, with no lock in between: Check is the load and *)
(* the test, the action of the same name the writes.                       *)
(***************************************************************************)
EXTENDS Refunds

CONSTANTS
    Clerks,         \* the processes that serve the pages of return requests
    Items,          \* the order's items
    Ordered,        \* Ordered[i]: OrderItem.quantity
    ReturnLines,    \* the quantities a buyer may enter, per item
    ShipmentEdits,  \* what staff may set the return shipment to by hand
    MaxDropped      \* bound: returns whose clerk may die between the two saves of approve_return

ShipmentStatus == {"awaiting_dispatch", "shipped", "in_transit", "delivered", "lost"}

ASSUME ReturnsAssumption ==
    /\ IsFiniteSet(Requests)
    /\ Ordered \in [Items -> Nat]
    /\ ReturnLines \subseteq [Items -> Nat]
    /\ ShipmentEdits \subseteq ShipmentStatus
    /\ MaxDropped \in Nat

VARIABLES
    lines,          \* the quantities of each return request
    shipment,       \* ReturnShipment.status of each request, "none" before there is one
    putBack,        \* units that restock_from_return has put back on the shelf, per item
    desk,           \* the return service each clerk is in the middle of
    dropped         \* history: the returns whose clerk died between the two saves of approve_return

returnVars == <<lines, shipment, putBack, desk, dropped>>
vars == <<refundVars, returnVars>>

NoLines == [i \in Items |-> 0]
NoDesk == [service |-> "none", request |-> NoRequest, lines |-> NoLines, seen |-> <<>>]
AtDesk(w) == desk[w].service # "none"

Init ==
    /\ RefundInit([q \in Requests |-> "none"])
    /\ lines = [q \in Requests |-> NoLines]
    /\ shipment = [q \in Requests |-> "none"]
    /\ putBack = NoLines
    /\ desk = [w \in Clerks |-> NoDesk]
    /\ dropped = {}

\* _already_returned_quantity
Claimed == [i \in Items |->
    MapThenSumSet(LAMBDA q : IF returnStatus[q] \in {"rejected", "cancelled"} THEN 0 ELSE lines[q][i],
                  Requests)]

Remaining(i) == Ordered[i] - Claimed[i]     \* remaining_returnable_quantity

Sit(w, entry) ==
    /\ ~AtDesk(w)
    /\ desk' = [desk EXCEPT ![w] = entry]
    /\ UNCHANGED <<refundVars, lines, shipment, putBack, dropped>>

LeaveDesk(w) == desk' = [desk EXCEPT ![w] = NoDesk]

Overtaken(kind, now, seen) == stale' = IF now = seen THEN stale ELSE stale \union {kind}

-----------------------------------------------------------------------------
(* The services                                                            *)

\* What the buyer's page makes of the posted quantities: the lines above zero of the items that
\* still have something left.
LinesAsked ==
    {l \in ReturnLines : (\E i \in Items : l[i] > 0) /\ (\A i \in Items : l[i] > 0 => Remaining(i) > 0)}

\* (The return window only takes this step away, and a buyer need not take it: no variable for it.)
CheckRequest(w) ==
    /\ order = "delivered"
    /\ \E l \in LinesAsked :
        /\ \A i \in Items : l[i] <= Remaining(i)
        /\ Sit(w, [NoDesk EXCEPT !.service = "request", !.lines = l, !.seen = Claimed])

request_return(w) ==
    /\ desk[w].service = "request"
    /\ \E q \in Requests :
        /\ returnStatus[q] = "none"
        /\ returnStatus' = [returnStatus EXCEPT ![q] = "requested"]
        /\ lines' = [lines EXCEPT ![q] = desk[w].lines]
    /\ Overtaken("claims", Claimed, desk[w].seen)
    /\ LeaveDesk(w)
    /\ UNCHANGED <<shipment, putBack>>

\* Mutant of MustBe: a request can be received in any status after its approval.
MustBeLoose(service) ==
    IF service = "receive" THEN {"approved", "received", "refund_initiated", "refunded"} ELSE {"requested"}

\* the status a service insists on
MustBe(service) == IF service = "receive" THEN {"approved"} ELSE {"requested"}

\* A page has loaded the request of one of the services and found it in the status it must be in.
Opened(w, service) ==
    \E q \in Requests :
        /\ returnStatus[q] \in MustBe(service)
        /\ Sit(w, [NoDesk EXCEPT !.service = service, !.request = q, !.seen = returnStatus[q]])

\* the admin's two actions, on one selected request
CheckStatus(w) == Opened(w, "approve") \/ Opened(w, "reject")

\* the admin's page that books the parcel
CheckReceive(w) == Opened(w, "receive")

\* the buyer's own page
CheckCancel(w) == Opened(w, "cancel")

SetStatus(w, new) ==
    LET q == desk[w].request
    IN  /\ returnStatus' = [returnStatus EXCEPT ![q] = new]
        /\ Overtaken("status", returnStatus[q], desk[w].seen)

\* Mutant of approve_return: no ReturnShipment is created.
ApproveWithoutShipment(w) ==
    /\ desk[w].service = "approve"
    /\ SetStatus(w, "approved")
    /\ LeaveDesk(w)
    /\ UNCHANGED <<lines, shipment, putBack>>

\* Two saves, each committed at once: the status, and then the shipment.
approve_return(w) ==
    /\ desk[w].service = "approve"
    /\ SetStatus(w, "approved")
    /\ desk' = [desk EXCEPT ![w].service = "ship"]
    /\ UNCHANGED <<lines, shipment, putBack>>

\* approve_return goes on: ReturnShipment.objects.get_or_create
CreateReturnShipment(w) ==
    /\ desk[w].service = "ship"
    /\ shipment' = [shipment EXCEPT ![desk[w].request] = IF @ = "none" THEN "awaiting_dispatch" ELSE @]
    /\ dropped' = dropped \ {desk[w].request}
    /\ LeaveDesk(w)
    /\ UNCHANGED <<returnStatus, stale, lines, putBack>>

reject_return(w) ==
    /\ desk[w].service = "reject"
    /\ SetStatus(w, "rejected")
    /\ LeaveDesk(w)
    /\ UNCHANGED <<lines, shipment, putBack>>

cancel_return_request(w) ==
    /\ desk[w].service = "cancel"
    /\ SetStatus(w, "cancelled")
    /\ LeaveDesk(w)
    /\ UNCHANGED <<lines, shipment, putBack>>

\* Staff choose line by line what goes back on the shelf (restock_from_return); receiving the
\* parcel is what delivers the return shipment.
mark_return_received(w) ==
    LET q == desk[w].request
    IN  /\ desk[w].service = "receive"
        /\ \E restocked \in SUBSET Items :
            putBack' = [i \in Items |-> putBack[i] + IF i \in restocked THEN lines[q][i] ELSE 0]
        /\ SetStatus(w, "received")
        /\ shipment' = [shipment EXCEPT ![q] = IF @ = "none" THEN @ ELSE "delivered"]
        /\ LeaveDesk(w)
        /\ UNCHANGED lines

Serve(w) ==
    /\ \/ CreateReturnShipment(w)
       \/ /\ request_return(w) \/ approve_return(w) \/ reject_return(w) \/ cancel_return_request(w)
             \/ mark_return_received(w)
          /\ UNCHANGED dropped
    /\ UNCHANGED <<payment, gateway, row, notice, order, call, lost, overlap>>

\* The process is killed, or its next statement raises: what it has saved stays, the rest is not done.
ClerkDies(w) ==
    /\ AtDesk(w)
    /\ dropped' = IF desk[w].service = "ship" /\ shipment[desk[w].request] = "none"
                  THEN dropped \union {desk[w].request} ELSE dropped
    /\ Cardinality(dropped') <= MaxDropped
    /\ LeaveDesk(w)
    /\ UNCHANGED <<refundVars, lines, shipment, putBack>>

\* The first report moves the shipment on.  (Loaded and saved within one request, and nothing
\* but the shipment depends on it: one step.)
update_return_shipment_tracking ==
    /\ \E q \in Requests :
        /\ shipment[q] \in {"awaiting_dispatch", "shipped", "in_transit"}
        /\ shipment' = [shipment EXCEPT ![q] = IF @ = "awaiting_dispatch" THEN "shipped" ELSE @]
    /\ UNCHANGED <<refundVars, lines, putBack, desk, dropped>>

EditReturnShipment ==
    /\ \E q \in Requests, new \in ShipmentEdits :
        /\ shipment[q] # "none"
        /\ shipment' = [shipment EXCEPT ![q] = new]
    /\ UNCHANGED <<refundVars, lines, putBack, desk, dropped>>

Check(w) == CheckRequest(w) \/ CheckStatus(w) \/ CheckReceive(w) \/ CheckCancel(w)

Next ==
    \/ \E w \in Clerks : Check(w) \/ Serve(w) \/ ClerkDies(w)
    \/ update_return_shipment_tracking
    \/ EditReturnShipment
    \/ RefundStep /\ UNCHANGED returnVars

Spec == Init /\ [][Next]_vars

-----------------------------------------------------------------------------
(* Properties                                                              *)

\* The return has a shipment, or a clerk is about to create it, or one died over it.
ShipmentAccountedFor(q) ==
    \/ shipment[q] # "none"
    \/ q \in dropped
    \/ \E w \in Clerks : desk[w].service = "ship" /\ desk[w].request = q

\* The type invariant of the return workflow; and a return that got past its approval has a shipment,
\* "created in AWAITING_DISPATCH as soon as a ReturnRequest is approved" (returns/models.py:115),
\* unless a clerk is between the two saves of approve_return or died there.  Nothing else, no stale
\* status and no result of a refund, takes a return that far without one.
ReturnTypeOK ==
    /\ RefundTypeOK
    /\ lines \in [Requests -> [Items -> Nat]]
    /\ shipment \in [Requests -> ShipmentStatus \union {"none"}]
    /\ putBack \in [Items -> Nat]
    /\ dropped \subseteq Requests
    /\ \A q \in Requests :
            returnStatus[q] \in {"approved", "received", "refund_initiated", "refunded"} => ShipmentAccountedFor(q)

\* No more units of an item are claimed by return requests, and none are put back on the shelf
\* more often, than were ordered, unless a request was written whose check had been overtaken:
\* not through refunds that fail and are repeated, nor through rejections and new requests.
NothingReturnedTwice ==
    stale \intersect {"claims", "status"} = {} =>
        \A i \in Items : Claimed[i] <= Ordered[i] /\ putBack[i] <= Ordered[i]

\* A return that shows REFUNDED goes on doing so unless another refund of the same return fails
\* after it, or somebody saves a status from a copy that was loaded before (the save that ends
\* initiate_return_refund does so after every instant refund).
RefundedReturnsStay ==
    [][\A q \in Requests :
        returnStatus[q] = "refunded" /\ returnStatus'[q] # "refunded" =>
            \/ "status" \in stale'
            \/ \E r \in Refunds : row[r].request = q /\ row[r].status = "failed"]_vars
=============================================================================
