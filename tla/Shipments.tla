------------------------------ MODULE Shipments ------------------------------
(***************************************************************************)
(* The shipment of one paid order (fulfillment/services.py, signals.py,    *)
(* tasks.py and admin.py).  Staff and the tracking task each load the row, *)
(* change their copy and save all of it; nothing is locked, and a save is  *)
(* not one step but                                                        *)
(*                                                                         *)
(*   peek   pre_save reads the status that is about to be replaced         *)
(*   write  the UPDATE of the whole row                                    *)
(*   order  post_save moves Order.status along                             *)
(*   log    post_save adds the entry of the status trail                   *)
(*                                                                         *)
(* each committed on its own.                                              *)
(***************************************************************************)
EXTENDS Naturals

CONSTANTS
    Dispatchers,    \* the processes that serve the shipment pages of staff
    Trackers,       \* the workers that run the tracking task
    Words,          \* what the carrier may call the state of a parcel
    Route,          \* what it may report next: pairs of words
    Typed,          \* the rows staff may post with the shipment form
    MaxPresses,     \* bound: what staff do by hand
    MaxShipperLost  \* bound: shippers that may die in the middle of a save

ShippingStatus == {"pending", "picked_up", "in_transit", "out_for_delivery", "delivered", "ndr",
                   "returned", "cancelled"}

ShipmentRow == [status : ShippingStatus, waybill : BOOLEAN, shippedAt : BOOLEAN, deliveredAt : BOOLEAN]

ASSUME ShipmentsAssumption ==
    /\ "manifested" \in Words /\ Route \subseteq Words \X Words
    /\ Typed \subseteq ShipmentRow
    /\ {MaxPresses, MaxShipperLost} \subseteq Nat

VARIABLES
    parcel,     \* the carrier's own word for the state of the parcel
    shipping,   \* the Shipment row: status, whether it has a Delhivery waybill, its two dates
    purchase,   \* Order.status, from packed on
    trail,      \* the last entry of ShipmentStatusHistory, and whether the entries form a chain
    shipper,    \* what each process is doing
    crossed,    \* history: somebody wrote between another save's load and its end
    typedIn,    \* history: staff typed something into the form
    presses,    \* how often staff have pressed a button
    shippersLost

shipmentVars == <<parcel, shipping, purchase, trail, shipper, crossed, typedIn, presses, shippersLost>>

_ACTIVE_STATUSES == {"pending", "picked_up", "in_transit", "out_for_delivery", "ndr"}
Purchase == {"packed", "shipped", "delivered", "cancelled", "refunded"}

Shippers == Dispatchers \union Trackers

Ashore == [step |-> "idle", by |-> "nobody", copy |-> [status |-> "pending", waybill |-> FALSE,
           shippedAt |-> FALSE, deliveredAt |-> FALSE], order |-> "packed", peeked |-> "pending"]

Resting(w) == shipper[w].step = "idle"
AtSave(w, step) == shipper[w].step = step

ShipmentsInit ==
    /\ parcel = "manifested"
    /\ shipping = [status |-> "pending", waybill |-> FALSE, shippedAt |-> FALSE, deliveredAt |-> FALSE]
    /\ purchase = "packed"
    /\ trail = [to |-> "pending", chain |-> TRUE]
    /\ shipper = [w \in Shippers |-> Ashore]
    /\ crossed = FALSE
    /\ typedIn = FALSE
    /\ presses = 0
    /\ shippersLost = 0

\* somebody else is between the load of a row and the end of its save
OthersSaving(w) == \E v \in Shippers \ {w} : ~Resting(v)

\* A request has loaded the row and, where the page shows it, the order.
Take(w, by, step, copy) ==
    /\ Resting(w)
    /\ shipper' = [shipper EXCEPT ![w] = [Ashore EXCEPT !.step = step, !.by = by, !.copy = copy,
                                        !.order = IF by = "staff" THEN purchase ELSE @]]
    /\ crossed' = (crossed \/ OthersSaving(w))
    /\ presses' = presses + IF by = "task" THEN 0 ELSE 1
    /\ presses' <= MaxPresses
    /\ UNCHANGED <<parcel, shipping, purchase, trail, shippersLost>>

-----------------------------------------------------------------------------
(* Staff                                                                   *)

mark_picked_up(w) ==
    /\ Take(w, "staff", "peek", [shipping EXCEPT !.status = "picked_up", !.shippedAt = TRUE])
    /\ UNCHANGED typedIn

mark_delivered(w) ==
    /\ Take(w, "staff", "peek", [shipping EXCEPT !.status = "delivered", !.deliveredAt = TRUE])
    /\ UNCHANGED typedIn

\* The form posts every field, the carrier's number and the dates too, as the page showed them or as staff
\* typed them (a number that is typed is taken for the same parcel).
EditShipment(w) ==
    \E posted \in Typed :
        /\ Take(w, "form", "submit", posted)
        /\ typedIn' = (typedIn \/ posted # shipping)

\* the admin's action: the shipment is loaded, and the order manifested with the carrier
assign_delhivery_waybill_action(w) ==
    /\ Take(w, "staff", "manifest", shipping)
    /\ UNCHANGED typedIn

-----------------------------------------------------------------------------
(* Tracking                                                                *)

sync_all_shipment_tracking(w) ==
    /\ shipping.waybill /\ shipping.status \in _ACTIVE_STATUSES
    /\ Take(w, "task", "track", shipping)
    /\ UNCHANGED typedIn

\* the admin's action, which also takes shipments that are closed
sync_delhivery_tracking_action(w) ==
    /\ shipping.waybill
    /\ Take(w, "staff", "track", shipping)
    /\ UNCHANGED typedIn

Drop(w) == shipper' = [shipper EXCEPT ![w] = Ashore]

\* create_waybill returns a waybill (a second one for the order is taken for the same parcel) ...
assign_delhivery_waybill(w) ==
    /\ AtSave(w, "manifest")
    /\ shipper' = [shipper EXCEPT ![w].step = "peek", ![w].copy.waybill = TRUE]
    /\ UNCHANGED <<parcel, shipping, purchase, trail, crossed, typedIn, presses, shippersLost>>

\* ... or raises: no token, an HTTP error, a package without a waybill
create_waybill(w) ==
    /\ AtSave(w, "manifest")
    /\ Drop(w)
    /\ UNCHANGED <<parcel, shipping, purchase, trail, crossed, typedIn, presses, shippersLost>>

\* (the other way round: the carrier's words for each of our statuses)
_STATUS_MAP ==
    [pending   |-> {"manifested", "not picked"}, picked_up |-> {"picked up"},
     in_transit |-> {"in transit", "pending"}, out_for_delivery |-> {"dispatched", "out for delivery"},
     delivered |-> {"delivered"}, ndr |-> {"ndr", "undelivered"},
     returned  |-> {"rto", "return"}, cancelled |-> {"cancelled", "canceled"}]

\* our status for what the carrier says, none for a word that the map does not know
map_tracking_status(word) == {status \in ShippingStatus : word \in _STATUS_MAP[status]}

\* the copy after news from the carrier
Tracked(copy, status) ==
    [copy EXCEPT !.status      = status,
                 !.shippedAt   = @ \/ status = "picked_up",
                 !.deliveredAt = @ \/ status = "delivered"]

\* Mutant of TrackAnswers: a shipment is not moved past its delivery attempts.
TrackAnswersLate(w) ==
    LET news == map_tracking_status(parcel) \ {shipper[w].copy.status, "delivered"}
    IN  /\ AtSave(w, "track")
        /\ shipper' = [shipper EXCEPT ![w] = IF news = {} THEN Ashore ELSE
               [shipper[w] EXCEPT !.step = "peek", !.copy = Tracked(shipper[w].copy, CHOOSE status \in news : TRUE)]]
        /\ UNCHANGED <<parcel, shipping, purchase, trail, crossed, typedIn, presses, shippersLost>>

\* sync_shipment_tracking once the carrier has answered
TrackAnswers(w) ==
    LET news == map_tracking_status(parcel) \ {shipper[w].copy.status}
    IN  /\ AtSave(w, "track")
        /\ shipper' = [shipper EXCEPT ![w] = IF news = {} THEN Ashore ELSE
               [shipper[w] EXCEPT !.step = "peek", !.copy = Tracked(shipper[w].copy, CHOOSE status \in news : TRUE)]]
        /\ UNCHANGED <<parcel, shipping, purchase, trail, crossed, typedIn, presses, shippersLost>>

\* track raises, or the answer is not shaped as expected
track(w) ==
    /\ AtSave(w, "track")
    /\ Drop(w)
    /\ UNCHANGED <<parcel, shipping, purchase, trail, crossed, typedIn, presses, shippersLost>>

-----------------------------------------------------------------------------
(* A save                                                                  *)

_cache_previous_status(w) ==
    /\ AtSave(w, "peek")
    /\ shipper' = [shipper EXCEPT ![w].step = "write", ![w].peeked = shipping.status]
    /\ UNCHANGED <<parcel, shipping, purchase, trail, crossed, typedIn, presses, shippersLost>>

WriteShipment(w) ==
    /\ AtSave(w, "write")
    /\ shipping' = shipper[w].copy
    /\ shipper' = [shipper EXCEPT ![w].step = "order", ![w].copy = [Ashore.copy EXCEPT !.status = shipper[w].copy.status]]
    /\ UNCHANGED <<parcel, purchase, trail, crossed, typedIn, presses, shippersLost>>

\* Mutant of OrderStatusFor: a parcel that is out for delivery is nothing to tell the buyer.
OrderStatusForThree(status) ==
    IF status = "delivered" THEN {"delivered"} ELSE IF status = "picked_up" THEN {"shipped"} ELSE {}

\* _ORDER_STATUS_BY_SHIPMENT_STATUS
OrderStatusFor(status) ==
    CASE status = "delivered" -> {"delivered"}
      [] status \in {"picked_up", "in_transit", "out_for_delivery"} -> {"shipped"}
      [] OTHER -> {}

\* The order's status after the save of a shipment, by one who saw the order as `seen`.
Moved(seen, status) ==
    IF OrderStatusFor(status) \subseteq {seen} THEN purchase
    ELSE CHOOSE s \in OrderStatusFor(status) : TRUE

\* The admin's list loads the order with the shipment, the task only now.
_sync_order_status(w) ==
    /\ AtSave(w, "order")
    /\ purchase' = Moved(IF shipper[w].by = "task" THEN purchase ELSE shipper[w].order,
                         shipper[w].copy.status)
    /\ shipper' = [shipper EXCEPT ![w].step = "log"]
    /\ UNCHANGED <<parcel, shipping, trail, crossed, typedIn, presses, shippersLost>>

\* the trail with the entry that a save from one status to another adds
Logged(from, to) ==
    IF from = to THEN trail ELSE [to |-> to, chain |-> trail.chain /\ trail.to = from]

\* Mutant of _record_status_history: nobody to attribute the change to, no entry.
RecordAttributed(w) ==
    /\ AtSave(w, "log")
    /\ trail' = IF shipper[w].by = "task" THEN trail ELSE Logged(shipper[w].peeked, shipper[w].copy.status)
    /\ Drop(w)
    /\ UNCHANGED <<parcel, shipping, purchase, crossed, typedIn, presses, shippersLost>>

_record_status_history(w) ==
    /\ AtSave(w, "log")
    /\ trail' = Logged(shipper[w].peeked, shipper[w].copy.status)
    /\ Drop(w)
    /\ UNCHANGED <<parcel, shipping, purchase, crossed, typedIn, presses, shippersLost>>

\* The form's request is one transaction.
SubmitForm(w) ==
    /\ AtSave(w, "submit")
    /\ shipping' = shipper[w].copy
    /\ purchase' = Moved(purchase, shipper[w].copy.status)
    /\ trail' = Logged(shipping.status, shipper[w].copy.status)
    /\ Drop(w)
    /\ UNCHANGED <<parcel, crossed, typedIn, presses, shippersLost>>

-----------------------------------------------------------------------------
(* The carrier, the order's other writers, faults                          *)

CarrierMoves ==
    /\ shipping.waybill
    /\ \E leg \in Route : leg[1] = parcel /\ parcel' = leg[2]
    /\ UNCHANGED <<shipping, purchase, trail, shipper, crossed, typedIn, presses, shippersLost>>

\* cancel_order and on_refund_processed, as far as the order
OrderCloses ==
    /\ \/ purchase = "packed" /\ purchase' = "cancelled"
       \/ purchase' = "refunded"
    /\ crossed' = (crossed \/ \E v \in Shippers : ~Resting(v))
    /\ UNCHANGED <<parcel, shipping, trail, shipper, typedIn, presses, shippersLost>>

ShipperDies(w) ==
    /\ ~Resting(w)
    /\ shippersLost < MaxShipperLost
    /\ shippersLost' = shippersLost + 1
    /\ Drop(w)
    /\ UNCHANGED <<parcel, shipping, purchase, trail, crossed, typedIn, presses>>

Save(w) ==
    \/ _cache_previous_status(w) \/ WriteShipment(w) \/ _sync_order_status(w)
    \/ _record_status_history(w) \/ SubmitForm(w)

ShipmentsNext ==
    \/ \E w \in Dispatchers :
        \/ mark_picked_up(w) \/ mark_delivered(w) \/ EditShipment(w) \/ assign_delhivery_waybill_action(w)
        \/ sync_delhivery_tracking_action(w)
    \/ \E w \in Trackers : sync_all_shipment_tracking(w)
    \/ \E w \in Shippers :
        \/ assign_delhivery_waybill(w) \/ create_waybill(w)
        \/ TrackAnswers(w) \/ track(w)
        \/ Save(w)
        \/ ShipperDies(w)
    \/ CarrierMoves
    \/ OrderCloses

\* The beat starts the task again and again, what it saves it finishes, and the carrier's API answers
\* now and then; nobody has to press a button or wait for its answer, and no parcel has to move.
ShipmentsFairness ==
    \A w \in Trackers :
        /\ WF_shipmentVars(Save(w) \/ TrackAnswers(w) \/ track(w))
        /\ SF_shipmentVars(TrackAnswers(w))
        /\ SF_shipmentVars(sync_all_shipment_tracking(w))

ShipmentsSpec == ShipmentsInit /\ [][ShipmentsNext]_shipmentVars /\ ShipmentsFairness

-----------------------------------------------------------------------------
(* Properties                                                              *)

\* The type invariant.
ShipmentTypeOK ==
    /\ parcel \in Words
    /\ shipping \in ShipmentRow
    /\ purchase \in Purchase
    /\ trail \in [to : ShippingStatus, chain : BOOLEAN]
    /\ shipper \in [Shippers -> [step : {"idle", "manifest", "track", "peek", "write", "order", "log", "submit"},
                                 by : {"nobody", "task", "staff", "form"}, copy : ShipmentRow, order : Purchase,
                                 peeked : ShippingStatus]]
    /\ crossed \in BOOLEAN /\ typedIn \in BOOLEAN
    /\ presses \in 0..MaxPresses /\ shippersLost \in 0..MaxShipperLost

\* A shipment that shows delivered has the day of its delivery, and one that shows picked up the
\* day it was shipped, however saves of stale copies overwrite one another, unless staff typed
\* something into the form.
DatesMatchStatus ==
    ~typedIn =>
        /\ shipping.status = "delivered" => shipping.deliveredAt
        /\ shipping.status = "picked_up" => shipping.shippedAt

\* When nobody is in the middle of a save, no save broke off and none crossed another writer, the
\* order says what its parcel does, unless it was refunded since: also an order that had been
\* cancelled before the parcel went out.
OrderFollowsShipment ==
    (~crossed /\ shippersLost = 0 /\ \A w \in Shippers : Resting(w)) =>
        /\ shipping.status \in {"picked_up", "in_transit", "out_for_delivery"} => purchase \in {"shipped", "refunded"}
        /\ shipping.status = "delivered" => purchase \in {"delivered", "refunded"}

\* The status trail is complete: every entry starts where the one before it ended, and the last
\* one ends at the status the row shows, unless two saves overlapped or one broke off.
TrailIsAChain ==
    (~crossed /\ shippersLost = 0) =>
        /\ trail.chain
        /\ (\A w \in Shippers : ~AtSave(w, "order") /\ ~AtSave(w, "log")) => trail.to = shipping.status

\* The carrier's last word reaches the row while the row has its waybill and is still open
\* (assigning a waybill and losing it again to a stale save ends the tracking).
CarrierNewsArrives ==
    (map_tracking_status(parcel) \intersect {"delivered", "returned", "cancelled"} # {} /\ shipping.waybill)
        ~> (shipping.status \notin _ACTIVE_STATUSES \/ ~shipping.waybill)
=============================================================================
