------------------------------- MODULE Notices -------------------------------
(***************************************************************************)
(* What is written down and mailed when the status of one order changes    *)
(* (cart/signals.py, services.py, payments/pipeline.py).  The services     *)
(* save the order under its row lock, so that reading the old status,      *)
(* the UPDATE and the entry of the status trail are one step; their        *)
(* letters leave after the commit, one by one.  payment_retry and the      *)
(* shipment's signal save without a lock and commit each of                *)
(*                                                                         *)
(*   peek   pre_save reads the status that is about to be replaced         *)
(*   write  the UPDATE                                                     *)
(*   log    the entry of OrderStatusHistory                                *)
(*                                                                         *)
(* on its own.                                                             *)
(***************************************************************************)
EXTENDS Naturals, FiniteSets

CONSTANTS
    Officers,       \* the processes that change the order's status
    MaxMoves,       \* bound: changes begun
    MaxOfficersLost \* bound: processes that may die before their letters are out

ASSUME NoticesAssumption == {MaxMoves, MaxOfficersLost} \subseteq Nat

OrderStatus == {"awaiting_payment", "payment_confirmed", "payment_failed", "expired", "accepted", "packed",
                "shipped", "delivered", "cancelled", "refunded", "partially_refunded"}
PaidFor == {"payment_confirmed", "accepted", "packed", "shipped", "delivered"}
MayBeCancelled == {"awaiting_payment", "payment_failed", "payment_confirmed", "accepted", "packed"}

VARIABLES
    standing,   \* Order.status
    record,     \* OrderStatusHistory: the last entry, the entries per new status; whether they form a chain
    told,       \* letters to the buyer, per status they speak of
    staffTold,  \* letters that tell staff of a refund that is owed
    owing,      \* history: cancellations of a paid order
    officer,    \* what each process is doing
    mingled,    \* history: somebody wrote while an unlocked save was between its steps
    moves,      \* how many changes were begun
    officersLost

noticeVars == <<standing, record, told, staffTold, owing, officer, mingled, moves, officersLost>>

OffDuty == [step |-> "idle", to |-> "awaiting_payment", peeked |-> "awaiting_payment", letters |-> {}]

NoticesInit ==
    /\ standing = "awaiting_payment"
    /\ record = [last |-> "awaiting_payment", chain |-> TRUE, entries |-> [s \in OrderStatus |-> 0]]
    /\ told = [s \in OrderStatus |-> 0]
    /\ staffTold = 0
    /\ owing = 0
    /\ officer = [w \in Officers |-> OffDuty]
    /\ mingled = FALSE
    /\ moves = 0
    /\ officersLost = 0

Moves(w) == officer[w].step = "idle" /\ moves < MaxMoves /\ moves' = moves + 1

\* another process has read the status it will log as the previous one, and has not logged it
BetweenSteps(w) == \E v \in Officers \ {w} : officer[v].step \in {"write", "log"}

\* _record_status_history: nothing for a save that changes nothing
Entered(from, to) ==
    IF from = to THEN record
    ELSE [last |-> to, chain |-> record.chain /\ record.last = from, entries |-> [record.entries EXCEPT ![to] = @ + 1]]

\* Mutant of _send_status_change_email: the flag is not looked at.
SendUnlessUnchanged(from, to, skip) == IF from = to THEN {} ELSE {"generic"}

\* the generic letter, unless the save said not to send it
_send_status_change_email(from, to, skip) == IF from = to \/ skip THEN {} ELSE {"generic"}

\* A save under the order's lock, and what will be mailed after it.
SaveUnderLock(w, to, skip, own) ==
    /\ Moves(w)
    /\ standing' = to
    /\ record' = Entered(standing, to)
    /\ mingled' = (mingled \/ BetweenSteps(w))
    /\ officer' = [officer EXCEPT ![w] = [OffDuty EXCEPT !.step = "mail", !.to = to,
                        !.letters = _send_status_change_email(standing, to, skip) \union own]]
    /\ UNCHANGED <<told, staffTold, officersLost>>

-----------------------------------------------------------------------------
(* The services                                                            *)

_save_status_without_generic_email(w, to) == SaveUnderLock(w, to, TRUE, {"own"}) /\ UNCHANGED owing

on_payment_captured(w) == standing = "awaiting_payment" /\ _save_status_without_generic_email(w, "payment_confirmed")
on_payment_failed(w) == standing = "awaiting_payment" /\ _save_status_without_generic_email(w, "payment_failed")

\* A captured payment is refunded, in whatever status its order is by then.
on_refund_processed(w) ==
    /\ standing # "awaiting_payment"
    /\ \E to \in {"refunded", "partially_refunded"} : _save_status_without_generic_email(w, to)

_advance_order_status(w, from, to) == standing = from /\ SaveUnderLock(w, to, TRUE, {}) /\ UNCHANGED owing

\* from the dashboard and from the list of orders
store_dashboard_order_accept(w) == _advance_order_status(w, "payment_confirmed", "accepted")
store_dashboard_order_mark_packed(w) == _advance_order_status(w, "accepted", "packed")

\* By the buyer, by staff or by the sweep: staff are told when a refund is owed.
cancel_order(w) ==
    /\ standing \in MayBeCancelled
    /\ SaveUnderLock(w, "cancelled", FALSE, IF standing \in PaidFor THEN {"staff"} ELSE {})
    /\ owing' = owing + IF standing \in PaidFor THEN 1 ELSE 0

release_expired_reservations(w) ==
    standing = "awaiting_payment" /\ SaveUnderLock(w, "expired", FALSE, {}) /\ UNCHANGED owing

-----------------------------------------------------------------------------
(* The saves without a lock                                                *)

Unlocked(w, to) ==
    /\ Moves(w)
    /\ officer' = [officer EXCEPT ![w] = [OffDuty EXCEPT !.step = "peek", !.to = to]]
    /\ UNCHANGED <<standing, record, told, staffTold, owing, mingled, officersLost>>

payment_retry(w) == standing = "payment_failed" /\ Unlocked(w, "awaiting_payment")

\* fulfillment's signal (a paid order has a shipment), which may look at an order that is loaded anew
_sync_shipped_order(w) ==
    /\ record.entries["payment_confirmed"] > 0
    /\ \E to \in {"shipped", "delivered"} \ {standing} : Unlocked(w, to)

_cache_previous_order_status(w) ==
    /\ officer[w].step = "peek"
    /\ officer' = [officer EXCEPT ![w].step = "write", ![w].peeked = standing]
    /\ UNCHANGED <<standing, record, told, staffTold, owing, mingled, moves, officersLost>>

WriteOrder(w) ==
    /\ officer[w].step = "write"
    /\ standing' = officer[w].to
    /\ mingled' = (mingled \/ BetweenSteps(w))
    /\ officer' = [officer EXCEPT ![w].step = "log"]
    /\ UNCHANGED <<record, told, staffTold, owing, moves, officersLost>>

LogOrder(w) ==
    /\ officer[w].step = "log"
    /\ record' = Entered(officer[w].peeked, officer[w].to)
    /\ officer' = [officer EXCEPT ![w].step = "mail",
                        ![w].letters = _send_status_change_email(officer[w].peeked, officer[w].to, FALSE)]
    /\ UNCHANGED <<standing, told, staffTold, owing, mingled, moves, officersLost>>

-----------------------------------------------------------------------------
(* Letters, faults                                                         *)

\* order_status_changed, or the status's own: payment_succeeded, payment_failed, refund_processed
TellBuyer(w) ==
    /\ \E letter \in officer[w].letters \ {"staff"} :
        officer' = [officer EXCEPT ![w].letters = @ \ {letter}]
    /\ told' = [told EXCEPT ![officer[w].to] = @ + 1]
    /\ UNCHANGED <<standing, record, staffTold, owing, mingled, moves, officersLost>>

_notify_staff_refund_needed(w) ==
    /\ "staff" \in officer[w].letters
    /\ officer' = [officer EXCEPT ![w].letters = @ \ {"staff"}]
    /\ staffTold' = staffTold + 1
    /\ UNCHANGED <<standing, record, told, owing, mingled, moves, officersLost>>

AllMailed(w) ==
    /\ officer[w].step = "mail" /\ officer[w].letters = {}
    /\ officer' = [officer EXCEPT ![w] = OffDuty]
    /\ UNCHANGED <<standing, record, told, staffTold, owing, mingled, moves, officersLost>>

OfficerDies(w) ==
    /\ officer[w].step # "idle"
    /\ officersLost < MaxOfficersLost
    /\ officersLost' = officersLost + 1
    /\ officer' = [officer EXCEPT ![w] = OffDuty]
    /\ UNCHANGED <<standing, record, told, staffTold, owing, mingled, moves>>

NoticesNext ==
    \E w \in Officers :
        \/ on_payment_captured(w) \/ on_payment_failed(w) \/ on_refund_processed(w)
        \/ store_dashboard_order_accept(w) \/ store_dashboard_order_mark_packed(w)
        \/ cancel_order(w) \/ release_expired_reservations(w)
        \/ payment_retry(w) \/ _sync_shipped_order(w)
        \/ _cache_previous_order_status(w) \/ WriteOrder(w) \/ LogOrder(w)
        \/ TellBuyer(w) \/ _notify_staff_refund_needed(w) \/ AllMailed(w)
        \/ OfficerDies(w)

NoticesSpec == NoticesInit /\ [][NoticesNext]_noticeVars

-----------------------------------------------------------------------------
(* Properties                                                              *)

\* The type invariant.
NoticesTypeOK ==
    /\ standing \in OrderStatus
    /\ record \in [last : OrderStatus, chain : BOOLEAN, entries : [OrderStatus -> Nat]]
    /\ told \in [OrderStatus -> Nat] /\ staffTold \in Nat /\ owing \in Nat
    /\ officer \in [Officers -> [step : {"idle", "peek", "write", "log", "mail"}, to : OrderStatus,
                                 peeked : OrderStatus, letters : SUBSET {"generic", "own", "staff"}]]
    /\ mingled \in BOOLEAN /\ moves \in 0..MaxMoves /\ officersLost \in 0..MaxOfficersLost

\* When nobody is at work and nobody died before his letters were out, the buyer has one letter for
\* every entry of the trail and never two, none for the stages of the packing queue, and for refunds
\* one each (a second partial refund changes no status); and staff have one for every paid order
\* that was cancelled: whatever saves overlapped.
BuyerToldOnce ==
    (officersLost = 0 /\ \A w \in Officers : officer[w].step = "idle") =>
        /\ \A s \in OrderStatus \ {"accepted", "packed", "refunded", "partially_refunded"} : told[s] = record.entries[s]
        /\ told["accepted"] = 0 /\ told["packed"] = 0
        /\ \A s \in {"refunded", "partially_refunded"} : told[s] >= record.entries[s]
        /\ staffTold = owing

\* "Append-only audit trail of every status transition" (cart/models.py:303): every entry starts
\* where the one before it ended, and the last one ends at the order's status, unless a write came
\* between the steps of an unlocked save or a process died there.
OrderTrailIsAChain ==
    (~mingled /\ officersLost = 0) =>
        /\ record.chain
        /\ (\A w \in Officers : officer[w].step # "log") => record.last = standing
=============================================================================
