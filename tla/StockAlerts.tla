----------------------------- MODULE StockAlerts -----------------------------
(***************************************************************************)
(* "Notify me when back in stock" for one product (catalog/views.py,       *)
(* signals.py and emails.py).  Whoever saves the product and finds that    *)
(* its stock was zero before mails the pending alerts after the commit, in *)
(* three steps: fetch them, queue a mail for each, mark whatever is        *)
(* pending by then.                                                        *)
(***************************************************************************)
EXTENDS Naturals, FiniteSets

CONSTANTS
    Visitors,       \* the email addresses
    Stockers,       \* the processes that save the product
    MaxSaves,       \* bound: saves of the product
    MaxStockersLost \* bound: processes that may die while they mail

ASSUME StockAlertsAssumption == MaxSaves \in Nat /\ MaxStockersLost \in Nat

VARIABLES
    inStock,    \* Product.stock_count > 0
    alert,      \* the StockAlert of each visitor
    mails,      \* history: the back-in-stock mails each visitor got
    stocker,    \* what each process is doing
    saves,      \* how many saves there were
    hurried,    \* history: somebody signed up, or another process mailed, during a mailing
    stockersLost

alertVars == <<inStock, alert, mails, stocker, saves, hurried, stockersLost>>

Calm == [step |-> "idle", new |-> FALSE, previous |-> FALSE, mailing |-> {}]

Doing(w, step) == stocker[w].step = step
Mailing(w) == stocker[w].step \in {"fetch", "mail"}
Pending == {v \in Visitors : alert[v] = "pending"}

StockAlertsInit ==
    /\ inStock = FALSE
    /\ alert = [v \in Visitors |-> "none"]
    /\ mails = [v \in Visitors |-> 0]
    /\ stocker = [w \in Stockers |-> Calm]
    /\ saves = 0
    /\ hurried = FALSE
    /\ stockersLost = 0

\* get_or_create: an alert that was answered once is not armed again, whatever the page says
request_stock_alert(v) ==
    /\ alert[v] = "none"
    /\ alert' = [alert EXCEPT ![v] = "pending"]
    /\ hurried' = (hurried \/ \E w \in Stockers : Doing(w, "mail"))
    /\ UNCHANGED <<inStock, mails, stocker, saves, stockersLost>>

\* the last unit is sold
SellOut ==
    /\ inStock
    /\ inStock' = FALSE
    /\ UNCHANGED <<alert, mails, stocker, saves, hurried, stockersLost>>

-----------------------------------------------------------------------------
(* Saves                                                                   *)

Saves(w) == Doing(w, "idle") /\ saves < MaxSaves /\ saves' = saves + 1

_restocked(previous, new) == ~previous /\ new

\* What follows a save: nothing, or the mailing once it is committed.
AfterSave(w, previous, new) ==
    /\ inStock' = new
    /\ stocker' = [stocker EXCEPT ![w] = IF _restocked(previous, new) THEN [Calm EXCEPT !.step = "fetch"] ELSE Calm]
    /\ hurried' = (hurried \/ (_restocked(previous, new) /\ \E u \in Stockers \ {w} : Mailing(u)))

\* record_restock, restock_from_return, record_adjustment: pre_save to commit under the row's lock
LockedSave(w) ==
    /\ Saves(w)
    /\ AfterSave(w, inStock, TRUE)
    /\ UNCHANGED <<alert, mails, stockersLost>>

\* the product's admin form, whose pre_save looks at the row without a lock
_cache_previous_product_stock(w) ==
    /\ Saves(w)
    /\ \E new \in BOOLEAN :
        stocker' = [stocker EXCEPT ![w] = [Calm EXCEPT !.step = "write", !.new = new, !.previous = inStock]]
    /\ UNCHANGED <<inStock, alert, mails, hurried, stockersLost>>

_notify_product_restocked(w) ==
    /\ Doing(w, "write")
    /\ AfterSave(w, stocker[w].previous, stocker[w].new)
    /\ UNCHANGED <<alert, mails, saves, stockersLost>>

-----------------------------------------------------------------------------
(* notify_back_in_stock                                                    *)

FetchAlerts(w) ==
    /\ Doing(w, "fetch")
    /\ stocker' = [stocker EXCEPT ![w] = [Calm EXCEPT !.step = "mail", !.mailing = Pending]]
    /\ UNCHANGED <<inStock, alert, mails, saves, hurried, stockersLost>>

MailOne(w) ==
    \E v \in stocker[w].mailing :
        /\ mails' = [mails EXCEPT ![v] = @ + 1]
        /\ stocker' = [stocker EXCEPT ![w].mailing = @ \ {v}]
        /\ UNCHANGED <<inStock, alert, saves, hurried, stockersLost>>

\* Mutant of MarkNotified: the alerts stay pending.
MarkNothing(w) ==
    /\ Doing(w, "mail") /\ stocker[w].mailing = {}
    /\ stocker' = [stocker EXCEPT ![w] = Calm]
    /\ UNCHANGED <<inStock, alert, mails, saves, hurried, stockersLost>>

\* the UPDATE, which runs the query of the pending alerts again
MarkNotified(w) ==
    /\ Doing(w, "mail") /\ stocker[w].mailing = {}
    /\ alert' = [v \in Visitors |-> IF v \in Pending THEN "notified" ELSE alert[v]]
    /\ stocker' = [stocker EXCEPT ![w] = Calm]
    /\ UNCHANGED <<inStock, mails, saves, hurried, stockersLost>>

\* a worker dies, or the queue refuses a mail
StockerDies(w) ==
    /\ ~Doing(w, "idle")
    /\ stockersLost < MaxStockersLost
    /\ stockersLost' = stockersLost + 1
    /\ stocker' = [stocker EXCEPT ![w] = Calm]
    /\ UNCHANGED <<inStock, alert, mails, saves, hurried>>

StockAlertsNext ==
    \/ \E v \in Visitors : request_stock_alert(v)
    \/ SellOut
    \/ \E w \in Stockers :
        \/ LockedSave(w) \/ _cache_previous_product_stock(w) \/ _notify_product_restocked(w)
        \/ FetchAlerts(w) \/ MailOne(w) \/ MarkNotified(w) \/ StockerDies(w)

StockAlertsSpec == StockAlertsInit /\ [][StockAlertsNext]_alertVars

-----------------------------------------------------------------------------
(* Properties                                                              *)

\* The type invariant.
StockAlertsTypeOK ==
    /\ inStock \in BOOLEAN /\ hurried \in BOOLEAN
    /\ alert \in [Visitors -> {"none", "pending", "notified"}]
    /\ mails \in [Visitors -> Nat]
    /\ stocker \in [Stockers -> [step : {"idle", "write", "fetch", "mail"}, new : BOOLEAN, previous : BOOLEAN,
                                 mailing : SUBSET Visitors]]
    /\ saves \in 0..MaxSaves /\ stockersLost \in 0..MaxStockersLost

\* "Emails everyone with a pending alert ..., then marks them notified" (catalog/emails.py:11): when
\* nobody signed up and no other save mailed in the middle of a mailing, who is marked was mailed,
\* and unless a mailing broke off, exactly once, and nobody else was.
AlertsAnsweredOnce ==
    ~hurried =>
        /\ \A v \in Visitors : alert[v] = "notified" => mails[v] > 0
        /\ (stockersLost = 0 /\ \A w \in Stockers : ~Mailing(w)) =>
                \A v \in Visitors : mails[v] = IF alert[v] = "notified" THEN 1 ELSE 0
=============================================================================
