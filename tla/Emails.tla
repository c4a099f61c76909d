-------------------------------- MODULE Emails --------------------------------
(***************************************************************************)
(* The way of a letter (common/emails.py, common/tasks.py): a request      *)
(* renders it and hands it to the queue `emails`, a Celery worker gives it *)
(* to the mail server and tries again later when that fails.  Workers      *)
(* acknowledge a message when they are done with it, so that the broker    *)
(* delivers it once more when a worker is gone.                            *)
(***************************************************************************)
EXTENDS Naturals

CONSTANTS
    Letters,        \* calls of send_templated_email
    Mailers,        \* the worker processes of the queue
    STAFF_NOTIFICATION_EMAIL,   \* {"staff"}, or {} when the setting is blank
    max_retries,    \* of send_email_task
    MaxMailersLost  \* bound: workers that are lost at work

ASSUME EmailsAssumption ==
    STAFF_NOTIFICATION_EMAIL \subseteq {"staff"} /\ {max_retries, MaxMailersLost} \subseteq Nat

VARIABLES
    letter,     \* of each letter: where it is, whom it goes to, the retries so far
    mailer,     \* what each worker is doing
    copies,     \* history: how often the mail server took the letter
    again,      \* history: letters that were delivered to a worker once more
    mailersLost

emailVars == <<letter, mailer, copies, again, mailersLost>>

-----------------------------------------------------------------------------
(* Who gets which template: to, then cc                                    *)

Buyer == [to |-> {"buyer"}, cc |-> {}]
Staff == [to |-> STAFF_NOTIFICATION_EMAIL, cc |-> {}]

CartLetters == {<<"order_status_changed", Buyer>>, <<"new_order_notification", Staff>>}
_notify_refund_needed == {<<"order_cancelled_refund_needed", Staff>>}
PaymentLetters ==
    {<<"payment_succeeded", Buyer>>, <<"payment_failed", Buyer>>, <<"refund_processed", Buyer>>,
     <<"refund_failed", [to |-> {"buyer"}, cc |-> STAFF_NOTIFICATION_EMAIL]>>}
ReturnLetters ==
    {<<"return_requested", Buyer>>, <<"return_requested_staff", Staff>>, <<"return_approved", Buyer>>,
     <<"return_rejected", Buyer>>}
send_shipment_ndr_email == {<<"shipment_ndr", Buyer>>}
contact == {<<"contact_message", Staff>>}
register == {<<"welcome", Buyer>>}

Templates ==
    CartLetters \union _notify_refund_needed \union PaymentLetters \union ReturnLetters
    \union send_shipment_ndr_email \union contact \union register

-----------------------------------------------------------------------------

Unwritten == [at |-> "nowhere", to |-> {}, retries |-> 0]
Unoccupied == [step |-> "idle", has |-> {}]

EmailsInit ==
    /\ letter = [l \in Letters |-> Unwritten]
    /\ mailer = [w \in Mailers |-> Unoccupied]
    /\ copies = [l \in Letters |-> 0]
    /\ again = {}
    /\ mailersLost = 0

\* A letter to nobody is dropped (the call returns False).  A template that cannot be rendered and a
\* broker that does not answer raise in the request: the letter was never written.
send_templated_email(l) ==
    /\ letter[l].at = "nowhere"
    /\ \E template \in Templates :
        LET who == template[2]
        IN  letter' = [letter EXCEPT ![l] = IF who.to = {} THEN [@ EXCEPT !.at = "dropped"]
                                            ELSE [@ EXCEPT !.at = "queued", !.to = who.to \union who.cc]]
    /\ UNCHANGED <<mailer, copies, again, mailersLost>>

Handling(w, step, l) == mailer[w].step = step /\ l \in mailer[w].has

\* the emails queue delivers a message
Deliver(w) ==
    /\ mailer[w].step = "idle"
    /\ \E l \in Letters :
        /\ letter[l].at = "queued"
        /\ letter' = [letter EXCEPT ![l].at = "delivered"]
        /\ mailer' = [mailer EXCEPT ![w] = [step |-> "send", has |-> {l}]]
    /\ UNCHANGED <<copies, again, mailersLost>>

\* message.send: the mail server takes the letter ...
send_email_task(w) ==
    \E l \in Letters :
        /\ Handling(w, "send", l)
        /\ copies' = [copies EXCEPT ![l] = @ + 1]
        /\ mailer' = [mailer EXCEPT ![w].step = "ack"]
        /\ UNCHANGED <<letter, again, mailersLost>>

\* Mutant of Retried: the message is put back as it came.
RetriedForever(this) == [this EXCEPT !.at = "queued"]

\* self.retry: the message once more with one retry more, or MaxRetriesExceededError
Retried(this) ==
    IF this.retries < max_retries THEN [this EXCEPT !.at = "queued", !.retries = @ + 1]
    ELSE [this EXCEPT !.at = "failed"]

\* ... or the sending raises.
retry(w) ==
    \E l \in Letters :
        /\ Handling(w, "send", l)
        /\ letter' = [letter EXCEPT ![l] = Retried(@)]
        /\ mailer' = [mailer EXCEPT ![w] = Unoccupied]
        /\ UNCHANGED <<copies, again, mailersLost>>

Acknowledge(w) ==
    \E l \in Letters :
        /\ Handling(w, "ack", l)
        /\ letter' = [letter EXCEPT ![l].at = "sent"]
        /\ mailer' = [mailer EXCEPT ![w] = Unoccupied]
        /\ UNCHANGED <<copies, again, mailersLost>>

\* A worker is lost with a message it has not acknowledged: the broker delivers it again.  When only
\* the worker's child process died, its parent acknowledges for it and the letter is lost.
MailerLost(w) ==
    /\ mailersLost < MaxMailersLost
    /\ mailersLost' = mailersLost + 1
    /\ \E l \in mailer[w].has, place \in {"queued", "lost"} :
        /\ letter' = [letter EXCEPT ![l].at = place]
        /\ again' = again \union {l}
    /\ mailer' = [mailer EXCEPT ![w] = Unoccupied]
    /\ UNCHANGED copies

EmailsNext ==
    \/ \E l \in Letters : send_templated_email(l)
    \/ \E w \in Mailers :
        Deliver(w) \/ send_email_task(w) \/ retry(w) \/ Acknowledge(w) \/ MailerLost(w)

\* As long as there is something to do the workers do not all stop; the mail server may fail every
\* time.
EmailsFairness ==
    WF_emailVars(\E w \in Mailers : Deliver(w) \/ send_email_task(w) \/ retry(w) \/ Acknowledge(w))

EmailsSpec == EmailsInit /\ [][EmailsNext]_emailVars /\ EmailsFairness

-----------------------------------------------------------------------------
(* Properties                                                              *)

\* The type invariant.
EmailsTypeOK ==
    /\ letter \in [Letters -> [at : {"nowhere", "dropped", "queued", "delivered", "sent", "failed", "lost"},
                               to : SUBSET {"buyer", "staff"}, retries : 0..max_retries]]
    /\ mailer \in [Mailers -> [step : {"idle", "send", "ack"}, has : SUBSET Letters]]
    /\ copies \in [Letters -> Nat] /\ again \subseteq Letters /\ mailersLost \in 0..MaxMailersLost

\* The mail server gets a letter once, and a letter that was given up was never taken, unless a worker
\* was lost with it.
MailedOnce ==
    \A l \in Letters \ again :
        /\ copies[l] <= 1
        /\ letter[l].at = "sent" => copies[l] = 1
        /\ letter[l].at = "failed" => copies[l] = 0 /\ letter[l].retries = max_retries

\* Letters do not wait for ever: again and again there is none that waits (each is written once, so
\* each is sent, or given up after its last retry, or lost), however the mail server fails and workers
\* are lost.
LettersEnd == []<>(\A l \in Letters : letter[l].at \notin {"queued", "delivered"})
=============================================================================
