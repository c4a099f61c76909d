----------------------------- MODULE AddressBook -----------------------------
(***************************************************************************)
(* The saved addresses of one buyer (accounts/services.py, views.py).      *)
(* Every service is one transaction that first demotes the addresses that  *)
(* are default and then writes its own, on a copy that the view loaded     *)
(* before.  A statement locks the rows it changes until the commit and     *)
(* waits for rows that somebody else has locked; it sees what is committed.*)
(***************************************************************************)
EXTENDS Naturals, FiniteSets

CONSTANTS
    Tabs,           \* the processes that serve the buyer
    MaxAddresses,   \* bound: addresses ever added
    MaxForms        \* bound: requests

ASSUME AddressBookAssumption == MaxAddresses \in Nat /\ MaxForms \in Nat

VARIABLES
    addresses,  \* the Address rows, numbered in the order they were created
    default,    \* those with is_default
    created,    \* how many were ever added
    tab,        \* what each process is doing
    forms,      \* how many requests there were
    met,        \* history: a request was started while another one was running
    unticked    \* history: the default address was saved without its tick

addressVars == <<addresses, default, created, tab, forms, met, unticked>>

Book == 1..MaxAddresses

\* the address, the tick of the form or of the copy, the rows that are locked, the one to promote
Closed == [step |-> "idle", op |-> "none", pk |-> 0, tick |-> FALSE, locked |-> {}, next |-> {}]

In(t, step) == tab[t].step = step
Close(t) == tab' = [tab EXCEPT ![t] = Closed]
LockedByOthers(t) == UNION {tab[u].locked : u \in Tabs \ {t}}

AddressBookInit ==
    /\ addresses = {}
    /\ default = {}
    /\ created = 0
    /\ tab = [t \in Tabs |-> Closed]
    /\ forms = 0
    /\ met = FALSE
    /\ unticked = FALSE

\* A view has loaded what it needs.
View(t, work) ==
    /\ In(t, "idle")
    /\ forms < MaxForms
    /\ forms' = forms + 1
    /\ tab' = [tab EXCEPT ![t] = work]
    /\ met' = (met \/ \E u \in Tabs : ~In(u, "idle"))

\* address_add, and a checkout that saves its address (which ticks nothing)
address_add(t) ==
    /\ created < MaxAddresses
    /\ created' = created + 1
    /\ \E tick \in BOOLEAN : View(t, [Closed EXCEPT !.step = "look", !.op = "add", !.pk = created', !.tick = tick])
    /\ UNCHANGED <<addresses, default, unticked>>

address_edit(t) ==
    /\ \E pk \in addresses, tick \in BOOLEAN :
        /\ View(t, [Closed EXCEPT !.step = IF tick THEN "demote" ELSE "write",
                           !.op = "edit", !.pk = pk, !.tick = tick])
        /\ unticked' = (unticked \/ (pk \in default /\ ~tick))
    /\ UNCHANGED <<addresses, default, created>>

\* (a copy that is default already is not written again)
address_set_default(t) ==
    /\ \E pk \in addresses :
        View(t, [Closed EXCEPT !.step = "demote", !.op = IF pk \in default THEN "keep" ELSE "set",
                               !.pk = pk, !.tick = TRUE])
    /\ UNCHANGED <<addresses, default, created, unticked>>

address_delete(t) ==
    /\ \E pk \in addresses : View(t, [Closed EXCEPT !.step = "delete", !.op = "delete", !.pk = pk,
                                                     !.tick = pk \in default])
    /\ UNCHANGED <<addresses, default, created, unticked>>

-----------------------------------------------------------------------------
(* The transactions                                                        *)

\* Mutant of create_address: the tick of the form decides.
CreateAsTicked(t) ==
    /\ In(t, "look")
    /\ tab' = [tab EXCEPT ![t].step = IF tab[t].tick THEN "demote" ELSE "write"]
    /\ UNCHANGED <<addresses, default, created, forms, met, unticked>>

\* the first address is always the default
create_address(t) ==
    LET tick == tab[t].tick \/ addresses = {}
    IN  /\ In(t, "look")
        /\ tab' = [tab EXCEPT ![t].step = IF tick THEN "demote" ELSE "write", ![t].tick = tick]
        /\ UNCHANGED <<addresses, default, created, forms, met, unticked>>

\* the UPDATE of every other default address
Demote(t) ==
    LET others == default \ {tab[t].pk}
    IN  /\ In(t, "demote")
        /\ others \intersect LockedByOthers(t) = {}
        /\ tab' = [tab EXCEPT ![t].step = IF tab[t].op = "keep" THEN "commit" ELSE "write", ![t].locked = others]
        /\ UNCHANGED <<addresses, default, created, forms, met, unticked>>

CommitDemotion(t) ==
    /\ In(t, "commit")
    /\ default' = default \ tab[t].locked
    /\ Close(t)
    /\ UNCHANGED <<addresses, created, forms, met, unticked>>

\* the address itself, and the commit; a row that is gone is inserted again, except by
\* address_set_default, whose save fails
WriteAddress(t) ==
    LET pk == tab[t].pk
    IN  /\ In(t, "write")
        /\ pk \notin LockedByOthers(t)
        /\ tab[t].op = "set" => pk \in addresses
        /\ addresses' = addresses \union {pk}
        /\ default' = (default \ (tab[t].locked \union {pk})) \union (IF tab[t].tick THEN {pk} ELSE {})
        /\ Close(t)
        /\ UNCHANGED <<created, forms, met, unticked>>

Newest(S) == {a \in S : \A b \in S : b <= a}

\* Mutant of delete_address: the address to promote is looked for before the DELETE.
DeleteAfterTheLook(t) ==
    /\ In(t, "delete")
    /\ tab[t].pk \notin LockedByOthers(t)
    /\ tab' = [tab EXCEPT ![t].step = "promote", ![t].locked = {tab[t].pk},
                          ![t].next = IF tab[t].tick THEN Newest(addresses) ELSE {}]
    /\ UNCHANGED <<addresses, default, created, forms, met, unticked>>

\* the DELETE, and the look for the address to promote
delete_address(t) ==
    /\ In(t, "delete")
    /\ tab[t].pk \notin LockedByOthers(t)
    /\ tab' = [tab EXCEPT ![t].step = "promote", ![t].locked = {tab[t].pk},
                          ![t].next = IF tab[t].tick THEN Newest(addresses \ {tab[t].pk}) ELSE {}]
    /\ UNCHANGED <<addresses, default, created, forms, met, unticked>>

\* the promotion and the commit
Promote(t) ==
    /\ In(t, "promote")
    /\ tab[t].next \subseteq addresses \ LockedByOthers(t)
    /\ addresses' = addresses \ {tab[t].pk}
    /\ default' = (default \ {tab[t].pk}) \union tab[t].next
    /\ Close(t)
    /\ UNCHANGED <<created, forms, met, unticked>>

\* The transaction is rolled back: a deadlock of two, an address that is gone, the worker dies.
RolledBack(t) ==
    /\ ~In(t, "idle")
    /\ Close(t)
    /\ UNCHANGED <<addresses, default, created, forms, met, unticked>>

AddressBookNext ==
    \E t \in Tabs :
        \/ address_add(t) \/ address_edit(t) \/ address_set_default(t) \/ address_delete(t)
        \/ create_address(t) \/ Demote(t) \/ CommitDemotion(t) \/ WriteAddress(t)
        \/ delete_address(t) \/ Promote(t)
        \/ RolledBack(t)

AddressBookSpec == AddressBookInit /\ [][AddressBookNext]_addressVars

-----------------------------------------------------------------------------
(* Properties                                                              *)

\* The type invariant.
AddressBookTypeOK ==
    /\ addresses \subseteq Book /\ default \subseteq addresses
    /\ created \in 0..MaxAddresses
    /\ tab \in [Tabs -> [step : {"idle", "look", "demote", "write", "commit", "delete", "promote"},
                         op : {"none", "add", "edit", "set", "keep", "delete"}, pk : 0..MaxAddresses, tick : BOOLEAN, locked : SUBSET Book, next : SUBSET Book]]
    /\ forms \in 0..MaxForms /\ met \in BOOLEAN /\ unticked \in BOOLEAN

\* "at most one is ever is_default at a time" (accounts/models.py:57-62) and "the user is never left
\* without one while they still have addresses saved" (accounts/services.py:57-59): both hold as long
\* as no two requests of the buyer overlap; the second only until the buyer saves the default
\* address without its tick.
OneDefaultAddress ==
    ~met =>
        /\ Cardinality(default) <= 1
        /\ addresses # {} /\ ~unticked => default # {}
=============================================================================
