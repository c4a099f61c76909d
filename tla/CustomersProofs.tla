--------------------------- MODULE CustomersProofs ---------------------------
(***************************************************************************)
(* Proofs about what customers do up to the order: their address book      *)
(* (AddressBook), their reviews and wishes (Storefront), the alerts they   *)
(* sign up for (StockAlerts), the listings they read (Pricing), their      *)
(* carts and checkouts (Checkouts), and about what the reports make of     *)
(* their orders (Reports).  For any number of customers, tabs, addresses,  *)
(* visitors, saves, goods, baskets, orders, limits and rates of tax.       *)
(***************************************************************************)
EXTENDS AddressBook, Storefront, StockAlerts, Checkouts, Reports, FiniteSums, SequenceTheorems

-----------------------------------------------------------------------------
(* The address book                                                       *)

AddressTab == [step : {"idle", "look", "demote", "write", "commit", "delete", "promote"},
               op : {"none", "add", "edit", "set", "keep", "delete"}, pk : 0..MaxAddresses, tick : BOOLEAN,
               locked : SUBSET Book, next : SUBSET Book]

\* Addresses and copies are of numbers that were given out, and no address is promoted that is deleted.
KnownAddresses ==
    /\ addresses \subseteq 1..created
    /\ \A t \in Tabs : ~In(t, "idle") => tab[t].pk \in 1..created
    /\ \A t \in Tabs : In(t, "promote") => tab[t].pk \notin tab[t].next

\* What a request relies on at each of its steps, when nobody else is at work.
ReliesOn(t) ==
    LET copy == tab[t]
    IN  /\ copy.step = "look" => copy.op = "add" /\ copy.pk \notin addresses /\ copy.locked = {}
        /\ copy.step = "demote" => copy.tick /\ (copy.op = "keep" => copy.pk \in default)
        /\ copy.step = "write" /\ copy.tick => copy.locked = default \ {copy.pk}
        /\ copy.step = "write" /\ ~copy.tick =>
                copy.locked = {} /\ addresses # {} /\ (copy.pk \in default => unticked)
        /\ copy.step = "commit" => copy.pk \in default /\ copy.locked = default \ {copy.pk}
        /\ copy.step = "delete" => (copy.tick <=> copy.pk \in default)
        /\ copy.step = "promote" => copy.next = IF copy.pk \in default THEN Newest(addresses \ {copy.pk}) ELSE {}

OneRequestAtATime ==
    /\ \A t, u \in Tabs : ~In(t, "idle") /\ ~In(u, "idle") => t = u
    /\ \A a, b \in default : a = b
    /\ addresses # {} /\ ~unticked => default # {}
    /\ \A t \in Tabs : ReliesOn(t)

AddressesInv == AddressBookTypeOK /\ KnownAddresses /\ (~met => OneRequestAtATime)

LEMMA ClosedIsTab == Closed \in AddressTab /\ Closed.step = "idle"
BY AddressBookAssumption DEF Closed, AddressTab

\* Any set of addresses that is not empty has one newest address.
LEMMA NewestExists ==
    ASSUME NEW S \in SUBSET Book, S # {}
    PROVE  \E a \in S : Newest(S) = {a}
<1> DEFINE older == {MaxAddresses - a : a \in S}
<1>1. older \subseteq Nat /\ older # {}
  <2>1. \A a \in S : MaxAddresses - a \in Nat
    BY AddressBookAssumption DEF Book
  <2> QED BY <2>1
<1>2. PICK x \in older : \A y \in older : ~(<<y, x>> \in OpToRel(<, Nat))
  BY <1>1, NatLessThanWellFounded, WFMin
<1>3. \A y \in older : ~(y < x)
  BY <1>1, <1>2 DEF OpToRel
<1>4. PICK a \in S : x = MaxAddresses - a
  BY <1>2
<1>5. \A b \in S : b <= a
  <2> TAKE b \in S
  <2>1. ~(MaxAddresses - b < MaxAddresses - a)
    BY <1>3, <1>4
  <2>2. a \in Nat /\ b \in Nat /\ MaxAddresses \in Nat
    BY AddressBookAssumption DEF Book
  <2> QED BY <2>1, <2>2
<1>6. \A b \in Newest(S) : b = a
  <2> TAKE b \in Newest(S)
  <2>1. a <= b /\ b <= a /\ a \in Nat /\ b \in Nat
    BY <1>5 DEF Newest, Book
  <2> QED BY <2>1
<1>7. a \in Newest(S)
  BY <1>5 DEF Newest
<1> QED BY <1>6, <1>7

LEMMA AddressesInitInv == AddressBookInit => AddressesInv
<1> SUFFICES ASSUME AddressBookInit PROVE AddressesInv
  OBVIOUS
<1>1. \A t \in Tabs : tab[t] = Closed /\ In(t, "idle")
  BY ClosedIsTab DEF AddressBookInit, In
<1>2. AddressBookTypeOK
  <2>1. tab \in [Tabs -> AddressTab]
    BY ClosedIsTab DEF AddressBookInit
  <2>2. addresses = {} /\ default = {} /\ created \in 0..MaxAddresses /\ forms \in 0..MaxForms
    BY AddressBookAssumption DEF AddressBookInit
  <2>3. met \in BOOLEAN /\ unticked \in BOOLEAN
    BY DEF AddressBookInit
  <2> QED BY <2>1, <2>2, <2>3 DEF AddressBookTypeOK, AddressTab
<1>3. KnownAddresses
  BY <1>1 DEF AddressBookInit, KnownAddresses, In
<1>4. OneRequestAtATime
  BY <1>1, ClosedIsTab DEF AddressBookInit, OneRequestAtATime, ReliesOn
<1> QED BY <1>2, <1>3, <1>4 DEF AddressesInv

\* A step of a tab that leaves the addresses alone: what the tab may become, and what else may change.
LEMMA TabStepInv ==
    ASSUME AddressesInv, NEW t \in Tabs, NEW copy \in AddressTab,
           tab' = [tab EXCEPT ![t] = copy],
           UNCHANGED <<addresses, default>>, created' \in created..MaxAddresses, forms' \in 0..MaxForms,
           met' \in BOOLEAN, unticked' \in BOOLEAN, unticked => unticked', met => met',
           copy.step # "idle" => copy.pk \in 1..created',
           copy.step = "promote" => copy.pk \notin copy.next,
           ~met' => (\A u \in Tabs \ {t} : In(u, "idle")) /\ ReliesOn(t)'
    PROVE  AddressesInv'
<1>1. /\ tab' \in [Tabs -> AddressTab] /\ tab'[t] = copy /\ \A u \in Tabs \ {t} : tab'[u] = tab[u]
      /\ \A u \in Tabs \ {t} : \A step : In(u, step)' <=> In(u, step)
  BY DEF AddressesInv, AddressBookTypeOK, AddressTab, In
<1>2. /\ addresses \subseteq 1..created /\ created \in 0..MaxAddresses /\ created' \in 0..MaxAddresses
      /\ 1..created \subseteq 1..created'
  BY AddressBookAssumption DEF AddressesInv, AddressBookTypeOK, KnownAddresses
<1>3. AddressBookTypeOK'
  BY <1>1, <1>2 DEF AddressesInv, AddressBookTypeOK, AddressTab
<1>4. KnownAddresses'
  <2>1. \A u \in Tabs : ~In(u, "idle")' => tab'[u].pk \in 1..created'
    BY <1>1, <1>2 DEF AddressesInv, KnownAddresses, In
  <2>2. \A u \in Tabs : In(u, "promote")' => tab'[u].pk \notin tab'[u].next
    BY <1>1 DEF AddressesInv, KnownAddresses, In
  <2> QED BY <1>2, <2>1, <2>2 DEF KnownAddresses
<1>5. ASSUME ~met' PROVE OneRequestAtATime'
  <2>1. OneRequestAtATime /\ \A u \in Tabs \ {t} : In(u, "idle") /\ In(u, "idle")'
    BY <1>1, <1>5 DEF AddressesInv
  <2>2. \A u \in Tabs \ {t} : ReliesOn(u)'
    BY <2>1 DEF ReliesOn, In
  <2> QED BY <1>5, <2>1, <2>2 DEF OneRequestAtATime
<1> QED BY <1>3, <1>4, <1>5 DEF AddressesInv

\* A tab that ends its request, whatever it leaves of the book.
LEMMA RequestEndsInv ==
    ASSUME AddressesInv, NEW t \in Tabs, Close(t), UNCHANGED <<created, forms, met, unticked>>,
           addresses' \subseteq 1..created, default' \subseteq addresses',
           ~met => /\ \A u \in Tabs \ {t} : In(u, "idle")
                   /\ \A a, b \in default' : a = b
                   /\ addresses' # {} /\ ~unticked => default' # {}
    PROVE  AddressesInv'
<1>1. /\ tab' \in [Tabs -> AddressTab] /\ tab'[t] = Closed /\ \A u \in Tabs \ {t} : tab'[u] = tab[u]
      /\ \A u \in Tabs \ {t} : \A step : In(u, step)' <=> In(u, step)
      /\ In(t, "idle")' /\ ~In(t, "promote")'
  BY ClosedIsTab DEF Close, AddressesInv, AddressBookTypeOK, AddressTab, In
<1>2. created \in 0..MaxAddresses /\ addresses' \subseteq Book
  BY AddressBookAssumption DEF AddressesInv, AddressBookTypeOK, Book
<1>3. AddressBookTypeOK'
  BY <1>1, <1>2 DEF AddressesInv, AddressBookTypeOK, AddressTab
<1>4. KnownAddresses'
  BY <1>1 DEF AddressesInv, KnownAddresses, In
<1>5. ASSUME ~met' PROVE OneRequestAtATime'
  <2>1. \A u \in Tabs : In(u, "idle")'
    BY <1>1, <1>5
  <2>2. \A u \in Tabs : ReliesOn(u)'
    BY <2>1 DEF ReliesOn, In
  <2> QED BY <1>5, <2>1, <2>2 DEF OneRequestAtATime
<1> QED BY <1>3, <1>4, <1>5 DEF AddressesInv

\* Who is at work while no request met another is alone, and relies on what it should.
LEMMA AloneAtWork ==
    ASSUME AddressesInv, NEW t \in Tabs, ~In(t, "idle"), ~met
    PROVE  /\ \A u \in Tabs \ {t} : In(u, "idle")
           /\ OneRequestAtATime /\ ReliesOn(t)
BY DEF AddressesInv, OneRequestAtATime

LEMMA TabIsTab ==
    ASSUME AddressesInv, NEW t \in Tabs
    PROVE  tab[t] \in AddressTab
BY DEF AddressesInv, AddressBookTypeOK, AddressTab

-----------------------------------------------------------------------------
(* What a request loads                                                    *)

LEMMA ViewFacts ==
    ASSUME AddressesInv, NEW t \in Tabs, NEW copy, View(t, copy)
    PROVE  /\ In(t, "idle") /\ forms' \in 0..MaxForms /\ met' \in BOOLEAN /\ (met => met')
           /\ tab' = [tab EXCEPT ![t] = copy]
           /\ ~met' => ~met /\ \A u \in Tabs \ {t} : In(u, "idle")
<1>1. forms' \in 0..MaxForms
  BY AddressBookAssumption DEF View, AddressesInv, AddressBookTypeOK
<1>2. met' = (met \/ \E u \in Tabs : ~In(u, "idle")) /\ met \in BOOLEAN
  BY DEF View, AddressesInv, AddressBookTypeOK
<1>3. In(t, "idle") /\ tab' = [tab EXCEPT ![t] = copy]
  BY DEF View
<1> QED BY <1>1, <1>2, <1>3, Zenon

Opened(step, op, pk, tick) == [Closed EXCEPT !.step = step, !.op = op, !.pk = pk, !.tick = tick]

LEMMA OpenedIsTab ==
    ASSUME NEW step \in {"look", "demote", "write", "delete"}, NEW op \in {"add", "edit", "set", "keep", "delete"},
           NEW pk \in 0..MaxAddresses, NEW tick \in BOOLEAN
    PROVE  LET copy == Opened(step, op, pk, tick)
           IN  /\ copy \in AddressTab /\ copy.step = step /\ copy.op = op /\ copy.pk = pk /\ copy.tick = tick
               /\ copy.locked = {} /\ copy.next = {}
BY AddressBookAssumption DEF Opened, Closed, AddressTab

LEMMA RequestsInv ==
    ASSUME AddressesInv, NEW t \in Tabs,
           address_add(t) \/ address_edit(t) \/ address_set_default(t) \/ address_delete(t)
    PROVE  AddressesInv'
<1>1. CASE address_add(t)
  <2>1. PICK tick \in BOOLEAN : View(t, Opened("look", "add", created', tick))
    BY <1>1, Zenon DEF address_add, Opened
  <2>2. /\ created \in 0..MaxAddresses /\ created < MaxAddresses /\ created' = created + 1
        /\ addresses \subseteq 1..created /\ UNCHANGED <<addresses, default, unticked>>
        /\ tab \in [Tabs -> AddressTab]
    BY <1>1 DEF address_add, AddressesInv, AddressBookTypeOK, KnownAddresses, AddressTab
  <2>3. /\ created' \in created..MaxAddresses /\ created' \in 1..created' /\ created' \notin addresses
        /\ created' \in 0..MaxAddresses
    BY <2>2, AddressBookAssumption
  <2>4. PICK pk \in 0..MaxAddresses : pk = created'
    BY <2>3
  <2>5. PICK copy \in AddressTab : /\ copy = Opened("look", "add", pk, tick) /\ copy.step = "look" /\ copy.pk = pk
                                    /\ copy.op = "add" /\ copy.locked = {}
    BY OpenedIsTab
  <2>6. tab' = [tab EXCEPT ![t] = copy] /\ View(t, copy)
    BY <2>1, <2>4, <2>5, Zenon DEF View
  <2>7. ReliesOn(t)'
    BY <2>2, <2>3, <2>4, <2>5, <2>6 DEF ReliesOn
  <2>8. unticked' \in BOOLEAN /\ (unticked => unticked')
    BY <2>2 DEF AddressesInv, AddressBookTypeOK
  <2>9. /\ forms' \in 0..MaxForms /\ met' \in BOOLEAN /\ (met => met')
        /\ ~met' => \A u \in Tabs \ {t} : In(u, "idle")
    BY <2>6, ViewFacts
  <2>10. copy.pk \in 1..created' /\ copy.step # "promote"
    BY <2>3, <2>4, <2>5
  <2> QED BY <2>2, <2>3, <2>5, <2>6, <2>7, <2>8, <2>9, <2>10, TabStepInv
<1>2. ASSUME UNCHANGED <<addresses, default, created>>, unticked' \in BOOLEAN, unticked => unticked',
             NEW pk \in addresses, NEW tick \in BOOLEAN, NEW step \in {"demote", "write", "delete"},
             NEW op \in {"edit", "set", "keep", "delete"},
             View(t, Opened(step, op, pk, tick)),
             step = "demote" => tick /\ (op = "keep" => pk \in default),
             step = "write" => ~tick /\ (pk \in default => unticked'),
             step = "delete" => (tick <=> pk \in default)
      PROVE  AddressesInv'
  <2>1. /\ addresses \subseteq 1..created /\ default \subseteq addresses /\ created \in 0..MaxAddresses
        /\ tab \in [Tabs -> AddressTab] /\ created' \in created..MaxAddresses
    BY <1>2, AddressBookAssumption DEF AddressesInv, AddressBookTypeOK, KnownAddresses, AddressTab
  <2>2. pk \in 1..created' /\ pk \in 0..MaxAddresses
    BY <1>2, <2>1, AddressBookAssumption
  <2>3. PICK copy \in AddressTab : /\ copy = Opened(step, op, pk, tick) /\ copy.step = step /\ copy.op = op
                                    /\ copy.pk = pk /\ copy.tick = tick /\ copy.locked = {}
    BY <2>2, OpenedIsTab
  <2>4. tab' = [tab EXCEPT ![t] = copy] /\ View(t, copy)
    BY <1>2, <2>3, Zenon DEF View
  <2>5. tab'[t] = copy
    BY <2>1, <2>4
  <2>6. ReliesOn(t)'
    BY <1>2, <2>3, <2>5 DEF ReliesOn
  <2> QED BY <1>2, <2>1, <2>2, <2>3, <2>4, <2>6, ViewFacts, TabStepInv
<1>3. unticked \in BOOLEAN
  BY DEF AddressesInv, AddressBookTypeOK
<1>4. CASE address_edit(t)
  <2>1. PICK pk \in addresses, tick \in BOOLEAN :
            /\ View(t, Opened(IF tick THEN "demote" ELSE "write", "edit", pk, tick))
            /\ unticked' = (unticked \/ (pk \in default /\ ~tick))
    BY <1>4, Zenon DEF address_edit, Opened
  <2>2. UNCHANGED <<addresses, default, created>>
    BY <1>4 DEF address_edit
  <2>3. unticked' \in BOOLEAN /\ (unticked => unticked') /\ (pk \in default /\ ~tick => unticked')
    BY <1>3, <2>1, Zenon
  <2>4. CASE tick
    <3>1. View(t, Opened("demote", "edit", pk, tick))
      BY <2>1, <2>4
    <3> QED BY <1>2, <2>2, <2>3, <2>4, <3>1
  <2>5. CASE ~tick
    <3>1. View(t, Opened("write", "edit", pk, tick))
      BY <2>1, <2>5
    <3> QED BY <1>2, <2>2, <2>3, <2>5, <3>1
  <2> QED BY <2>4, <2>5
<1>5. CASE address_set_default(t)
  <2>1. PICK pk \in addresses : View(t, Opened("demote", IF pk \in default THEN "keep" ELSE "set", pk, TRUE))
    BY <1>5, Zenon DEF address_set_default, Opened
  <2>2. UNCHANGED <<addresses, default, created, unticked>>
    BY <1>5 DEF address_set_default
  <2>3. CASE pk \in default
    <3>1. View(t, Opened("demote", "keep", pk, TRUE))
      BY <2>1, <2>3
    <3> QED BY <1>2, <1>3, <2>2, <2>3, <3>1
  <2>4. CASE pk \notin default
    <3>1. View(t, Opened("demote", "set", pk, TRUE))
      BY <2>1, <2>4
    <3> QED BY <1>2, <1>3, <2>2, <2>4, <3>1
  <2> QED BY <2>3, <2>4
<1>6. CASE address_delete(t)
  <2>1. PICK pk \in addresses : View(t, Opened("delete", "delete", pk, pk \in default))
    BY <1>6, Zenon DEF address_delete, Opened
  <2>2. UNCHANGED <<addresses, default, created, unticked>>
    BY <1>6 DEF address_delete
  <2>3. CASE pk \in default
    <3>1. (pk \in default) = TRUE
      BY <2>3
    <3>2. View(t, Opened("delete", "delete", pk, TRUE))
      BY <2>1, <3>1, Zenon
    <3> QED BY <1>2, <1>3, <2>2, <2>3, <3>2
  <2>4. CASE pk \notin default
    <3>1. (pk \in default) = FALSE
      BY <2>4
    <3>2. View(t, Opened("delete", "delete", pk, FALSE))
      BY <2>1, <3>1, Zenon
    <3> QED BY <1>2, <1>3, <2>2, <2>4, <3>2
  <2> QED BY <2>3, <2>4
<1> QED BY <1>1, <1>4, <1>5, <1>6

-----------------------------------------------------------------------------
(* The steps of the transactions                                           *)

\* The tab after a step that leaves the book alone.
LEMMA WorkStepInv ==
    ASSUME AddressesInv, NEW t \in Tabs, ~In(t, "idle"), NEW copy \in AddressTab,
           tab' = [tab EXCEPT ![t] = copy], UNCHANGED <<addresses, default, created, forms, met, unticked>>,
           copy.pk = tab[t].pk, copy.step = "promote" => copy.pk \notin copy.next,
           ~met => ReliesOn(t)'
    PROVE  AddressesInv'
<1>1. created' \in created..MaxAddresses /\ forms' \in 0..MaxForms
  BY AddressBookAssumption DEF AddressesInv, AddressBookTypeOK
<1>2. met' \in BOOLEAN /\ unticked' \in BOOLEAN /\ (met <=> met') /\ (unticked => unticked')
  BY DEF AddressesInv, AddressBookTypeOK
<1>3. copy.pk \in 1..created'
  BY DEF AddressesInv, KnownAddresses
<1>4. ~met' => (\A u \in Tabs \ {t} : In(u, "idle")) /\ ReliesOn(t)'
  BY <1>2, AloneAtWork
<1> QED BY <1>1, <1>2, <1>3, <1>4, TabStepInv

LEMMA StatementsInv ==
    ASSUME AddressesInv, NEW t \in Tabs, create_address(t) \/ Demote(t) \/ delete_address(t)
    PROVE  AddressesInv'
<1> DEFINE this == tab[t]
<1>1. /\ this \in AddressTab /\ tab \in [Tabs -> AddressTab] /\ ~In(t, "idle") /\ default \subseteq addresses
      /\ UNCHANGED <<addresses, default, created, forms, met, unticked>> /\ addresses \subseteq Book
  BY TabIsTab DEF create_address, Demote, delete_address, In, AddressesInv, AddressBookTypeOK, AddressTab
<1>2. CASE create_address(t)
  <2> DEFINE tick == this.tick \/ addresses = {}
             copy == [this EXCEPT !.step = IF tick THEN "demote" ELSE "write", !.tick = tick]
  <2>1. tick \in BOOLEAN /\ this.step = "look"
    BY <1>2 DEF create_address, In
  <2>2. tab' = [tab EXCEPT ![t] = copy]
    BY <1>1, <1>2 DEF create_address
  <2>3. PICK ticked \in BOOLEAN : ticked = tick
    BY <2>1
  <2>4. /\ copy \in AddressTab /\ copy.pk = this.pk /\ copy.tick = ticked /\ copy.locked = this.locked
        /\ copy.op = this.op /\ copy.step = IF ticked THEN "demote" ELSE "write"
    BY <1>1, <2>3 DEF AddressTab
  <2>5. ticked \/ addresses # {}
    BY <2>3
  <2> HIDE DEF copy, tick
  <2>6. tab'[t] = copy
    BY <1>1, <2>2
  <2>7. ~met => ReliesOn(t)'
    <3> SUFFICES ASSUME ~met PROVE ReliesOn(t)'
      OBVIOUS
    <3>1. this.op = "add" /\ this.pk \notin addresses /\ this.locked = {}
      BY <1>1, <2>1, AloneAtWork DEF ReliesOn
    <3> QED BY <1>1, <2>4, <2>5, <2>6, <3>1 DEF ReliesOn
  <2> QED BY <1>1, <2>2, <2>4, <2>7, WorkStepInv
<1>3. CASE Demote(t)
  <2> DEFINE others == default \ {this.pk}
             copy == [this EXCEPT !.step = IF this.op = "keep" THEN "commit" ELSE "write", !.locked = others]
  <2>1. this.step = "demote" /\ others \subseteq Book
    BY <1>1, <1>3 DEF Demote, In
  <2>2. tab' = [tab EXCEPT ![t] = copy]
    BY <1>1, <1>3 DEF Demote
  <2>3. /\ copy \in AddressTab /\ copy.pk = this.pk /\ copy.tick = this.tick /\ copy.locked = others
        /\ copy.op = this.op /\ copy.step = IF this.op = "keep" THEN "commit" ELSE "write"
    BY <1>1, <2>1 DEF AddressTab
  <2> HIDE DEF copy
  <2>4. tab'[t] = copy
    BY <1>1, <2>2
  <2>5. ~met => ReliesOn(t)'
    <3> SUFFICES ASSUME ~met PROVE ReliesOn(t)'
      OBVIOUS
    <3>1. this.tick /\ (this.op = "keep" => this.pk \in default)
      BY <1>1, <2>1, AloneAtWork DEF ReliesOn
    <3> QED BY <1>1, <2>3, <2>4, <3>1 DEF ReliesOn
  <2> QED BY <1>1, <2>2, <2>3, <2>5, WorkStepInv
<1>4. CASE delete_address(t)
  <2> DEFINE heir == IF this.tick THEN Newest(addresses \ {this.pk}) ELSE {}
             copy == [this EXCEPT !.step = "promote", !.locked = {this.pk}, !.next = heir]
  <2>1. this.step = "delete" /\ this.pk \in Book /\ heir \subseteq Book /\ this.pk \notin heir
    <3>1. this.pk \in 1..created /\ created \in 0..MaxAddresses
      BY <1>1 DEF AddressesInv, AddressBookTypeOK, KnownAddresses
    <3>2. this.pk \in Book
      BY <3>1, AddressBookAssumption DEF Book
    <3> QED BY <1>1, <1>4, <3>2 DEF delete_address, In, Newest
  <2>2. tab' = [tab EXCEPT ![t] = copy]
    BY <1>1, <1>4 DEF delete_address
  <2>3. /\ copy \in AddressTab /\ copy.pk = this.pk /\ copy.step = "promote" /\ copy.next = heir
    BY <1>1, <2>1 DEF AddressTab
  <2> HIDE DEF copy
  <2>4. tab'[t] = copy
    BY <1>1, <2>2
  <2>5. ~met => ReliesOn(t)'
    <3> SUFFICES ASSUME ~met PROVE ReliesOn(t)'
      OBVIOUS
    <3>1. this.tick <=> this.pk \in default
      BY <1>1, <2>1, AloneAtWork DEF ReliesOn
    <3>2. heir = IF this.pk \in default THEN Newest(addresses \ {this.pk}) ELSE {}
      BY <3>1
    <3> HIDE DEF heir
    <3>3. default' = default /\ (Newest(addresses \ {this.pk}))' = Newest(addresses \ {copy.pk})
      BY <1>1, <2>3, <2>4 DEF Newest
    <3> QED BY <1>1, <2>3, <2>4, <3>2, <3>3 DEF ReliesOn
  <2> QED BY <1>1, <2>1, <2>2, <2>3, <2>5, WorkStepInv
<1> QED BY <1>2, <1>3, <1>4

LEMMA CommitsInv ==
    ASSUME AddressesInv, NEW t \in Tabs,
           CommitDemotion(t) \/ WriteAddress(t) \/ Promote(t) \/ RolledBack(t)
    PROVE  AddressesInv'
<1> DEFINE this == tab[t]
<1>1. /\ this \in AddressTab /\ Close(t) /\ UNCHANGED <<created, forms, met, unticked>>
      /\ default \subseteq addresses /\ addresses \subseteq Book /\ addresses \subseteq 1..created
  BY TabIsTab DEF CommitDemotion, WriteAddress, Promote, RolledBack, AddressesInv, AddressBookTypeOK, KnownAddresses
<1>2. ~In(t, "idle") /\ this.pk \in 1..created
  BY DEF CommitDemotion, WriteAddress, Promote, RolledBack, In, AddressesInv, KnownAddresses
<1>3. ~met => /\ \A u \in Tabs \ {t} : In(u, "idle")
              /\ ReliesOn(t) /\ \A a, b \in default : a = b
              /\ addresses # {} /\ ~unticked => default # {}
  BY <1>2, AloneAtWork DEF OneRequestAtATime
<1>4. CASE RolledBack(t)
  <2>1. addresses' = addresses /\ default' = default
    BY <1>4 DEF RolledBack
  <2> QED BY <1>1, <1>3, <2>1, RequestEndsInv
<1>5. CASE CommitDemotion(t)
  <2>1. addresses' = addresses /\ default' = default \ this.locked /\ this.step = "commit"
    BY <1>5 DEF CommitDemotion, In
  <2>2. ~met => this.pk \in default /\ default' = {this.pk}
    BY <1>3, <2>1 DEF ReliesOn
  <2> QED BY <1>1, <1>3, <2>1, <2>2, RequestEndsInv
<1>6. CASE WriteAddress(t)
  <2>1. /\ addresses' = addresses \union {this.pk} /\ this.step = "write"
        /\ default' = (default \ (this.locked \union {this.pk})) \union (IF this.tick THEN {this.pk} ELSE {})
    BY <1>6 DEF WriteAddress, In
  <2>2. addresses' \subseteq 1..created /\ default' \subseteq addresses'
    BY <1>1, <1>2, <2>1
  <2>3. ASSUME ~met PROVE (\A a, b \in default' : a = b) /\ (addresses' # {} /\ ~unticked => default' # {})
    <3>1. CASE this.tick
      <4>1. default' = {this.pk}
        BY <1>3, <2>1, <2>3, <3>1 DEF ReliesOn
      <4> QED BY <4>1
    <3>2. CASE ~this.tick
      <4>1. default' = default \ {this.pk} /\ addresses # {} /\ (this.pk \in default => unticked)
        BY <1>3, <2>1, <2>3, <3>2 DEF ReliesOn
      <4> QED BY <1>3, <2>3, <4>1
    <3> QED BY <3>1, <3>2
  <2> QED BY <1>1, <1>3, <2>2, <2>3, RequestEndsInv
<1>7. CASE Promote(t)
  <2>1. /\ addresses' = addresses \ {this.pk} /\ default' = (default \ {this.pk}) \union this.next
        /\ this.step = "promote" /\ this.next \subseteq addresses /\ this.pk \notin this.next
    BY <1>7 DEF Promote, In, AddressesInv, KnownAddresses
  <2>2. addresses' \subseteq 1..created /\ default' \subseteq addresses'
    BY <1>1, <2>1
  <2>3. ASSUME ~met PROVE (\A a, b \in default' : a = b) /\ (addresses' # {} /\ ~unticked => default' # {})
    <3>1. this.next = IF this.pk \in default THEN Newest(addresses') ELSE {}
      BY <1>3, <2>1, <2>3 DEF ReliesOn
    <3>2. CASE this.pk \notin default
      BY <1>3, <2>1, <2>3, <3>1, <3>2
    <3>3. CASE this.pk \in default
      <4>1. default' = Newest(addresses')
        BY <1>3, <2>1, <2>3, <3>1, <3>3
      <4>2. CASE addresses' = {}
        BY <2>2, <4>2
      <4>3. CASE addresses' # {}
        <5>1. addresses' \in SUBSET Book
          BY <1>1, <2>1
        <5>2. PICK a : Newest(addresses') = {a}
          BY <4>3, <5>1, NewestExists
        <5> QED BY <4>1, <5>2
      <4> QED BY <4>2, <4>3
    <3> QED BY <3>2, <3>3
  <2> QED BY <1>1, <1>3, <2>2, <2>3, RequestEndsInv
<1> QED BY <1>4, <1>5, <1>6, <1>7

LEMMA AddressesStepInv == AddressesInv /\ [AddressBookNext]_addressVars => AddressesInv'
<1> SUFFICES ASSUME AddressesInv, [AddressBookNext]_addressVars PROVE AddressesInv'
  OBVIOUS
<1>1. CASE UNCHANGED addressVars
  <2>1. /\ addresses' = addresses /\ default' = default /\ created' = created /\ tab' = tab /\ forms' = forms
        /\ met' = met /\ unticked' = unticked
    BY <1>1 DEF addressVars
  <2>2. AddressBookTypeOK' /\ KnownAddresses'
    BY <2>1 DEF AddressesInv, AddressBookTypeOK, KnownAddresses, In
  <2>3. OneRequestAtATime => OneRequestAtATime'
    BY <2>1 DEF OneRequestAtATime, ReliesOn, In, Newest
  <2> QED BY <2>1, <2>2, <2>3 DEF AddressesInv
<1> QED BY <1>1, RequestsInv, StatementsInv, CommitsInv DEF AddressBookNext

\* A set without two different members has at most one.
LEMMA AtMostOne ==
    ASSUME NEW S, \A a, b \in S : a = b
    PROVE  Cardinality(S) <= 1
<1>1. CASE S = {}
  BY <1>1, FS_EmptySet
<1>2. CASE S # {}
  <2>1. PICK a \in S : TRUE
    BY <1>2
  <2>2. S = {a}
    BY <2>1
  <2> QED BY <2>2, FS_Singleton
<1> QED BY <1>1, <1>2

LEMMA AddressesInvDefault == AddressesInv => OneDefaultAddress
<1>1. AddressesInv /\ ~met => \A a, b \in default : a = b
  BY DEF AddressesInv, OneRequestAtATime
<1>2. AddressesInv /\ ~met => Cardinality(default) <= 1
  BY <1>1, AtMostOne
<1>3. AddressesInv /\ ~met => (addresses # {} /\ ~unticked => default # {})
  BY DEF AddressesInv, OneRequestAtATime
<1> QED BY <1>2, <1>3 DEF OneDefaultAddress

-----------------------------------------------------------------------------
(* Reviews and wishes                                                     *)

\* A table holds one row of a pair and of a number, and numbers are not used again.
TableInv(table) ==
    /\ \A a, b \in table : a.who = b.who \/ a.row = b.row => a = b
    /\ \A a \in table : a.row <= rowsMade

\* What each request knows of the product and of the row it has found.
BrowserInv(r) ==
    LET copy == browser[r]
    IN  /\ \A x, y \in copy.who : x = y
        /\ copy.step = "idle" => copy.who = {}
        /\ copy.step = "save" => copy.who \subseteq everBought
        /\ copy.step = "delete" =>
                copy.row <= rowsMade /\ \A w \in wishes : w.row = copy.row => w.who \in copy.who

\* A buyer whose requests never overlapped is served by one process at most; what it has seen of the
\* wishlist is still true, and the clicks were counted.
ClicksInv(x) ==
    /\ \A q, r \in Browsers : \A u \in browser[q].who, v \in browser[r].who : u[1] = x[1] /\ v[1] = x[1] => q = r
    /\ \A r \in Browsers : x \in browser[r].who =>
            /\ browser[r].step = "create" => RowsOf(wishes, x) = {}
            /\ browser[r].step = "delete" => \E w \in RowsOf(wishes, x) : w.row = browser[r].row
    /\ RowsOf(wishes, x) # {} <=> clicks[x] % 2 = 1

StoreInv ==
    /\ StorefrontTypeOK
    /\ TableInv(reviews) /\ TableInv(wishes)
    /\ \A a \in reviews : a.who \in everBought
    /\ \A r \in Browsers : BrowserInv(r)
    /\ \A x \in Pairs : x[1] \notin jumbled => ClicksInv(x)

Browser == [step : {"idle", "before", "purchased", "save", "get", "create", "delete"}, who : SUBSET Pairs, row : Nat]

Rows == [row : Nat \ {0}, who : Pairs]

LEMMA AsleepIsBrowser == Asleep \in Browser /\ Asleep.step = "idle" /\ Asleep.who = {} /\ Asleep.row = 0
BY DEF Asleep, Browser

LEMMA StoreInitInv == StorefrontInit => StoreInv
<1> SUFFICES ASSUME StorefrontInit PROVE StoreInv
  OBVIOUS
<1>1. \A r \in Browsers : browser[r] \in Browser /\ browser[r].step = "idle" /\ browser[r].who = {}
  BY AsleepIsBrowser DEF StorefrontInit
<1>2. browser \in [Browsers -> Browser]
  BY AsleepIsBrowser DEF StorefrontInit
<1>3. StorefrontTypeOK
  BY <1>2, StorefrontAssumption DEF StorefrontInit, StorefrontTypeOK, Browser
<1>4. TableInv(reviews) /\ TableInv(wishes)
  BY DEF StorefrontInit, TableInv
<1>5. \A r \in Browsers : BrowserInv(r)
  BY <1>1 DEF BrowserInv
<1>6. \A x \in Pairs : ClicksInv(x)
  <2> TAKE x \in Pairs
  <2>1. RowsOf(wishes, x) = {} /\ clicks[x] = 0
    BY DEF StorefrontInit, RowsOf
  <2> QED BY <1>1, <2>1 DEF ClicksInv
<1> QED BY <1>3, <1>4, <1>5, <1>6 DEF StoreInv, StorefrontInit

\* A request goes on to its next step.
LEMMA RequestGoesOn ==
    ASSUME browser \in [Browsers -> Browser], NEW r \in Browsers,
           NEW step \in {"idle", "before", "purchased", "save", "get", "create", "delete"}, Goes(r, step)
    PROVE  /\ browser' \in [Browsers -> Browser]
           /\ \A q \in Browsers \ {r} : browser'[q] = browser[q]
           /\ browser'[r].step = step
           /\ browser'[r].who = IF step = "idle" THEN {} ELSE browser[r].who
<1>1. CASE step = "idle"
  <2>1. browser' = [browser EXCEPT ![r] = Asleep]
    BY <1>1 DEF Goes
  <2> QED BY <1>1, <2>1, AsleepIsBrowser
<1>2. CASE step # "idle"
  <2>1. browser' = [browser EXCEPT ![r] = [browser[r] EXCEPT !.step = step]]
    BY <1>2 DEF Goes
  <2> QED BY <1>2, <2>1 DEF Browser
<1> QED BY <1>1, <1>2

\* A request that writes nothing keeps the invariant if it keeps its own part of it.
LEMMA ReadingInv ==
    ASSUME StoreInv, StorefrontTypeOK', NEW r \in Browsers,
           UNCHANGED <<everBought, reviews, wishes, clicks, rowsMade, jumbled>>,
           \A q \in Browsers \ {r} : browser'[q] = browser[q],
           browser'[r].who \subseteq browser[r].who, BrowserInv(r)',
           browser'[r].step = "create" => \A x \in browser'[r].who : RowsOf(wishes, x) = {},
           browser'[r].step = "delete" => \A x \in browser'[r].who : \E w \in RowsOf(wishes, x) : w.row = browser'[r].row
    PROVE  StoreInv'
<1>1. TableInv(reviews)' /\ TableInv(wishes)' /\ \A a \in reviews' : a.who \in everBought'
  BY DEF StoreInv, TableInv
<1>2. \A q \in Browsers : BrowserInv(q)'
  BY DEF StoreInv, BrowserInv
<1>3. ASSUME NEW x \in Pairs, x[1] \notin jumbled' PROVE ClicksInv(x)'
  <2>1. ClicksInv(x)
    BY <1>3 DEF StoreInv
  <2>2. \A q \in Browsers : browser'[q].who \subseteq browser[q].who
    OBVIOUS
  <2>3. (\A p, q \in Browsers : \A u \in browser[p].who, v \in browser[q].who : u[1] = x[1] /\ v[1] = x[1] => p = q)'
    BY <2>1, <2>2 DEF ClicksInv
  <2>4. RowsOf(wishes, x)' = RowsOf(wishes, x) /\ clicks' = clicks
    BY DEF RowsOf
  <2> QED BY <2>1, <2>3, <2>4 DEF ClicksInv
<1> QED BY <1>1, <1>2, <1>3 DEF StoreInv

LEMMA PostsInv ==
    ASSUME StoreInv, NEW r \in Browsers, NEW step \in {"before", "get"}, Posts(r, step)
    PROVE  StoreInv'
<1>1. PICK x \in Pairs :
        /\ browser' = [browser EXCEPT ![r] = [Asleep EXCEPT !.step = step, !.who = {x}]]
        /\ jumbled' = IF \E q \in Browsers : \E y \in browser[q].who : y[1] = x[1] THEN jumbled \union {x[1]} ELSE jumbled
  BY DEF Posts
<1>2. /\ browser \in [Browsers -> Browser] /\ browser' \in [Browsers -> Browser]
      /\ \A q \in Browsers \ {r} : browser'[q] = browser[q]
      /\ browser'[r].who = {x} /\ browser'[r].step = step
  BY <1>1 DEF StoreInv, StorefrontTypeOK, Browser, Asleep
<1>3. UNCHANGED <<active, bought, everBought, reviews, wishes, clicks, rowsMade>> /\ posted' \in 0..MaxClicks
  BY StorefrontAssumption DEF Posts, StoreInv, StorefrontTypeOK
<1>4. x[1] \in Customers
  BY DEF Pairs
<1>5. StorefrontTypeOK'
  <2>1. jumbled' \subseteq Customers
    BY <1>1, <1>4 DEF StoreInv, StorefrontTypeOK
  <2> QED BY <1>2, <1>3, <2>1 DEF StoreInv, StorefrontTypeOK, Browser
<1>6. TableInv(reviews)' /\ TableInv(wishes)' /\ \A a \in reviews' : a.who \in everBought'
  BY <1>3 DEF StoreInv, TableInv
<1>7. \A q \in Browsers : BrowserInv(q)'
  BY <1>2, <1>3 DEF StoreInv, BrowserInv
<1>8. ASSUME NEW y \in Pairs, y[1] \notin jumbled' PROVE ClicksInv(y)'
  <2>1. ClicksInv(y)
    BY <1>1, <1>8 DEF StoreInv
  <2>2. y[1] = x[1] => \A q \in Browsers : \A u \in browser[q].who : u[1] # x[1]
    BY <1>1, <1>8
  <2>3. (\A p, q \in Browsers : \A u \in browser[p].who, v \in browser[q].who : u[1] = y[1] /\ v[1] = y[1] => p = q)'
    BY <1>2, <2>1, <2>2 DEF ClicksInv
  <2>4. RowsOf(wishes, y)' = RowsOf(wishes, y) /\ clicks' = clicks
    BY <1>3 DEF RowsOf
  <2> QED BY <1>2, <2>1, <2>3, <2>4 DEF ClicksInv
<1> QED BY <1>5, <1>6, <1>7, <1>8 DEF StoreInv

LEMMA ReviewingInv ==
    ASSUME StoreInv, NEW r \in Browsers, ReviewedBefore(r) \/ _has_purchased(r)
    PROVE  StoreInv'
<1>0. browser \in [Browsers -> Browser]
  BY DEF StoreInv, StorefrontTypeOK, Browser
<1>1. PICK x \in browser[r].who : TRUE
  BY DEF ReviewedBefore, _has_purchased
<1>2. browser[r].who = {x}
  BY <1>1 DEF StoreInv, BrowserInv
<1>3. UNCHANGED <<active, bought, everBought, reviews, wishes, clicks, rowsMade, posted, jumbled>>
  BY DEF ReviewedBefore, _has_purchased
<1>4. \E step \in {"purchased", "save", "idle"} : Goes(r, step) /\ (step = "save" => x \in bought)
  BY <1>2 DEF ReviewedBefore, _has_purchased, Goes
<1>5. PICK step \in {"purchased", "save", "idle"} : Goes(r, step) /\ (step = "save" => x \in bought)
  BY <1>4
<1>6. /\ browser' \in [Browsers -> Browser]
      /\ \A q \in Browsers \ {r} : browser'[q] = browser[q]
      /\ browser'[r].step = step
      /\ browser'[r].who = IF step = "idle" THEN {} ELSE browser[r].who
  BY <1>0, <1>5, RequestGoesOn
<1>7. StorefrontTypeOK'
  BY <1>3, <1>6 DEF StoreInv, StorefrontTypeOK, Browser
<1>8. x \in bought => x \in everBought
  BY DEF StoreInv, StorefrontTypeOK
<1>9. BrowserInv(r)'
  BY <1>2, <1>3, <1>5, <1>6, <1>8 DEF BrowserInv
<1> QED BY <1>3, <1>5, <1>6, <1>7, <1>9, ReadingInv

LEMMA GetWishInv ==
    ASSUME StoreInv, NEW r \in Browsers, GetWish(r)
    PROVE  StoreInv'
<1>0. browser \in [Browsers -> Browser]
  BY DEF StoreInv, StorefrontTypeOK, Browser
<1>1. PICK x \in browser[r].who :
        \/ RowsOf(wishes, x) = {} /\ Goes(r, "create")
        \/ \E w \in RowsOf(wishes, x) : browser' = [browser EXCEPT ![r].step = "delete", ![r].row = w.row]
  BY DEF GetWish
<1>2. browser[r].who = {x}
  BY <1>1 DEF StoreInv, BrowserInv
<1>3. UNCHANGED <<active, bought, everBought, reviews, wishes, clicks, rowsMade, posted, jumbled>>
  BY DEF GetWish
<1>4. CASE RowsOf(wishes, x) = {} /\ Goes(r, "create")
  <2>1. /\ browser' \in [Browsers -> Browser]
        /\ \A q \in Browsers \ {r} : browser'[q] = browser[q]
        /\ browser'[r].step = "create" /\ browser'[r].who = {x}
    BY <1>0, <1>2, <1>4, RequestGoesOn
  <2>2. StorefrontTypeOK'
    BY <1>3, <2>1 DEF StoreInv, StorefrontTypeOK, Browser
  <2>3. BrowserInv(r)'
    BY <2>1 DEF BrowserInv
  <2> QED BY <1>2, <1>3, <1>4, <2>1, <2>2, <2>3, ReadingInv
<1>5. ASSUME NEW w \in RowsOf(wishes, x), browser' = [browser EXCEPT ![r].step = "delete", ![r].row = w.row]
      PROVE  StoreInv'
  <2>1. w \in wishes /\ w.who = x /\ w.row \in Nat /\ w.row <= rowsMade
    BY <1>5 DEF RowsOf, StoreInv, StorefrontTypeOK, TableInv
  <2>2. /\ browser' \in [Browsers -> Browser]
        /\ \A q \in Browsers \ {r} : browser'[q] = browser[q]
        /\ browser'[r].step = "delete" /\ browser'[r].who = {x} /\ browser'[r].row = w.row
    BY <1>0, <1>2, <1>5, <2>1 DEF Browser
  <2>3. StorefrontTypeOK'
    BY <1>3, <2>2 DEF StoreInv, StorefrontTypeOK, Browser
  <2>4. \A v \in wishes : v.row = w.row => v.who = x
    BY <2>1 DEF StoreInv, TableInv
  <2>5. BrowserInv(r)'
    BY <1>3, <2>1, <2>2, <2>4 DEF BrowserInv
  <2> QED BY <1>2, <1>3, <1>5, <2>2, <2>3, <2>5, ReadingInv
<1> QED BY <1>1, <1>4, <1>5

\* An insert keeps numbers and pairs apart.
LEMMA InsertedApart ==
    ASSUME StoreInv, NEW table \in SUBSET Rows, TableInv(table), NEW x \in Pairs, Unique(table, x),
           rowsMade' = rowsMade + 1
    PROVE  LET new == [row |-> rowsMade + 1, who |-> x]
           IN  /\ new \in Rows
               /\ \A a, b \in table \union {new} : a.who = b.who \/ a.row = b.row => a = b
               /\ \A a \in table \union {new} : a.row <= rowsMade'
<1> DEFINE new == [row |-> rowsMade + 1, who |-> x]
<1>1. rowsMade \in Nat
  BY DEF StoreInv, StorefrontTypeOK
<1>2. \A a \in table : a.who # x
  BY DEF Unique, RowsOf
<1>3. \A a \in table : a.row \in Nat /\ a.row <= rowsMade
  BY DEF TableInv, Rows
<1>4. new \in Rows /\ new.row = rowsMade + 1 /\ new.who = x
  BY <1>1 DEF Rows
<1>5. \A a \in table : a.who # new.who /\ a.row # new.row /\ a.row <= rowsMade + 1
  BY <1>1, <1>2, <1>3, <1>4
<1> HIDE DEF new
<1>6. \A a, b \in table \union {new} : a.who = b.who \/ a.row = b.row => a = b
  BY <1>5 DEF TableInv
<1>7. \A a \in table \union {new} : a.row <= rowsMade + 1
  BY <1>1, <1>4, <1>5
<1> QED BY <1>4, <1>6, <1>7 DEF new

LEMMA SaveReviewInv ==
    ASSUME StoreInv, NEW r \in Browsers, SaveReview(r)
    PROVE  StoreInv'
<1>0. browser \in [Browsers -> Browser] /\ rowsMade \in Nat /\ rowsMade' = rowsMade + 1
  BY DEF StoreInv, StorefrontTypeOK, Browser, SaveReview
<1>1. PICK x \in browser[r].who :
        /\ browser[r].step = "save"
        /\ reviews' = IF Unique(reviews, x) THEN reviews \union {[row |-> rowsMade + 1, who |-> x]} ELSE reviews
        /\ Goes(r, "idle")
  BY DEF SaveReview
<1>2. x \in everBought /\ x \in Pairs
  BY <1>1 DEF StoreInv, BrowserInv, StorefrontTypeOK
<1>3. UNCHANGED <<active, bought, everBought, wishes, clicks, posted, jumbled>>
  BY DEF SaveReview
<1>4. /\ browser' \in [Browsers -> Browser]
      /\ \A q \in Browsers \ {r} : browser'[q] = browser[q]
      /\ browser'[r].step = "idle" /\ browser'[r].who = {}
  BY <1>0, <1>1, RequestGoesOn
<1>5. reviews' \subseteq Rows /\ TableInv(reviews)' /\ \A a \in reviews' : a.who \in everBought'
  <2>1. CASE Unique(reviews, x)
    <3>1. reviews \in SUBSET Rows /\ TableInv(reviews)
      BY DEF StoreInv, StorefrontTypeOK, Rows
    <3>2. reviews' = reviews \union {[row |-> rowsMade + 1, who |-> x]}
      BY <1>1, <2>1
    <3>3. reviews' \subseteq Rows /\ TableInv(reviews)'
      BY <1>0, <1>2, <2>1, <3>1, <3>2, InsertedApart DEF TableInv
    <3> QED BY <1>2, <1>3, <3>2, <3>3 DEF StoreInv
  <2>2. CASE ~Unique(reviews, x)
    <3>1. reviews' = reviews /\ \A a \in reviews : a.row \in Nat
      BY <1>1, <2>2 DEF StoreInv, StorefrontTypeOK
    <3>2. \A a \in reviews : a.row <= rowsMade + 1
      BY <1>0, <3>1 DEF StoreInv, TableInv
    <3> QED BY <1>0, <1>3, <3>1, <3>2 DEF StoreInv, TableInv, StorefrontTypeOK, Rows
  <2> QED BY <2>1, <2>2
<1>6. StorefrontTypeOK'
  BY <1>0, <1>3, <1>4, <1>5 DEF StoreInv, StorefrontTypeOK, Browser, Rows
<1>7. TableInv(wishes)'
  <2>1. \A a \in wishes : a.row \in Nat
    BY DEF StoreInv, StorefrontTypeOK
  <2>2. \A a \in wishes : a.row <= rowsMade + 1
    BY <1>0, <2>1 DEF StoreInv, TableInv
  <2> QED BY <1>0, <1>3, <2>2 DEF StoreInv, TableInv
<1>8. \A q \in Browsers : BrowserInv(q)'
  <2>1. BrowserInv(r)'
    BY <1>4 DEF BrowserInv
  <2>2. ASSUME NEW q \in Browsers \ {r} PROVE BrowserInv(q)'
    <3>1. BrowserInv(q) /\ browser'[q] = browser[q] /\ browser[q].row \in Nat
      BY <1>0, <1>4 DEF StoreInv, Browser
    <3>2. browser[q].row <= rowsMade => browser[q].row <= rowsMade + 1
      BY <1>0, <3>1
    <3> QED BY <1>0, <1>3, <3>1, <3>2 DEF BrowserInv
  <2> QED BY <2>1, <2>2
<1>9. ASSUME NEW y \in Pairs, y[1] \notin jumbled' PROVE ClicksInv(y)'
  <2>1. ClicksInv(y)
    BY <1>3, <1>9 DEF StoreInv
  <2>2. (\A p, q \in Browsers : \A u \in browser[p].who, v \in browser[q].who : u[1] = y[1] /\ v[1] = y[1] => p = q)'
    BY <1>4, <2>1 DEF ClicksInv
  <2>3. RowsOf(wishes, y)' = RowsOf(wishes, y) /\ clicks' = clicks
    BY <1>3 DEF RowsOf
  <2> QED BY <1>4, <2>1, <2>2, <2>3 DEF ClicksInv
<1> QED BY <1>5, <1>6, <1>7, <1>8, <1>9 DEF StoreInv

LEMMA CreateWishInv ==
    ASSUME StoreInv, NEW r \in Browsers, CreateWish(r)
    PROVE  StoreInv'
<1>0. browser \in [Browsers -> Browser] /\ rowsMade \in Nat /\ rowsMade' = rowsMade + 1 /\ clicks \in [Pairs -> Nat]
  BY DEF StoreInv, StorefrontTypeOK, Browser, CreateWish
<1>1. PICK x \in browser[r].who :
        /\ browser[r].step = "create"
        /\ IF Unique(wishes, x)
           THEN /\ wishes' = wishes \union {[row |-> rowsMade + 1, who |-> x]}
                /\ clicks' = [clicks EXCEPT ![x] = @ + 1]
                /\ Goes(r, "idle")
           ELSE Goes(r, "get") /\ UNCHANGED <<wishes, clicks>>
  BY DEF CreateWish
<1>2. browser[r].who = {x} /\ x \in Pairs
  BY <1>0, <1>1 DEF StoreInv, BrowserInv, Browser
<1>3. UNCHANGED <<active, bought, everBought, reviews, posted, jumbled>>
  BY DEF CreateWish
<1>4. PICK step \in {"idle", "get"} : Goes(r, step) /\ (step = "idle" <=> Unique(wishes, x))
  BY <1>1
<1>5. /\ browser' \in [Browsers -> Browser]
      /\ \A q \in Browsers \ {r} : browser'[q] = browser[q]
      /\ browser'[r].step = step /\ browser'[r].who \subseteq {x}
      /\ step = "idle" => browser'[r].who = {}
  BY <1>0, <1>2, <1>4, RequestGoesOn
<1>6. \A a \in wishes \union reviews : a.row \in Nat /\ a.row <= rowsMade /\ a.row <= rowsMade + 1
  <2> TAKE a \in wishes \union reviews
  <2>1. a.row \in Nat /\ a.row <= rowsMade
    BY DEF StoreInv, StorefrontTypeOK, TableInv
  <2> QED BY <1>0, <2>1
<1>7. /\ wishes' \subseteq Rows /\ TableInv(wishes)' /\ clicks' \in [Pairs -> Nat]
      /\ \A y \in Pairs \ {x} : RowsOf(wishes, y)' = RowsOf(wishes, y) /\ clicks'[y] = clicks[y]
      /\ \A a \in wishes' \ wishes : a.row = rowsMade + 1
      /\ Unique(wishes, x) =>
            RowsOf(wishes, x) = {} /\ RowsOf(wishes, x)' # {} /\ clicks'[x] = clicks[x] + 1
  <2>1. CASE Unique(wishes, x)
    <3> DEFINE new == [row |-> rowsMade + 1, who |-> x]
    <3>1. wishes \in SUBSET Rows /\ TableInv(wishes)
      BY DEF StoreInv, StorefrontTypeOK, Rows
    <3>2. wishes' = wishes \union {new} /\ clicks' = [clicks EXCEPT ![x] = @ + 1]
      BY <1>1, <2>1
    <3>3. wishes' \subseteq Rows /\ TableInv(wishes)'
      <4>1. /\ new \in Rows
            /\ \A a, b \in wishes \union {new} : a.who = b.who \/ a.row = b.row => a = b
            /\ \A a \in wishes \union {new} : a.row <= rowsMade'
        BY <1>0, <1>2, <2>1, <3>1, InsertedApart
      <4> QED BY <3>1, <3>2, <4>1 DEF TableInv
    <3>4. new.who = x /\ new.row = rowsMade + 1
      OBVIOUS
    <3> HIDE DEF new
    <3>5. \A y \in Pairs \ {x} : RowsOf(wishes, y)' = RowsOf(wishes, y)
      BY <3>2, <3>4 DEF RowsOf
    <3>6. RowsOf(wishes, x) = {} /\ new \in RowsOf(wishes, x)'
      BY <2>1, <3>2, <3>4 DEF RowsOf, Unique
    <3>7. clicks' \in [Pairs -> Nat] /\ clicks'[x] = clicks[x] + 1 /\ \A y \in Pairs \ {x} : clicks'[y] = clicks[y]
      BY <1>0, <1>2, <3>2
    <3>8. \A a \in wishes' \ wishes : a.row = rowsMade + 1
      BY <3>2, <3>4
    <3> QED BY <3>3, <3>5, <3>6, <3>7, <3>8
  <2>2. CASE ~Unique(wishes, x)
    <3>1. wishes' = wishes /\ clicks' = clicks
      BY <1>1, <2>2
    <3>2. wishes' \subseteq Rows
      BY <3>1 DEF StoreInv, StorefrontTypeOK, Rows
    <3>3. TableInv(wishes)'
      BY <1>0, <1>6, <3>1 DEF StoreInv, TableInv
    <3> QED BY <1>0, <2>2, <3>1, <3>2, <3>3 DEF RowsOf
  <2> QED BY <2>1, <2>2
<1>8. StorefrontTypeOK'
  BY <1>0, <1>3, <1>5, <1>7 DEF StoreInv, StorefrontTypeOK, Browser, Rows
<1>9. TableInv(reviews)' /\ \A a \in reviews' : a.who \in everBought'
  BY <1>0, <1>3, <1>6 DEF StoreInv, TableInv
<1>10. ASSUME NEW q \in Browsers PROVE BrowserInv(q)'
  <2>1. CASE q = r
    BY <1>5, <2>1 DEF BrowserInv
  <2>2. CASE q # r
    <3>1. BrowserInv(q) /\ browser'[q] = browser[q] /\ browser[q].row \in Nat
      BY <1>0, <1>5, <2>2 DEF StoreInv, Browser
    <3>2. browser[q].row <= rowsMade => browser[q].row <= rowsMade + 1 /\ browser[q].row # rowsMade + 1
      BY <1>0, <3>1
    <3> QED BY <1>0, <1>3, <1>7, <3>1, <3>2 DEF BrowserInv
  <2> QED BY <2>1, <2>2
<1>11. ASSUME NEW y \in Pairs, y[1] \notin jumbled' PROVE ClicksInv(y)'
  <2>1. ClicksInv(y)
    BY <1>3, <1>11 DEF StoreInv
  <2>2. \A q \in Browsers : browser'[q].who \subseteq browser[q].who
    BY <1>2, <1>5
  <2>3. (\A p, q \in Browsers : \A u \in browser[p].who, v \in browser[q].who : u[1] = y[1] /\ v[1] = y[1] => p = q)'
    BY <2>1, <2>2 DEF ClicksInv
  <2>4. CASE y # x
    <3>1. RowsOf(wishes, y)' = RowsOf(wishes, y) /\ clicks'[y] = clicks[y]
      BY <1>7, <2>4
    <3>2. \A q \in Browsers : y \in browser'[q].who => browser'[q] = browser[q]
      BY <1>5, <2>4
    <3> QED BY <2>1, <2>2, <2>3, <3>1, <3>2 DEF ClicksInv
  <2>5. CASE y = x
    <3>1. Unique(wishes, x) /\ step = "idle"
      BY <1>1, <1>4, <2>1, <2>5 DEF ClicksInv, Unique
    <3>2. \A q \in Browsers : x \notin browser'[q].who
      BY <1>2, <1>5, <2>1, <2>5, <3>1 DEF ClicksInv
    <3>3. clicks[x] \in Nat /\ clicks[x] % 2 # 1
      BY <1>0, <1>2, <1>7, <2>1, <2>5, <3>1 DEF ClicksInv
    <3>4. (clicks[x] + 1) % 2 = 1
      BY <3>3
    <3> QED BY <1>7, <2>3, <2>5, <3>1, <3>2, <3>4 DEF ClicksInv
  <2> QED BY <2>4, <2>5
<1> QED BY <1>7, <1>8, <1>9, <1>10, <1>11 DEF StoreInv

LEMMA DeleteWishInv ==
    ASSUME StoreInv, NEW r \in Browsers, DeleteWish(r)
    PROVE  StoreInv'
<1>0. browser \in [Browsers -> Browser] /\ rowsMade \in Nat /\ clicks \in [Pairs -> Nat]
  BY DEF StoreInv, StorefrontTypeOK, Browser
<1>1. PICK x \in browser[r].who :
        /\ browser[r].step = "delete"
        /\ wishes' = {w \in wishes : w.row # browser[r].row}
        /\ clicks' = [clicks EXCEPT ![x] = @ + 1]
        /\ Goes(r, "idle")
  BY DEF DeleteWish
<1>2. browser[r].who = {x} /\ x \in Pairs
  BY <1>0, <1>1 DEF StoreInv, BrowserInv, Browser
<1>3. UNCHANGED <<active, bought, everBought, reviews, rowsMade, posted, jumbled>>
  BY DEF DeleteWish
<1>4. /\ browser' \in [Browsers -> Browser]
      /\ \A q \in Browsers \ {r} : browser'[q] = browser[q]
      /\ browser'[r].step = "idle" /\ browser'[r].who = {}
  BY <1>0, <1>1, RequestGoesOn
<1>5. wishes' \subseteq wishes /\ clicks' \in [Pairs -> Nat]
  BY <1>0, <1>1, <1>2
<1>6. TableInv(wishes)' /\ TableInv(reviews)' /\ \A a \in reviews' : a.who \in everBought'
  BY <1>3, <1>5 DEF StoreInv, TableInv
<1>7. StorefrontTypeOK'
  BY <1>3, <1>4, <1>5 DEF StoreInv, StorefrontTypeOK, Browser
<1>8. ASSUME NEW q \in Browsers PROVE BrowserInv(q)'
  BY <1>3, <1>4, <1>5 DEF StoreInv, BrowserInv
<1>9. \A w \in wishes : w.row = browser[r].row => w.who = x
  BY <1>1, <1>2 DEF StoreInv, BrowserInv
<1>10. ASSUME NEW y \in Pairs, y[1] \notin jumbled' PROVE ClicksInv(y)'
  <2>1. ClicksInv(y)
    BY <1>3, <1>10 DEF StoreInv
  <2>2. \A q \in Browsers : browser'[q].who \subseteq browser[q].who
    BY <1>4
  <2>3. (\A p, q \in Browsers : \A u \in browser[p].who, v \in browser[q].who : u[1] = y[1] /\ v[1] = y[1] => p = q)'
    BY <2>1, <2>2 DEF ClicksInv
  <2>4. CASE y # x
    <3>1. RowsOf(wishes, y)' = RowsOf(wishes, y)
      BY <1>1, <1>9, <2>4 DEF RowsOf
    <3>2. clicks'[y] = clicks[y]
      BY <1>0, <1>1, <2>4
    <3>3. \A q \in Browsers : y \in browser'[q].who => browser'[q] = browser[q]
      BY <1>4
    <3> QED BY <2>1, <2>2, <2>3, <3>1, <3>2, <3>3 DEF ClicksInv
  <2>5. CASE y = x
    <3>1. PICK w \in RowsOf(wishes, x) : w.row = browser[r].row
      BY <1>1, <2>1, <2>5 DEF ClicksInv
    <3>2. RowsOf(wishes, x)' = {}
      BY <1>1, <3>1 DEF StoreInv, TableInv, RowsOf
    <3>3. \A q \in Browsers : x \notin browser'[q].who
      BY <1>2, <1>4, <2>1, <2>5 DEF ClicksInv
    <3>4. clicks[x] \in Nat /\ clicks[x] % 2 = 1 /\ clicks'[x] = clicks[x] + 1
      BY <1>0, <1>1, <1>2, <2>1, <2>5, <3>1 DEF ClicksInv
    <3>5. (clicks[x] + 1) % 2 # 1
      BY <3>4
    <3> QED BY <2>3, <2>5, <3>2, <3>3, <3>4, <3>5 DEF ClicksInv
  <2> QED BY <2>4, <2>5
<1> QED BY <1>6, <1>7, <1>8, <1>10 DEF StoreInv

LEMMA StoreStepInv == StoreInv /\ [StorefrontNext]_storeVars => StoreInv'
<1> SUFFICES ASSUME StoreInv, [StorefrontNext]_storeVars PROVE StoreInv'
  OBVIOUS
<1>1. ASSUME UNCHANGED <<reviews, wishes, browser, clicks, rowsMade, posted, jumbled>>, StorefrontTypeOK',
             everBought \subseteq everBought'
      PROVE  StoreInv'
  <2>1. TableInv(reviews)' /\ TableInv(wishes)' /\ \A a \in reviews' : a.who \in everBought'
    BY <1>1 DEF StoreInv, TableInv
  <2>2. \A r \in Browsers : BrowserInv(r)'
    BY <1>1 DEF StoreInv, BrowserInv
  <2>3. \A x \in Pairs : x[1] \notin jumbled' => ClicksInv(x)'
    BY <1>1 DEF StoreInv, ClicksInv, RowsOf
  <2> QED BY <1>1, <2>1, <2>2, <2>3 DEF StoreInv
<1>2. CASE UNCHANGED storeVars
  BY <1>1, <1>2 DEF storeVars, StoreInv, StorefrontTypeOK
<1>3. CASE OrderPaid \/ OrderReversed \/ ShowOrHide
  BY <1>1, <1>3 DEF OrderPaid, OrderReversed, ShowOrHide, StoreInv, StorefrontTypeOK
<1>4. ASSUME NEW r \in Browsers, submit_review(r) \/ toggle_wishlist(r) PROVE StoreInv'
  BY <1>4, PostsInv DEF submit_review, toggle_wishlist
<1> QED BY <1>2, <1>3, <1>4, ReviewingInv, SaveReviewInv, GetWishInv, CreateWishInv, DeleteWishInv DEF StorefrontNext

LEMMA StoreInvRows == StoreInv => OneReviewOneWish
<1> SUFFICES ASSUME StoreInv, NEW x \in Pairs
             PROVE  /\ Cardinality(RowsOf(reviews, x)) <= 1
                    /\ RowsOf(reviews, x) # {} => x \in everBought
                    /\ Cardinality(RowsOf(wishes, x)) <= 1
                    /\ x[1] \notin jumbled => (RowsOf(wishes, x) # {} <=> clicks[x] % 2 = 1)
  BY DEF OneReviewOneWish
<1>1. (\A a, b \in RowsOf(reviews, x) : a = b) /\ (\A a, b \in RowsOf(wishes, x) : a = b)
  BY DEF StoreInv, TableInv, RowsOf
<1>2. Cardinality(RowsOf(reviews, x)) <= 1 /\ Cardinality(RowsOf(wishes, x)) <= 1
  BY <1>1, AtMostOne
<1> QED BY <1>2 DEF StoreInv, ClicksInv, RowsOf

-----------------------------------------------------------------------------
(* Stock alerts                                                            *)

Stocker == [step : {"idle", "write", "fetch", "mail"}, new : BOOLEAN, previous : BOOLEAN,
            mailing : SUBSET Visitors]

\* mailed by a mailing that has not marked it yet
MailedBy(w, v) == Doing(w, "mail") /\ alert[v] = "pending" /\ v \notin stocker[w].mailing

\* One mailing at a time; what it has not mailed is still pending, what it has mailed got its letter.
MailingsInv ==
    /\ \A u, w \in Stockers : Mailing(u) /\ Mailing(w) => u = w
    /\ \A w \in Stockers : Doing(w, "mail") => \A v \in stocker[w].mailing : alert[v] = "pending"
    /\ \A w \in Stockers, v \in Visitors : MailedBy(w, v) => mails[v] > 0
    /\ \A v \in Visitors : alert[v] = "notified" => mails[v] > 0
    /\ stockersLost = 0 => \A v \in Visitors :
            mails[v] = IF alert[v] = "notified" \/ \E w \in Stockers : MailedBy(w, v) THEN 1 ELSE 0

AlertsInv ==
    /\ StockAlertsTypeOK
    /\ \A w \in Stockers : ~Doing(w, "mail") => stocker[w].mailing = {}
    /\ ~hurried => MailingsInv

LEMMA CalmIsStocker == Calm \in Stocker /\ Calm.step = "idle" /\ Calm.mailing = {}
BY DEF Calm, Stocker

LEMMA AlertsInitInv == StockAlertsInit => AlertsInv
<1> SUFFICES ASSUME StockAlertsInit PROVE AlertsInv
  OBVIOUS
<1>1. \A w \in Stockers : stocker[w].step = "idle" /\ stocker[w].mailing = {}
  BY CalmIsStocker DEF StockAlertsInit
<1>2. stocker \in [Stockers -> Stocker]
  BY CalmIsStocker DEF StockAlertsInit
<1>3. /\ inStock = FALSE /\ hurried = FALSE /\ saves = 0 /\ stockersLost = 0
      /\ alert \in [Visitors -> {"none", "pending", "notified"}] /\ mails \in [Visitors -> Nat]
      /\ \A v \in Visitors : alert[v] = "none" /\ mails[v] = 0
  BY DEF StockAlertsInit
<1>4. saves \in 0..MaxSaves /\ stockersLost \in 0..MaxStockersLost
  BY <1>3, StockAlertsAssumption
<1>5. StockAlertsTypeOK
  BY <1>2, <1>3, <1>4 DEF StockAlertsTypeOK, Stocker
<1>6. MailingsInv
  BY <1>1, <1>3 DEF MailingsInv, MailedBy, Doing, Mailing
<1> QED BY <1>1, <1>5, <1>6 DEF AlertsInv, Doing

\* One process takes a step that mails nobody and leaves no mailing behind it.
LEMMA StockerSteps ==
    ASSUME AlertsInv, NEW w \in Stockers, NEW after \in Stocker, stocker' = [stocker EXCEPT ![w] = after],
           inStock' \in BOOLEAN, saves' \in 0..MaxSaves, hurried' \in BOOLEAN, ~hurried' => ~hurried,
           stockersLost' \in 0..MaxStockersLost, stockersLost' = 0 => stockersLost = 0,
           UNCHANGED <<alert, mails>>, after.step # "mail", after.mailing = {},
           after.step = "fetch" /\ ~hurried' => \A u \in Stockers \ {w} : ~Mailing(u),
           stockersLost' # 0 \/ ~Doing(w, "mail")
    PROVE  AlertsInv'
<1> USE DEF AlertsInv
<1>1. stocker' \in [Stockers -> Stocker] /\ stocker'[w] = after /\ \A u \in Stockers \ {w} : stocker'[u] = stocker[u]
  BY DEF StockAlertsTypeOK, Stocker
<1>2. StockAlertsTypeOK'
  BY <1>1 DEF StockAlertsTypeOK, Stocker
<1>3. \A u \in Stockers : ~Doing(u, "mail")' => stocker'[u].mailing = {}
  BY <1>1 DEF Doing
<1>4. ASSUME ~hurried' PROVE MailingsInv'
  <2>1. MailingsInv
    BY <1>4
  <2>2. \A u \in Stockers : Doing(u, "mail")' => u # w /\ Doing(u, "mail") /\ stocker'[u] = stocker[u]
    BY <1>1 DEF Doing
  <2>3. \A u \in Stockers, v \in Visitors : MailedBy(u, v)' => MailedBy(u, v)
    BY <2>2 DEF MailedBy
  <2>4. ASSUME stockersLost' = 0, NEW u \in Stockers, NEW v \in Visitors PROVE MailedBy(u, v) => MailedBy(u, v)'
    BY <1>1, <2>4 DEF MailedBy, Doing
  <2>5. \A u, t \in Stockers : Mailing(u)' /\ Mailing(t)' => u = t
    BY <1>1, <1>4, <2>1 DEF MailingsInv, Mailing
  <2>6. \A u \in Stockers : Doing(u, "mail")' => \A v \in stocker'[u].mailing : alert'[v] = "pending"
    BY <2>1, <2>2 DEF MailingsInv
  <2>7. \A u \in Stockers, v \in Visitors : MailedBy(u, v)' => mails'[v] > 0
    BY <2>1, <2>3 DEF MailingsInv
  <2>8. \A v \in Visitors : alert'[v] = "notified" => mails'[v] > 0
    BY <2>1 DEF MailingsInv
  <2>9. stockersLost' = 0 => \A v \in Visitors :
            mails'[v] = IF alert'[v] = "notified" \/ \E u \in Stockers : MailedBy(u, v)' THEN 1 ELSE 0
    BY <2>1, <2>3, <2>4 DEF MailingsInv
  <2> QED BY <2>5, <2>6, <2>7, <2>8, <2>9 DEF MailingsInv
<1> QED BY <1>2, <1>3, <1>4

LEMMA SavesInv ==
    ASSUME AlertsInv, NEW w \in Stockers,
           LockedSave(w) \/ _cache_previous_product_stock(w) \/ _notify_product_restocked(w) \/ StockerDies(w)
    PROVE  AlertsInv'
<1>1. /\ inStock \in BOOLEAN /\ hurried \in BOOLEAN /\ saves \in 0..MaxSaves /\ stockersLost \in 0..MaxStockersLost
      /\ stocker[w] \in Stocker
  BY DEF AlertsInv, StockAlertsTypeOK, Stocker
<1>2. ASSUME NEW previous \in BOOLEAN, NEW new \in BOOLEAN, AfterSave(w, previous, new), saves' \in 0..MaxSaves,
             UNCHANGED <<alert, mails, stockersLost>>, ~Doing(w, "mail")
      PROVE  AlertsInv'
  <2>1. PICK after \in Stocker : /\ stocker' = [stocker EXCEPT ![w] = after] /\ after.step # "mail" /\ after.mailing = {}
                                 /\ after.step = "fetch" => _restocked(previous, new)
    <3>1. CASE _restocked(previous, new)
      <4>1. [Calm EXCEPT !.step = "fetch"] \in Stocker /\ [Calm EXCEPT !.step = "fetch"].step = "fetch"
            /\ [Calm EXCEPT !.step = "fetch"].mailing = {}
        BY CalmIsStocker DEF Stocker
      <4>2. stocker' = [stocker EXCEPT ![w] = [Calm EXCEPT !.step = "fetch"]]
        BY <1>2, <3>1 DEF AfterSave
      <4> QED BY <3>1, <4>1, <4>2
    <3>2. CASE ~_restocked(previous, new)
      <4>1. stocker' = [stocker EXCEPT ![w] = Calm]
        BY <1>2, <3>2 DEF AfterSave
      <4> QED BY <4>1, CalmIsStocker
    <3> QED BY <3>1, <3>2
  <2>2. inStock' = new /\ hurried' = (hurried \/ (_restocked(previous, new) /\ \E u \in Stockers \ {w} : Mailing(u)))
    BY <1>2 DEF AfterSave
  <2>3. hurried' \in BOOLEAN /\ (~hurried' => ~hurried)
        /\ (after.step = "fetch" /\ ~hurried' => \A u \in Stockers \ {w} : ~Mailing(u))
    BY <1>1, <2>1, <2>2
  <2> QED BY <1>1, <1>2, <2>1, <2>2, <2>3, StockerSteps
<1>7. Saves(w) => saves' \in 0..MaxSaves
  BY <1>1, StockAlertsAssumption DEF Saves
<1>3. CASE LockedSave(w)
  <2>1. AfterSave(w, inStock, TRUE) /\ saves' \in 0..MaxSaves /\ ~Doing(w, "mail") /\ UNCHANGED <<alert, mails, stockersLost>>
    <3>1. AfterSave(w, inStock, TRUE) /\ ~Doing(w, "mail") /\ Saves(w) /\ UNCHANGED <<alert, mails, stockersLost>>
      BY <1>3 DEF LockedSave, Saves, Doing
    <3> QED BY <1>7, <3>1
  <2>2. PICK previous \in BOOLEAN : previous = inStock
    BY <1>1
  <2> QED BY <1>2, <2>1, <2>2
<1>4. CASE _notify_product_restocked(w)
  <2>1. PICK previous \in BOOLEAN, new \in BOOLEAN : AfterSave(w, previous, new)
    BY <1>1, <1>4 DEF _notify_product_restocked, Stocker
  <2>2. saves' \in 0..MaxSaves /\ ~Doing(w, "mail") /\ UNCHANGED <<alert, mails, stockersLost>>
    BY <1>1, <1>4 DEF _notify_product_restocked, Doing
  <2> QED BY <1>2, <2>1, <2>2
<1>5. CASE _cache_previous_product_stock(w)
  <2>1. PICK new \in BOOLEAN :
            stocker' = [stocker EXCEPT ![w] = [Calm EXCEPT !.step = "write", !.new = new, !.previous = inStock]]
    BY <1>5 DEF _cache_previous_product_stock
  <2>2. PICK after \in Stocker : /\ after = [Calm EXCEPT !.step = "write", !.new = new, !.previous = inStock]
                                 /\ after.step = "write" /\ after.mailing = {}
    <3>1. [Calm EXCEPT !.step = "write", !.new = new, !.previous = inStock] \in Stocker
      BY <1>1, CalmIsStocker DEF Stocker
    <3>2. [Calm EXCEPT !.step = "write", !.new = new, !.previous = inStock].step = "write"
          /\ [Calm EXCEPT !.step = "write", !.new = new, !.previous = inStock].mailing = {}
      BY CalmIsStocker DEF Stocker
    <3> QED BY <3>1, <3>2
  <2>3. saves' \in 0..MaxSaves /\ ~Doing(w, "mail") /\ UNCHANGED <<inStock, alert, mails, hurried, stockersLost>>
    <3>1. ~Doing(w, "mail") /\ Saves(w) /\ UNCHANGED <<inStock, alert, mails, hurried, stockersLost>>
      BY <1>5 DEF _cache_previous_product_stock, Saves, Doing
    <3> QED BY <1>7, <3>1
  <2> QED BY <1>1, <2>1, <2>2, <2>3, StockerSteps
<1>6. CASE StockerDies(w)
  <2>1. /\ stocker' = [stocker EXCEPT ![w] = Calm] /\ UNCHANGED <<inStock, alert, mails, saves, hurried>>
        /\ stockersLost' \in 0..MaxStockersLost /\ stockersLost' # 0
    BY <1>1, <1>6, StockAlertsAssumption DEF StockerDies
  <2> QED BY <1>1, <2>1, CalmIsStocker, StockerSteps
<1> QED BY <1>3, <1>4, <1>5, <1>6

LEMMA SignUpInv ==
    ASSUME AlertsInv, NEW x \in Visitors, request_stock_alert(x)
    PROVE  AlertsInv'
<1> USE DEF AlertsInv
<1>1. /\ alert[x] = "none" /\ alert' = [alert EXCEPT ![x] = "pending"]
      /\ hurried' = (hurried \/ \E w \in Stockers : Doing(w, "mail"))
      /\ UNCHANGED <<inStock, mails, stocker, saves, stockersLost>>
  BY DEF request_stock_alert
<1>2. alert' \in [Visitors -> {"none", "pending", "notified"}] /\ hurried' \in BOOLEAN
  BY <1>1 DEF StockAlertsTypeOK, Doing
<1>3. StockAlertsTypeOK'
  BY <1>1, <1>2 DEF StockAlertsTypeOK
<1>4. ASSUME ~hurried' PROVE MailingsInv'
  <2>1. MailingsInv /\ \A w \in Stockers : ~Doing(w, "mail")
    BY <1>1, <1>4
  <2>2. \A w \in Stockers : ~Doing(w, "mail")' /\ (Mailing(w)' <=> Mailing(w))
    BY <1>1, <2>1 DEF Doing, Mailing
  <2>3. \A w \in Stockers, v \in Visitors : ~MailedBy(w, v) /\ ~MailedBy(w, v)'
    BY <2>1, <2>2 DEF MailedBy
  <2>4. \A v \in Visitors : alert'[v] = "notified" <=> alert[v] = "notified"
    BY <1>1 DEF StockAlertsTypeOK
  <2> QED BY <1>1, <2>1, <2>2, <2>3, <2>4 DEF MailingsInv
<1> QED BY <1>1, <1>3, <1>4 DEF Doing

LEMMA FetchInv ==
    ASSUME AlertsInv, NEW w \in Stockers, FetchAlerts(w)
    PROVE  AlertsInv'
<1> USE DEF AlertsInv
<1>1. /\ Doing(w, "fetch") /\ stocker' = [stocker EXCEPT ![w] = [Calm EXCEPT !.step = "mail", !.mailing = Pending]]
      /\ UNCHANGED <<inStock, alert, mails, saves, hurried, stockersLost>>
  BY DEF FetchAlerts
<1>2. PICK after \in Stocker : /\ after = [Calm EXCEPT !.step = "mail", !.mailing = Pending]
                               /\ after.step = "mail" /\ after.mailing = Pending
  <2>1. Pending \subseteq Visitors
    BY DEF Pending
  <2>2. [Calm EXCEPT !.step = "mail", !.mailing = Pending] \in Stocker
    BY <2>1, CalmIsStocker DEF Stocker
  <2>3. [Calm EXCEPT !.step = "mail", !.mailing = Pending].step = "mail"
        /\ [Calm EXCEPT !.step = "mail", !.mailing = Pending].mailing = Pending
    BY CalmIsStocker DEF Stocker
  <2> QED BY <2>2, <2>3
<1>3. stocker' \in [Stockers -> Stocker] /\ stocker'[w] = after /\ \A u \in Stockers \ {w} : stocker'[u] = stocker[u]
  BY <1>1, <1>2 DEF StockAlertsTypeOK, Stocker
<1>4. StockAlertsTypeOK'
  BY <1>1, <1>3 DEF StockAlertsTypeOK, Stocker
<1>5. \A u \in Stockers : ~Doing(u, "mail")' => stocker'[u].mailing = {}
  BY <1>2, <1>3 DEF Doing
<1>6. ASSUME ~hurried' PROVE MailingsInv'
  <2>1. MailingsInv
    BY <1>1, <1>6
  <2>2. \A u \in Stockers \ {w} : ~Mailing(u) /\ ~Mailing(u)'
    BY <1>1, <1>3, <2>1 DEF MailingsInv, Mailing, Doing
  <2>3. \A u \in Stockers, v \in Visitors : ~MailedBy(u, v) /\ ~MailedBy(u, v)'
    BY <1>1, <1>2, <1>3, <2>2 DEF MailedBy, Doing, Mailing, Pending
  <2>4. \A u \in Stockers : Doing(u, "mail")' => \A v \in stocker'[u].mailing : alert'[v] = "pending"
    BY <1>1, <1>2, <1>3, <2>2 DEF Doing, Mailing, Pending
  <2> QED BY <1>1, <2>1, <2>2, <2>3, <2>4 DEF MailingsInv
<1> QED BY <1>4, <1>5, <1>6

LEMMA MailOneInv ==
    ASSUME AlertsInv, NEW w \in Stockers, MailOne(w)
    PROVE  AlertsInv'
<1> USE DEF AlertsInv
<1>1. PICK x \in stocker[w].mailing :
            /\ mails' = [mails EXCEPT ![x] = mails[x] + 1]
            /\ stocker' = [stocker EXCEPT ![w].mailing = stocker[w].mailing \ {x}]
            /\ UNCHANGED <<inStock, alert, saves, hurried, stockersLost>>
  BY DEF MailOne
<1>2. stocker[w] \in Stocker /\ Doing(w, "mail") /\ x \in Visitors
  <2>1. stocker[w] \in Stocker /\ Doing(w, "mail")
    BY <1>1 DEF StockAlertsTypeOK, Stocker
  <2> QED BY <1>1, <2>1 DEF Stocker
<1>3. /\ stocker' \in [Stockers -> Stocker] /\ \A u \in Stockers \ {w} : stocker'[u] = stocker[u]
      /\ stocker'[w].step = stocker[w].step /\ stocker'[w].mailing = stocker[w].mailing \ {x}
  BY <1>1, <1>2 DEF StockAlertsTypeOK, Stocker
<1>4. mails' \in [Visitors -> Nat] /\ mails'[x] = mails[x] + 1 /\ \A v \in Visitors \ {x} : mails'[v] = mails[v]
  BY <1>1, <1>2 DEF StockAlertsTypeOK
<1>5. StockAlertsTypeOK'
  BY <1>1, <1>3, <1>4 DEF StockAlertsTypeOK, Stocker
<1>6. \A u \in Stockers : ~Doing(u, "mail")' => stocker'[u].mailing = {}
  BY <1>2, <1>3 DEF Doing
<1>7. ASSUME ~hurried' PROVE MailingsInv'
  <2>1. MailingsInv /\ Mailing(w)
    BY <1>1, <1>2, <1>7 DEF Doing, Mailing
  <2>2. \A u \in Stockers \ {w} : ~Mailing(u) /\ ~Mailing(u)'
    BY <1>3, <2>1 DEF MailingsInv, Mailing
  <2>3. \A u \in Stockers \ {w}, v \in Visitors : ~MailedBy(u, v) /\ ~MailedBy(u, v)'
    BY <2>2 DEF MailedBy, Doing, Mailing
  <2>4. alert[x] = "pending" /\ ~MailedBy(w, x) /\ MailedBy(w, x)'
    BY <1>1, <1>2, <1>3, <2>1 DEF MailingsInv, MailedBy, Doing
  <2>5. \A v \in Visitors \ {x} : MailedBy(w, v)' <=> MailedBy(w, v)
    BY <1>1, <1>3 DEF MailedBy, Doing
  <2>6. \A v \in Visitors : mails[v] \in Nat
    BY DEF StockAlertsTypeOK
  <2>7. \A u \in Stockers, v \in Visitors : MailedBy(u, v)' => mails'[v] > 0
    BY <1>4, <2>1, <2>3, <2>4, <2>5, <2>6 DEF MailingsInv
  <2>8. \A v \in Visitors : alert'[v] = "notified" => mails'[v] > 0
    BY <1>1, <1>4, <2>1, <2>4 DEF MailingsInv
  <2>9. ASSUME stockersLost' = 0, NEW v \in Visitors
        PROVE  mails'[v] = IF alert'[v] = "notified" \/ \E u \in Stockers : MailedBy(u, v)' THEN 1 ELSE 0
    <3>1. mails[v] = IF alert[v] = "notified" \/ \E u \in Stockers : MailedBy(u, v) THEN 1 ELSE 0
      BY <1>1, <2>1, <2>9 DEF MailingsInv
    <3>2. CASE v = x
      BY <1>4, <2>3, <2>4, <3>1, <3>2
    <3>3. CASE v # x
      <4>1. (\E u \in Stockers : MailedBy(u, v)') <=> (\E u \in Stockers : MailedBy(u, v))
        BY <2>3, <2>5, <3>3
      <4> QED BY <1>1, <1>4, <3>1, <3>3, <4>1
    <3> QED BY <3>2, <3>3
  <2>10. \A u \in Stockers : Doing(u, "mail")' => \A v \in stocker'[u].mailing : alert'[v] = "pending"
    BY <1>1, <1>2, <1>3, <2>1, <2>2 DEF MailingsInv, Doing, Mailing
  <2>11. \A u, t \in Stockers : Mailing(u)' /\ Mailing(t)' => u = t
    BY <2>2
  <2> QED BY <2>7, <2>8, <2>9, <2>10, <2>11 DEF MailingsInv
<1> QED BY <1>5, <1>6, <1>7

LEMMA MarkInv ==
    ASSUME AlertsInv, NEW w \in Stockers, MarkNotified(w)
    PROVE  AlertsInv'
<1> USE DEF AlertsInv
<1>1. /\ Doing(w, "mail") /\ stocker[w].mailing = {} /\ stocker' = [stocker EXCEPT ![w] = Calm]
      /\ alert' = [v \in Visitors |-> IF v \in Pending THEN "notified" ELSE alert[v]]
      /\ UNCHANGED <<inStock, mails, saves, hurried, stockersLost>>
  BY DEF MarkNotified
<1>2. stocker' \in [Stockers -> Stocker] /\ stocker'[w] = Calm /\ \A u \in Stockers \ {w} : stocker'[u] = stocker[u]
  BY <1>1, CalmIsStocker DEF StockAlertsTypeOK, Stocker
<1>3. /\ alert' \in [Visitors -> {"none", "pending", "notified"}]
      /\ \A v \in Visitors : alert'[v] # "pending"
                             /\ (alert'[v] = "notified" <=> alert[v] \in {"pending", "notified"})
  BY <1>1 DEF StockAlertsTypeOK, Pending
<1>4. StockAlertsTypeOK'
  BY <1>1, <1>2, <1>3 DEF StockAlertsTypeOK, Stocker
<1>5. \A u \in Stockers : ~Doing(u, "mail")' => stocker'[u].mailing = {}
  BY <1>2, CalmIsStocker DEF Doing
<1>6. ASSUME ~hurried' PROVE MailingsInv'
  <2>1. MailingsInv /\ Mailing(w)
    BY <1>1, <1>6 DEF Doing, Mailing
  <2>2. \A u \in Stockers : ~Mailing(u)' /\ ~Doing(u, "mail")'
    BY <1>2, <2>1, CalmIsStocker DEF MailingsInv, Mailing, Doing
  <2>3. \A v \in Visitors : MailedBy(w, v) <=> alert[v] = "pending"
    BY <1>1 DEF MailedBy
  <2>4. \A u \in Stockers, v \in Visitors : ~MailedBy(u, v)'
    BY <2>2 DEF MailedBy
  <2>5. \A v \in Visitors : alert'[v] = "notified" => mails'[v] > 0
    BY <1>1, <1>3, <2>1, <2>3 DEF MailingsInv
  <2>6. ASSUME stockersLost' = 0, NEW v \in Visitors PROVE mails'[v] = IF alert'[v] = "notified" THEN 1 ELSE 0
    <3>1. mails[v] = IF alert[v] = "notified" \/ \E u \in Stockers : MailedBy(u, v) THEN 1 ELSE 0
      BY <1>1, <2>1, <2>6 DEF MailingsInv
    <3>2. (\E u \in Stockers : MailedBy(u, v)) <=> alert[v] = "pending"
      BY <2>3 DEF MailedBy
    <3> QED BY <1>1, <1>3, <3>1, <3>2
  <2> QED BY <2>2, <2>4, <2>5, <2>6 DEF MailingsInv
<1> QED BY <1>4, <1>5, <1>6

LEMMA AlertsStepInv == AlertsInv /\ [StockAlertsNext]_alertVars => AlertsInv'
<1> SUFFICES ASSUME AlertsInv, [StockAlertsNext]_alertVars PROVE AlertsInv'
  OBVIOUS
<1>1. CASE UNCHANGED alertVars
  BY <1>1 DEF alertVars, AlertsInv, StockAlertsTypeOK, MailingsInv, MailedBy, Doing, Mailing
<1>2. CASE SellOut
  BY <1>2 DEF SellOut, AlertsInv, StockAlertsTypeOK, MailingsInv, MailedBy, Doing, Mailing
<1>3. CASE StockAlertsNext
  BY <1>2, <1>3, SignUpInv, SavesInv, FetchInv, MailOneInv, MarkInv DEF StockAlertsNext
<1> QED BY <1>1, <1>3

LEMMA AlertsInvAnswered == AlertsInv => AlertsAnsweredOnce
<1> SUFFICES ASSUME AlertsInv, ~hurried
             PROVE  /\ \A v \in Visitors : alert[v] = "notified" => mails[v] > 0
                    /\ (stockersLost = 0 /\ \A w \in Stockers : ~Mailing(w)) =>
                            \A v \in Visitors : mails[v] = IF alert[v] = "notified" THEN 1 ELSE 0
  BY DEF AlertsAnsweredOnce
<1>1. MailingsInv
  BY DEF AlertsInv
<1>2. (\A w \in Stockers : ~Mailing(w)) => \A w \in Stockers, v \in Visitors : ~MailedBy(w, v)
  BY DEF Mailing, MailedBy, Doing
<1> QED BY <1>1, <1>2 DEF MailingsInv

-----------------------------------------------------------------------------
(* Listings                                                                *)

Product == [price : Nat, discount_price : Nat \union {Unset}, fees : Nat, stock_count : Nat, reserved_count : Nat]

\* The database filters a listing by a price of its own (effective_price in catalog/views.py), the
\* buyer is shown and charged Product.display_price (catalog/models.py): the two agree, so that what
\* is listed lies within the limits that were typed and can be bought when that was asked for, for
\* every catalogue, except for a product whose discount price is zero, which the form allows.
THEOREM ListedAtThePriceCharged ==
    ASSUME NEW products \in SUBSET Product, NEW least \in Nat \union {Unset}, NEW most \in Nat \union {Unset},
           NEW inStockOnly \in BOOLEAN, NEW p \in Listed(products, least, most, inStockOnly),
           p.discount_price # 0
    PROVE  /\ p \in products
           /\ least # Unset => ProductPrice(p) >= least
           /\ most # Unset => ProductPrice(p) <= most
           /\ inStockOnly => p.stock_count - p.reserved_count > 0
<1>1. p \in products /\ p \in Product
  BY DEF Listed
<1>2. EffectivePrice(p) = ProductPrice(p)
  <2>1. CASE p.discount_price = Unset
    BY <2>1 DEF EffectivePrice, ProductPrice, Inherited, Unset
  <2>2. CASE p.discount_price # Unset
    <3>1. p.discount_price > 0
      BY <1>1, <2>2 DEF Product, Unset
    <3> QED BY <2>2, <3>1 DEF EffectivePrice, ProductPrice, Inherited
  <2> QED BY <2>1, <2>2
<1>3. p.stock_count > p.reserved_count => p.stock_count - p.reserved_count > 0
  BY <1>1 DEF Product
<1> QED BY <1>1, <1>2, <1>3 DEF Listed

-----------------------------------------------------------------------------
(* Amounts, and the sums they are part of                                  *)

\* Rounding to the nearest misses by half at most.
LEMMA QuantizedIsNear ==
    ASSUME NEW n \in Int, NEW d \in Nat \ {0}
    PROVE  Quantized(n, d) \in Int /\ 2 * (d * Quantized(n, d) - n) \in -d..d
<1> DEFINE q == n \div d
           r == n % d
<1>1. q \in Int /\ r \in 0..(d - 1) /\ n = d * q + r
  OBVIOUS
<1> HIDE DEF q, r
<1>2. Quantized(n, d) = IF 2 * r > d \/ (2 * r = d /\ q % 2 = 1) THEN q + 1 ELSE q
  BY DEF Quantized, q, r
<1>3. d * (q + 1) = d * q + d /\ d * q \in Int
  BY <1>1
<1>4. CASE Quantized(n, d) = q
  <2>1. d * Quantized(n, d) - n = -r
    BY <1>1, <1>3, <1>4
  <2>2. 2 * r <= d
    BY <1>1, <1>2, <1>4
  <2> QED BY <1>1, <1>4, <2>1, <2>2
<1>5. CASE Quantized(n, d) = q + 1
  <2>1. d * Quantized(n, d) - n = d - r
    BY <1>1, <1>3, <1>5
  <2>2. 2 * r >= d
    BY <1>1, <1>2, <1>5
  <2> QED BY <1>1, <1>5, <2>1, <2>2
<1> QED BY <1>2, <1>4, <1>5

LEMMA QuantizedIsNat ==
    ASSUME NEW n \in Nat, NEW d \in Nat \ {0}
    PROVE  Quantized(n, d) \in Nat
<1>1. n \div d \in Nat
  OBVIOUS
<1> QED BY <1>1 DEF Quantized

LEMMA HalfIsNear ==
    ASSUME NEW t \in Int
    PROVE  Half(t) \in Int /\ 2 * Half(t) - t \in -1..1
<1>1. 2 \in Nat \ {0}
  OBVIOUS
<1>2. Half(t) \in Int /\ 2 * (2 * Half(t) - t) \in -2..2
  BY <1>1, QuantizedIsNear DEF Half
<1> QED BY <1>2

\* The promo takes off a tenth at most.
LEMMA PromoIsPart ==
    ASSUME NEW items \in Int, NEW subtotal \in Nat
    PROVE  auto_promo_discount(items, subtotal) \in 0..subtotal
<1> DEFINE share == Quantized(subtotal * AUTO_PROMO_PERCENT, 10000)
<1>1. share \in Nat /\ 2 * (10000 * share - subtotal * 1000) <= 10000
  <2>1. subtotal * AUTO_PROMO_PERCENT \in Nat /\ AUTO_PROMO_PERCENT = 1000
    BY DEF AUTO_PROMO_PERCENT
  <2> QED BY <2>1, QuantizedIsNear, QuantizedIsNat
<1> HIDE DEF share
<1>2. share <= subtotal
  BY <1>1
<1>3. auto_promo_discount(items, subtotal) \in {0, share, 5000} /\ auto_promo_discount(items, subtotal) <= share
  BY <1>1 DEF auto_promo_discount, Least, AUTO_PROMO_MAX_DISCOUNT, share
<1> QED BY <1>1, <1>2, <1>3

LEMMA OfferIsPart ==
    ASSUME NEW c \in Coupon, NEW subtotal \in Nat
    PROVE  calculate_discount(c, subtotal) \in 0..subtotal
<1> DEFINE share == Quantized(subtotal * c.value, 10000)
<1>0. c.value \in Nat /\ c.cap \in Nat \union {Unset}
  BY DEF Coupon
<1>1. share \in Nat
  <2>1. subtotal * c.value \in Nat
    BY <1>0
  <2> QED BY <2>1, QuantizedIsNat
<1> HIDE DEF share
<1> DEFINE off == IF ~c.percent THEN c.value ELSE IF c.cap = Unset THEN share ELSE Least(share, c.cap)
<1>2. off \in Nat
  BY <1>0, <1>1 DEF Least
<1>3. calculate_discount(c, subtotal) = Least(subtotal, off)
  BY DEF calculate_discount, share
<1> HIDE DEF off
<1> QED BY <1>2, <1>3 DEF Least

-----------------------------------------------------------------------------
LEMMA SubtotalIsSum ==
    ASSUME NEW S, IsFiniteSet(S)
    PROVE  Subtotal(S) = SumOver([l \in S |-> LineTotal(l)], S)
<1> DEFINE f == [l \in S |-> LineTotal(l)]
           P(g) == g = [s \in SUBSET S |-> IF s = {} THEN 0 ELSE LineTotal(Some(s)) + g[s \ {Some(s)}]]
<1>1. \A g : P(g) <=> Adds(g, f, S)
  <2>1. \A s \in SUBSET S : s # {} => f[Some(s)] = LineTotal(Some(s))
    BY SomeIsIn
  <2> HIDE DEF f
  <2> QED BY <2>1 DEF Adds
<1>2. P(CHOOSE g : P(g))
  BY <1>1, SumExists
<1>3. Adds(CHOOSE g : P(g), f, S) /\ Adds(CHOOSE g : Adds(g, f, S), f, S)
  BY <1>1, <1>2, SumAdds
<1>4. Subtotal(S) = (CHOOSE g : P(g))[S]
  BY DEF Subtotal, MapThenSumSet, MapThenFoldSet, Some
<1> HIDE DEF P, f
<1>5. (CHOOSE g : P(g))[S] = (CHOOSE g : Adds(g, f, S))[S]
  BY <1>3, SumUnique
<1> QED BY <1>4, <1>5 DEF SumOver, f

LEMMA TotalItemsIsSum ==
    ASSUME NEW S, IsFiniteSet(S)
    PROVE  TotalItems(S) = SumOver([l \in S |-> l.quantity], S)
<1> DEFINE f == [l \in S |-> l.quantity]
           P(g) == g = [s \in SUBSET S |-> IF s = {} THEN 0 ELSE Some(s).quantity + g[s \ {Some(s)}]]
<1>1. \A g : P(g) <=> Adds(g, f, S)
  <2>1. \A s \in SUBSET S : s # {} => f[Some(s)] = Some(s).quantity
    BY SomeIsIn
  <2> HIDE DEF f
  <2> QED BY <2>1 DEF Adds
<1>2. P(CHOOSE g : P(g))
  BY <1>1, SumExists
<1>3. Adds(CHOOSE g : P(g), f, S) /\ Adds(CHOOSE g : Adds(g, f, S), f, S)
  BY <1>1, <1>2, SumAdds
<1>4. TotalItems(S) = (CHOOSE g : P(g))[S]
  BY DEF TotalItems, MapThenSumSet, MapThenFoldSet, Some
<1> HIDE DEF P, f
<1>5. (CHOOSE g : P(g))[S] = (CHOOSE g : Adds(g, f, S))[S]
  BY <1>3, SumUnique
<1> QED BY <1>4, <1>5 DEF SumOver, f

LEMMA TaxIsSum ==
    ASSUME NEW S, IsFiniteSet(S)
    PROVE  MapThenSumSet(tax_amount, S) = SumOver([l \in S |-> tax_amount(l)], S)
<1> DEFINE f == [l \in S |-> tax_amount(l)]
           P(g) == g = [s \in SUBSET S |-> IF s = {} THEN 0 ELSE tax_amount(Some(s)) + g[s \ {Some(s)}]]
<1>1. \A g : P(g) <=> Adds(g, f, S)
  <2>1. \A s \in SUBSET S : s # {} => f[Some(s)] = tax_amount(Some(s))
    BY SomeIsIn
  <2> HIDE DEF f
  <2> QED BY <2>1 DEF Adds
<1>2. P(CHOOSE g : P(g))
  BY <1>1, SumExists
<1>3. Adds(CHOOSE g : P(g), f, S) /\ Adds(CHOOSE g : Adds(g, f, S), f, S)
  BY <1>1, <1>2, SumAdds
<1>4. MapThenSumSet(tax_amount, S) = (CHOOSE g : P(g))[S]
  BY DEF MapThenSumSet, MapThenFoldSet, Some
<1> HIDE DEF P, f
<1>5. (CHOOSE g : P(g))[S] = (CHOOSE g : Adds(g, f, S))[S]
  BY <1>3, SumUnique
<1> QED BY <1>4, <1>5 DEF SumOver, f

LEMMA TaxableIsSum ==
    ASSUME NEW S, IsFiniteSet(S)
    PROVE  MapThenSumSet(taxable_value, S) = SumOver([l \in S |-> taxable_value(l)], S)
<1> DEFINE f == [l \in S |-> taxable_value(l)]
           P(g) == g = [s \in SUBSET S |-> IF s = {} THEN 0 ELSE taxable_value(Some(s)) + g[s \ {Some(s)}]]
<1>1. \A g : P(g) <=> Adds(g, f, S)
  <2>1. \A s \in SUBSET S : s # {} => f[Some(s)] = taxable_value(Some(s))
    BY SomeIsIn
  <2> HIDE DEF f
  <2> QED BY <2>1 DEF Adds
<1>2. P(CHOOSE g : P(g))
  BY <1>1, SumExists
<1>3. Adds(CHOOSE g : P(g), f, S) /\ Adds(CHOOSE g : Adds(g, f, S), f, S)
  BY <1>1, <1>2, SumAdds
<1>4. MapThenSumSet(taxable_value, S) = (CHOOSE g : P(g))[S]
  BY DEF MapThenSumSet, MapThenFoldSet, Some
<1> HIDE DEF P, f
<1>5. (CHOOSE g : P(g))[S] = (CHOOSE g : Adds(g, f, S))[S]
  BY <1>3, SumUnique
<1> QED BY <1>4, <1>5 DEF SumOver, f

\* The tax of a line is its rate on the taxable value, to half a paisa.
LEMMA LineAmounts ==
    ASSUME NEW l, l.unit_price \in Nat, l.quantity \in Nat, l.gst_rate \in Nat
    PROVE  /\ LineTotal(l) \in Nat /\ tax_amount(l) \in Nat /\ taxable_value(l) \in Int
           /\ LineTotal(l) = taxable_value(l) + tax_amount(l)
           /\ 2 * (10000 * tax_amount(l) - l.gst_rate * taxable_value(l)) \in -(10000 + l.gst_rate)..(10000 + l.gst_rate)
<1> DEFINE t == LineTotal(l)
           g == l.gst_rate
           x == tax_amount(l)
<1>1. t \in Nat /\ g \in Nat /\ t * g \in Nat /\ 10000 + g \in Nat \ {0}
  BY DEF LineTotal
<1>2. x = Quantized(t * g, 10000 + g)
  BY DEF tax_amount
<1>3. taxable_value(l) = t - x
  BY DEF taxable_value
<1> HIDE DEF t, g, x
<1>4. x \in Nat /\ 2 * ((10000 + g) * x - t * g) \in -(10000 + g)..(10000 + g)
  BY <1>1, <1>2, QuantizedIsNear, QuantizedIsNat
<1>5. (10000 + g) * x - t * g = 10000 * x - g * (t - x)
  BY <1>1, <1>4
<1>6. t = (t - x) + x /\ t - x \in Int
  BY <1>1, <1>4
<1> QED BY <1>1, <1>3, <1>4, <1>5, <1>6 DEF t, g, x

\* An invoice: the halves of the tax miss it by a paisa, taxable value and tax make up the subtotal.
LEMMA InvoiceOf ==
    ASSUME NEW S, IsFiniteSet(S), \A l \in S : l.unit_price \in Nat /\ l.quantity \in Nat /\ l.gst_rate \in Nat,
           NEW total, NEW interstate \in BOOLEAN
    PROVE  LET i == InvoiceAmounts(S, total, interstate)
           IN  /\ i.cgst_amount + i.sgst_amount + i.igst_amount - i.total_tax \in -1..1
               /\ i.taxable_amount + i.total_tax = Subtotal(S)
               /\ i.total_amount = total /\ Subtotal(S) \in Nat
<1> DEFINE f == [l \in S |-> taxable_value(l)]
           e == [l \in S |-> tax_amount(l)]
           h == [l \in S |-> LineTotal(l)]
           tax == MapThenSumSet(tax_amount, S)
           i == InvoiceAmounts(S, total, interstate)
<1>1. \A x \in S : f[x] \in Int /\ e[x] \in Int /\ h[x] = f[x] + e[x] /\ h[x] \in Nat
  BY LineAmounts
<1>2. MapThenSumSet(taxable_value, S) = SumOver(f, S) /\ tax = SumOver(e, S) /\ Subtotal(S) = SumOver(h, S)
  BY SubtotalIsSum, TaxIsSum, TaxableIsSum
<1> HIDE DEF f, e, h
<1>3. SumOver(h, S) = SumOver(f, S) + SumOver(e, S) /\ SumOver(e, S) \in Int /\ SumOver(h, S) \in Nat
  BY <1>1, SumOfBoth, SumIsInt, SumIsNat
<1>4. /\ i.taxable_amount = MapThenSumSet(taxable_value, S) /\ i.total_tax = tax /\ i.total_amount = total
      /\ i.cgst_amount = (IF interstate THEN 0 ELSE Half(tax)) /\ i.sgst_amount = i.cgst_amount
      /\ i.igst_amount = IF interstate THEN tax ELSE 0
  BY DEF InvoiceAmounts
<1>5. Half(tax) \in Int /\ 2 * Half(tax) - tax \in -1..1 /\ tax \in Int
  <2>1. tax \in Int
    BY <1>2, <1>3
  <2> QED BY <2>1, HalfIsNear
<1> HIDE DEF i, tax
<1>6. i.cgst_amount + i.sgst_amount + i.igst_amount - i.total_tax \in -1..1
  <2>1. CASE interstate
    BY <1>4, <1>5, <2>1
  <2>2. CASE ~interstate
    BY <1>4, <1>5, <2>2
  <2> QED BY <2>1, <2>2
<1> QED BY <1>2, <1>3, <1>4, <1>6 DEF i

LEMMA ImageIsFinite ==
    ASSUME NEW S, IsFiniteSet(S), NEW f
    PROVE  IsFiniteSet({f[x] : x \in S})
<1> DEFINE P == {T \in SUBSET S : IsFiniteSet({f[x] : x \in T})}
<1>1. {} \in P
  BY FS_EmptySet
<1>2. ASSUME NEW T \in SUBSET S, NEW x \in S \ T, T \in P PROVE T \union {x} \in P
  <2>1. {f[y] : y \in T \union {x}} = {f[y] : y \in T} \union {f[x]}
    OBVIOUS
  <2> DEFINE W == {f[y] : y \in T}
  <2>2. IsFiniteSet(W)
    BY <1>2
  <2> HIDE DEF W
  <2>3. IsFiniteSet(W \union {f[x]})
    BY <2>2, FS_AddElement
  <2> QED BY <2>1, <2>3 DEF W
<1> HIDE DEF P
<1>3. S \in P
  BY <1>1, <1>2, SubsetInduction
<1> QED BY <1>3 DEF P

LEMMA TotalOfNothing == TotalItems({}) = 0
<1>1. IsFiniteSet({})
  BY FS_EmptySet
<1> QED BY <1>1, TotalItemsIsSum, SumOfNothing

LEMMA TotalIsInt ==
    ASSUME NEW S, IsFiniteSet(S), \A l \in S : l.quantity \in Int
    PROVE  TotalItems(S) \in Int
<1> DEFINE f == [l \in S |-> l.quantity]
<1>1. \A l \in S : f[l] \in Int
  OBVIOUS
<1>2. TotalItems(S) = SumOver(f, S)
  BY TotalItemsIsSum
<1> HIDE DEF f
<1> QED BY <1>1, <1>2, SumIsInt

LEMMA TotalWith ==
    ASSUME NEW S, IsFiniteSet(S), NEW x, x \notin S, \A l \in S \union {x} : l.quantity \in Int
    PROVE  TotalItems(S \union {x}) = x.quantity + TotalItems(S)
<1> DEFINE f == [l \in S |-> l.quantity]
           e == [l \in S \union {x} |-> l.quantity]
<1>1. (\A l \in S \union {x} : e[l] \in Int) /\ e[x] = x.quantity /\ \A l \in S : e[l] = f[l]
  OBVIOUS
<1>2. IsFiniteSet(S \union {x})
  BY FS_AddElement
<1>3. TotalItems(S) = SumOver(f, S) /\ TotalItems(S \union {x}) = SumOver(e, S \union {x})
  BY <1>2, TotalItemsIsSum
<1> HIDE DEF f, e
<1>4. SumOver(e, S) = SumOver(f, S)
  BY <1>1, SumSame
<1>5. SumOver(e, S \union {x}) = e[x] + SumOver(e, S)
  BY <1>1, SumWith
<1> QED BY <1>1, <1>3, <1>4, <1>5

\* The units of a product in a set of lines
LEMMA UnitsOfNothing == ASSUME NEW g PROVE UnitsIn({}, g) = 0
<1>1. {l \in {} : l.good = g} = {}
  OBVIOUS
<1> QED BY <1>1, TotalOfNothing DEF UnitsIn

LEMMA UnitsAreInt ==
    ASSUME NEW S, IsFiniteSet(S), \A l \in S : l.quantity \in Int, NEW g
    PROVE  UnitsIn(S, g) \in Int
<1>1. IsFiniteSet({l \in S : l.good = g})
  BY FS_Subset
<1> QED BY <1>1, TotalIsInt DEF UnitsIn

LEMMA UnitsWith ==
    ASSUME NEW S, IsFiniteSet(S), NEW x, x \notin S, \A l \in S \union {x} : l.quantity \in Int, NEW g
    PROVE  UnitsIn(S \union {x}, g) = UnitsIn(S, g) + IF x.good = g THEN x.quantity ELSE 0
<1> DEFINE T == {l \in S : l.good = g}
           U == {l \in S \union {x} : l.good = g}
<1>1. IsFiniteSet(T) /\ x \notin T /\ (\A l \in T \union {x} : l.quantity \in Int)
  BY FS_Subset
<1>2. UnitsIn(S, g) = TotalItems(T) /\ UnitsIn(S \union {x}, g) = TotalItems(U)
  BY DEF UnitsIn
<1>3. U = IF x.good = g THEN T \union {x} ELSE T
  OBVIOUS
<1> HIDE DEF T, U
<1>4. TotalItems(T) \in Int /\ x.quantity \in Int /\ TotalItems(T \union {x}) = x.quantity + TotalItems(T)
  BY <1>1, TotalIsInt, TotalWith
<1> QED BY <1>2, <1>3, <1>4

-----------------------------------------------------------------------------
(* Carts and checkouts                                                     *)

CheckingOut == {"promo", "form", "offer", "place", "commit"}

\* What a request may be.
Request ==
    [step : {"idle", "insert", "save"} \union CheckingOut, shopper : {"nobody"} \union Shoppers, line : CartLines,
     items : SUBSET Items, auto : Nat, coupon : SUBSET {Voucher}, offer : Nat, subtotal : Nat,
     stirred : BOOLEAN, late : BOOLEAN]

Order ==
    [number : 0..(MaxOrders - 1), shopper : Shoppers, items : SUBSET Items, subtotal : Nat, discount : Nat,
     redeemed : BOOLEAN, stirred : BOOLEAN, late : BOOLEAN, before : Nat, own : Nat]

CartLine == [row : 1..rows, shopper : Shoppers, good : Goods, quantity : 1..MaxQuantity]

Inserting == {r \in Requests : Serving(r, "insert")}

\* The lines of the carts and those that a request is about to write over.
Known == cart \union {request[r].line : r \in {q \in Requests : Serving(q, "save")}}

\* Rows are numbered apart and belong to one buyer and product for good; every row was inserted by a
\* request that touched a line, and those that are about to are counted too.
CartInv ==
    /\ rows \in 0..MaxTouches /\ touches \in 0..MaxTouches
    /\ IsFiniteSet(Inserting) /\ rows + Cardinality(Inserting) <= touches
    /\ cart \in SUBSET CartLine /\ IsFiniteSet(cart)
    /\ \A l, m \in cart : l.row = m.row => l = m
    /\ \A l, m \in Known : l.row = m.row => l.shopper = m.shopper /\ l.good = m.good
    /\ listing \in [Goods -> PriceLists] /\ repricings \in 0..MaxRepricings
    /\ asked \in [Shoppers -> [Goods -> Int]] /\ tangled \in SUBSET Shoppers

\* What a request holds at each step.
RequestInv(q) ==
    /\ q \in Request /\ IsFiniteSet(q.items)
    /\ q.step = "idle" <=> q.shopper = "nobody"
    /\ q.step = "insert" => q.line.good \in Goods /\ q.line.quantity \in 1..MaxQuantity
    /\ q.step = "save" => q.line.row \in 1..rows /\ q.line.shopper = q.shopper /\ q.line.good \in Goods

OrderInv ==
    /\ orders \in SUBSET Order /\ IsFiniteSet(orders)
    /\ \A o \in orders : o.number < Cardinality(orders) /\ IsFiniteSet(o.items)

\* A request that nobody disturbed: what it has read is still true, and what it has reckoned is right.
ChargedInv(q) ==
    ~q.stirred =>
        /\ q.step \in {"promo", "form", "offer", "place"} => q.items = Priced(q.shopper)
        /\ q.step \in {"form", "offer", "place", "commit"} =>
                q.auto = auto_promo_discount(TotalItems(q.items), Subtotal(q.items))
        /\ q.step \in {"place", "commit"} => q.offer <= Subtotal(q.items)
        /\ q.step = "commit" => q.subtotal = Subtotal(q.items)

\* Past the form the limits leave room for the redemption, unless another was written since.
RoomInv(q) ==
    q.step \in PastTheForm /\ q.coupon # {} /\ ~q.late =>
        /\ Within(Cardinality(Redemptions), Voucher.usage_limit, Unset)
        /\ Within(Cardinality(RedeemedBy(q.shopper)), Voucher.per_user_limit, 0)

\* What a running request will still change of the units of g.
Due(q, g) ==
    IF q.line.good # g THEN 0
    ELSE IF q.step = "insert" THEN q.line.quantity
    ELSE IF q.step = "save" THEN q.line.quantity - UnitsIn(LinesOf(q.shopper), g)
    ELSE 0

\* The only request of s: the line it will insert is not there yet, the one it will save still is, and
\* what it orders is what is in the cart.
AloneInv(s, q) ==
    /\ q.step = "insert" => \A l \in LinesOf(s) : l.good # q.line.good
    /\ q.step = "save" => \E l \in LinesOf(s) : l.row = q.line.row
    /\ q.step \in CheckingOut => \A g \in Goods : UnitsIn(q.items, g) = UnitsIn(LinesOf(s), g)
    /\ \A g \in Goods : UnitsIn(LinesOf(s), g) + OrderedBy(s, g) + Due(q, g) = asked[s][g]

\* A buyer whose requests never overlapped has one request at most, one line of a product, and what was
\* asked for is in the cart, in the orders, or what the request will change.
UnitsInv(s) ==
    /\ \A q, r \in Requests : request[q].shopper = s /\ request[r].shopper = s => q = r
    /\ \A l, m \in LinesOf(s) : l.good = m.good => l = m
    /\ \A r \in Requests : request[r].shopper = s => AloneInv(s, request[r])
    /\ (\A r \in Requests : request[r].shopper # s) =>
            \A g \in Goods : UnitsIn(LinesOf(s), g) + OrderedBy(s, g) = asked[s][g]

CheckoutsInv ==
    /\ CartInv /\ OrderInv
    /\ DOMAIN request = Requests
    /\ \A r \in Requests : RequestInv(request[r]) /\ ChargedInv(request[r]) /\ RoomInv(request[r])
    /\ \A s \in Shoppers \ tangled : UnitsInv(s)
    /\ OrdersChargeTheirItems /\ CouponLimitsHold

-----------------------------------------------------------------------------
(* What follows of it                                                      *)

LEMMA ItemsFacts ==
    ASSUME NEW S \in SUBSET Items, IsFiniteSet(S)
    PROVE  Subtotal(S) \in Nat /\ TotalItems(S) \in Int /\ \A g : UnitsIn(S, g) \in Int
<1>1. \A l \in S : l.unit_price \in Nat /\ l.quantity \in Nat /\ l.quantity \in Int /\ l.gst_rate \in Nat
  BY CheckoutsAssumption DEF Items
<1>2. Subtotal(S) \in Nat
  <2>1. TRUE \in BOOLEAN
    OBVIOUS
  <2> QED BY <1>1, <2>1, InvoiceOf
<1> QED BY <1>1, <1>2, TotalIsInt, UnitsAreInt

LEMMA LinesFacts ==
    ASSUME CartInv, NEW s
    PROVE  /\ IsFiniteSet(LinesOf(s)) /\ \A l \in LinesOf(s) : l \in CartLine /\ l.quantity \in Int
           /\ \A g : UnitsIn(LinesOf(s), g) \in Int
<1>1. IsFiniteSet(LinesOf(s))
  BY FS_Subset DEF LinesOf, CartInv
<1>2. \A l \in LinesOf(s) : l \in CartLine /\ l.quantity \in Int
  <2>1. MaxQuantity \in Nat
    BY CheckoutsAssumption
  <2> QED BY <2>1 DEF CartInv, CartLine, LinesOf
<1> QED BY <1>1, <1>2, UnitsAreInt

\* The items of a set of lines
ItemOf(l) ==
    [row |-> l.row, good |-> l.good, quantity |-> l.quantity, unit_price |-> UnitPrice(listing[l.good]),
     gst_rate |-> listing[l.good].gst_rate]

LEMMA PricedFacts ==
    ASSUME CartInv, NEW s
    PROVE  /\ Priced(s) \in SUBSET Items /\ IsFiniteSet(Priced(s))
           /\ \A g \in Goods : UnitsIn(Priced(s), g) = UnitsIn(LinesOf(s), g)
<1> DEFINE f == [l \in LinesOf(s) |-> ItemOf(l)]
           ItemsOf(T) == {f[l] : l \in T}
           P == {T \in SUBSET LinesOf(s) : \A g \in Goods : UnitsIn(ItemsOf(T), g) = UnitsIn(T, g)}
<1>1. Priced(s) = ItemsOf(LinesOf(s))
  BY DEF Priced, ItemOf
<1>2. \A l \in LinesOf(s) : f[l] \in Items /\ f[l].row = l.row /\ f[l].good = l.good /\ f[l].quantity = l.quantity
  <2> TAKE l \in LinesOf(s)
  <2>1. l \in CartLine
    BY LinesFacts
  <2>2. listing[l.good] \in PriceLists
    BY <2>1 DEF CartInv, CartLine
  <2>3. UnitPrice(listing[l.good]) \in Nat /\ listing[l.good].gst_rate \in Nat
    BY <2>2, CheckoutsAssumption
  <2>4. l.row \in 1..MaxTouches
    BY <2>1, CheckoutsAssumption DEF CartInv, CartLine
  <2> QED BY <2>1, <2>3, <2>4 DEF Items, CartLine, ItemOf
<1>3. Priced(s) \in SUBSET Items
  BY <1>1, <1>2
<1> HIDE DEF f
<1>4. \A T \in SUBSET LinesOf(s) : IsFiniteSet(T) /\ IsFiniteSet(ItemsOf(T))
  <2> TAKE T \in SUBSET LinesOf(s)
  <2>1. IsFiniteSet(T)
    BY LinesFacts, FS_Subset
  <2> QED BY <2>1, ImageIsFinite
<1>5. {} \in P
  <2>1. ItemsOf({}) = {}
    OBVIOUS
  <2> QED BY <2>1
<1>6. ASSUME NEW T \in SUBSET LinesOf(s), NEW x \in LinesOf(s) \ T, T \in P PROVE T \union {x} \in P
  <2>1. ItemsOf(T \union {x}) = ItemsOf(T) \union {f[x]}
    OBVIOUS
  <2>2. f[x] \notin ItemsOf(T)
    <3>1. \A l \in T : l.row # x.row
      BY DEF CartInv, LinesOf
    <3> QED BY <1>2, <3>1
  <2>3. (\A l \in T \union {x} : l.quantity \in Int) /\ \A i \in ItemsOf(T) \union {f[x]} : i.quantity \in Int
    BY <1>2, LinesFacts
  <2>4. IsFiniteSet(T) /\ IsFiniteSet(ItemsOf(T))
    BY <1>4
  <2>5. \A g \in Goods : UnitsIn(ItemsOf(T), g) = UnitsIn(T, g)
    BY <1>6
  <2>6. f[x].good = x.good /\ f[x].quantity = x.quantity
    BY <1>2
  <2> HIDE DEF ItemsOf
  <2>7. ASSUME NEW g \in Goods PROVE UnitsIn(ItemsOf(T \union {x}), g) = UnitsIn(T \union {x}, g)
    <3>1. UnitsIn(T \union {x}, g) = UnitsIn(T, g) + IF x.good = g THEN x.quantity ELSE 0
      BY <2>3, <2>4, UnitsWith
    <3>2. UnitsIn(ItemsOf(T) \union {f[x]}, g) = UnitsIn(ItemsOf(T), g) + IF f[x].good = g THEN f[x].quantity ELSE 0
      BY <2>2, <2>3, <2>4, UnitsWith
    <3> QED BY <2>1, <2>5, <2>6, <3>1, <3>2
  <2> QED BY <2>7
<1> HIDE DEF P
<1>7. LinesOf(s) \in P
  BY <1>5, <1>6, LinesFacts, SubsetInduction
<1>8. IsFiniteSet(Priced(s))
  BY <1>1, <1>4
<1> QED BY <1>1, <1>3, <1>7, <1>8 DEF P

\* What s ordered of g in a set of orders
OrderedIn(O, s, g) == TotalItems({[row |-> o.number, quantity |-> UnitsIn(o.items, g)] : o \in {p \in O : p.shopper = s}})

LEMMA OrderedWith ==
    ASSUME OrderInv, NEW o \in Order, o.number = Cardinality(orders), IsFiniteSet(o.items), NEW s, NEW g
    PROVE  /\ OrderedIn(orders, s, g) \in Int
           /\ OrderedIn(orders \union {o}, s, g)
                = OrderedIn(orders, s, g) + IF o.shopper = s THEN UnitsIn(o.items, g) ELSE 0
<1> DEFINE f == [p \in orders \union {o} |-> [row |-> p.number, quantity |-> UnitsIn(p.items, g)]]
           S == {p \in orders : p.shopper = s}
           T == {p \in orders \union {o} : p.shopper = s}
           A == {f[p] : p \in S}
           B == {f[p] : p \in T}
<1>1. \A p \in orders \union {o} : f[p].row = p.number /\ f[p].quantity = UnitsIn(p.items, g) /\ f[p].quantity \in Int
  <2>1. \A p \in orders \union {o} : p.items \in SUBSET Items /\ IsFiniteSet(p.items)
    BY DEF OrderInv, Order
  <2> QED BY <2>1, ItemsFacts
<1>2. OrderedIn(orders, s, g) = TotalItems(A) /\ OrderedIn(orders \union {o}, s, g) = TotalItems(B)
  BY DEF OrderedIn
<1>3. IsFiniteSet(A)
  <2>1. IsFiniteSet(S)
    BY FS_Subset DEF OrderInv
  <2> HIDE DEF f, S
  <2> QED BY <2>1, ImageIsFinite
<1> HIDE DEF f
<1>4. (\A i \in A \union {f[o]} : i.quantity \in Int) /\ f[o].quantity = UnitsIn(o.items, g)
  BY <1>1
<1>5. f[o] \notin A
  <2>1. \A p \in orders : p.number < Cardinality(orders) /\ p.number \in Int
    BY DEF OrderInv, Order
  <2> QED BY <1>1, <2>1, FS_CardinalityType DEF OrderInv
<1>6. B = IF o.shopper = s THEN A \union {f[o]} ELSE A
  OBVIOUS
<1> HIDE DEF A, B
<1>7. TotalItems(A) \in Int /\ TotalItems(A \union {f[o]}) = f[o].quantity + TotalItems(A) /\ f[o].quantity \in Int
  BY <1>3, <1>4, <1>5, TotalIsInt, TotalWith
<1> QED BY <1>2, <1>4, <1>6, <1>7

LEMMA OrderedIsInt ==
    ASSUME OrderInv, NEW s, NEW g
    PROVE  OrderedBy(s, g) \in Int
<1> DEFINE f == [o \in orders |-> [row |-> o.number, quantity |-> UnitsIn(o.items, g)]]
           A == {f[o] : o \in {p \in orders : p.shopper = s}}
<1>1. \A o \in orders : f[o].quantity \in Int
  <2>1. \A o \in orders : o.items \in SUBSET Items /\ IsFiniteSet(o.items)
    BY DEF OrderInv, Order
  <2> QED BY <2>1, ItemsFacts
<1>2. OrderedBy(s, g) = TotalItems(A)
  BY DEF OrderedBy
<1>3. IsFiniteSet(A)
  <2>1. IsFiniteSet({p \in orders : p.shopper = s})
    BY FS_Subset DEF OrderInv
  <2> HIDE DEF f
  <2> QED BY <2>1, ImageIsFinite
<1>4. \A i \in A : i.quantity \in Int
  BY <1>1
<1> HIDE DEF A
<1> QED BY <1>2, <1>3, <1>4, TotalIsInt

-----------------------------------------------------------------------------
(* Steps                                                                   *)

LEMMA QuietIsRequest == Quiet \in Request /\ Quiet.step = "idle" /\ Quiet.shopper = "nobody" /\ RequestInv(Quiet)
<1>1. NoLine \in CartLines
  BY CheckoutsAssumption DEF NoLine, CartLines
<1>2. Quiet \in Request /\ Quiet.step = "idle" /\ Quiet.shopper = "nobody" /\ Quiet.items = {}
  BY <1>1 DEF Quiet, Request, CheckingOut
<1> QED BY <1>2, FS_EmptySet DEF RequestInv

LEMMA QuietIsFine == ChargedInv(Quiet) /\ RoomInv(Quiet)
BY QuietIsRequest DEF ChargedInv, RoomInv, PastTheForm

\* While cart, prices and orders stand still, what a request knows stays true.
LEMMA StandsStill ==
    ASSUME UNCHANGED <<cart, rows, listing, orders>>, NEW r \in Requests, NEW w, request'[r] = w,
           RequestInv(w), ChargedInv(w), RoomInv(w)
    PROVE  RequestInv(request[r])' /\ ChargedInv(request[r])' /\ RoomInv(request[r])'
<1>1. RequestInv(request[r])'
  BY DEF RequestInv
<1>2. ChargedInv(request[r])'
  BY DEF ChargedInv, Priced, LinesOf
<1>3. RoomInv(request[r])'
  BY DEF RoomInv, Redemptions, RedeemedBy
<1> QED BY <1>1, <1>2, <1>3

\* The same for what a buyer has and gets.
LEMMA UnitsStay ==
    ASSUME NEW s, UnitsInv(s), LinesOf(s)' = LinesOf(s), \A g \in Goods : OrderedBy(s, g)' = OrderedBy(s, g),
           asked'[s] = asked[s],
           \A r \in Requests : request'[r].shopper = s <=> request[r].shopper = s,
           \A r \in Requests : request[r].shopper = s =>
                /\ request'[r].step = request[r].step /\ request'[r].line = request[r].line
                /\ request'[r].items = request[r].items
    PROVE  UnitsInv(s)'
<1>1. ASSUME NEW r \in Requests, request'[r].shopper = s PROVE AloneInv(s, request[r])'
  <2>1. /\ AloneInv(s, request[r]) /\ request[r].shopper = s
        /\ request'[r].step = request[r].step /\ request'[r].line = request[r].line /\ request'[r].items = request[r].items
    BY <1>1 DEF UnitsInv
  <2>2. \A g \in Goods : Due(request[r], g)' = Due(request[r], g)
    BY <1>1, <2>1 DEF Due
  <2> QED BY <2>1, <2>2 DEF AloneInv
<1> QED BY <1>1 DEF UnitsInv

LEMMA UnitsStandStill ==
    ASSUME UNCHANGED <<cart, orders>>, NEW s, asked'[s] = asked[s], UnitsInv(s),
           \A r \in Requests : request'[r].shopper = s <=> request[r].shopper = s,
           \A r \in Requests : request[r].shopper = s => request'[r] = request[r]
    PROVE  UnitsInv(s)'
<1>1. LinesOf(s)' = LinesOf(s)
  BY DEF LinesOf
<1>2. \A g \in Goods : OrderedBy(s, g)' = OrderedBy(s, g)
  BY DEF OrderedBy
<1> QED BY <1>1, <1>2, UnitsStay

\* Prices, carts and orders stand still, and a request of the checkout comes a step further or ends.
LEMMA ContinuesInv ==
    ASSUME CheckoutsInv, NEW r \in Requests, request[r].step \in CheckingOut,
           NEW c, Continues(r, c), RequestInv(c), ChargedInv(c), RoomInv(c),
           c = Quiet \/ (c.step \in CheckingOut /\ c.shopper = request[r].shopper /\ c.items = request[r].items
                            /\ c.line = request[r].line)
    PROVE  CheckoutsInv'
<1> USE DEF Continues
<1>1. request'[r] = c /\ (\A q \in Requests : q # r => request'[q] = request[q]) /\ DOMAIN request' = Requests
  BY DEF CheckoutsInv
<1>2. c.step \notin {"insert", "save"} /\ request[r].step \notin {"insert", "save"}
  BY QuietIsRequest DEF CheckingOut
<1>3. CartInv'
  <2>1. Inserting' = Inserting
    BY <1>1, <1>2 DEF Inserting, Serving
  <2>2. Known' = Known
    BY <1>1, <1>2 DEF Known, Serving
  <2> QED BY <2>1, <2>2 DEF CheckoutsInv, CartInv, CartLine
<1>4. OrderInv' /\ OrdersChargeTheirItems' /\ CouponLimitsHold'
  BY DEF CheckoutsInv, OrderInv, OrdersChargeTheirItems, CouponLimitsHold, Redemptions
<1>5. ASSUME NEW q \in Requests PROVE RequestInv(request[q])' /\ ChargedInv(request[q])' /\ RoomInv(request[q])'
  <2>1. CASE q = r
    BY <1>1, <2>1, StandsStill
  <2>2. CASE q # r
    BY <1>1, <2>2, StandsStill DEF CheckoutsInv
  <2> QED BY <2>1, <2>2
<1>6. ASSUME NEW s \in Shoppers \ tangled PROVE UnitsInv(s)'
  <2>0. UnitsInv(s) /\ s # "nobody"
    BY CheckoutsAssumption DEF CheckoutsInv
  <2>1. CASE request[r].shopper # s
    <3>1. c.shopper # s
      BY <2>0, <2>1, QuietIsRequest
    <3> QED BY <1>1, <2>0, <2>1, <3>1, UnitsStandStill
  <2>2. CASE request[r].shopper = s
    <3>1. LinesOf(s)' = LinesOf(s)
      BY DEF LinesOf
    <3>2. \A g \in Goods : OrderedBy(s, g)' = OrderedBy(s, g)
      BY DEF OrderedBy
    <3>3. AloneInv(s, request[r]) /\ \A q \in Requests \ {r} : request[q].shopper # s /\ request'[q].shopper # s
      BY <1>1, <2>0, <2>2 DEF UnitsInv
    <3>4. \A g \in Goods : OrderedBy(s, g) \in Int /\ UnitsIn(LinesOf(s), g) \in Int
      BY OrderedIsInt, LinesFacts DEF CheckoutsInv
    <3>5. \A g \in Goods : UnitsIn(LinesOf(s), g) + OrderedBy(s, g) = asked[s][g]
      <4>1. \A g \in Goods : Due(request[r], g) = 0
        BY <1>2 DEF Due
      <4> QED BY <3>3, <3>4, <4>1 DEF AloneInv
    <3>6. CASE c = Quiet
      <4>1. \A q \in Requests : request'[q].shopper # s
        BY <1>1, <2>0, <3>3, <3>6, QuietIsRequest
      <4> QED BY <2>0, <3>1, <3>2, <3>5, <4>1 DEF UnitsInv
    <3>7. CASE c # Quiet
      <4>1. \A g \in Goods : Due(request[r], g)' = 0
        BY <1>1, <1>2 DEF Due
      <4>2. AloneInv(s, request[r])'
        BY <1>1, <1>2, <3>1, <3>2, <3>3, <3>4, <3>5, <3>7, <4>1 DEF AloneInv
      <4>3. request'[r].shopper = s
        BY <1>1, <2>2, <3>7
      <4> QED BY <2>0, <3>1, <3>3, <4>2, <4>3 DEF UnitsInv
    <3> QED BY <3>6, <3>7
  <2> QED BY <2>1, <2>2
<1> QED BY <1>1, <1>3, <1>4, <1>5, <1>6 DEF CheckoutsInv

LEMMA ReckonInv ==
    ASSUME CheckoutsInv, NEW r \in Requests,
           ReadPromo(r) \/ clean_coupon_code(r) \/ ReadOffer(r) \/ ReadSubtotal(r) \/ Refused(r)
    PROVE  CheckoutsInv'
<1> DEFINE q == request[r]
           now == Priced(q.shopper)
           C(step, auto, offer, subtotal) ==
                [q EXCEPT !.step = step, !.auto = auto, !.offer = offer, !.subtotal = subtotal]
<1>1. RequestInv(q) /\ ChargedInv(q) /\ RoomInv(q) /\ q \in Request /\ IsFiniteSet(q.items)
  BY DEF CheckoutsInv, RequestInv
<1>2. q.auto \in Nat /\ q.offer \in Nat /\ q.subtotal \in Nat
  BY <1>1 DEF Request
<1>3. Subtotal(now) \in Nat /\ TotalItems(now) \in Int
  BY PricedFacts, ItemsFacts DEF CheckoutsInv
<1>4. \A step \in CheckingOut : Serving(r, step) => q.step = step
  BY DEF Serving
<1>5. ASSUME NEW c \in Request, c.step \in CheckingOut, q.step \in CheckingOut,
             c.shopper = q.shopper, c.items = q.items, c.line = q.line,
             Continues(r, c), ChargedInv(c), RoomInv(c)
      PROVE  CheckoutsInv'
  <2>1. c.step \notin {"idle", "insert", "save"} /\ q.step \notin {"idle", "insert", "save"}
    BY <1>5 DEF CheckingOut
  <2>2. RequestInv(c)
    BY <1>1, <1>5, <2>1 DEF RequestInv
  <2> QED BY <1>5, <2>2, ContinuesInv DEF q
<1> HIDE DEF q, now, C
<1>6. CASE ReadPromo(r)
  <2> DEFINE auto == auto_promo_discount(TotalItems(now), Subtotal(now))
             c == C("form", auto, q.offer, q.subtotal)
  <2>1. auto \in Nat
    BY <1>3, PromoIsPart
  <2>2. q.step = "promo" /\ Continues(r, c)
    <3>1. c = [q EXCEPT !.step = "form", !.auto = auto]
      BY <1>1, <1>2 DEF C, Request
    <3> QED BY <1>4, <1>6, <3>1 DEF ReadPromo, q, now, CheckingOut
  <2> HIDE DEF auto
  <2>3. /\ c.step = "form" /\ c.auto = auto /\ c.shopper = q.shopper /\ c.items = q.items /\ c.stirred = q.stirred
        /\ c \in Request /\ c.line = q.line
    BY <1>1, <1>2, <2>1 DEF C, Request, CheckingOut
  <2>4. ChargedInv(c)
    <3> HIDE DEF c
    <3>1. ~q.stirred => q.items = now
      BY <1>1, <2>2 DEF ChargedInv, now
    <3> QED BY <2>3, <3>1 DEF ChargedInv, now, auto
  <2>5. RoomInv(c)
    BY <2>3 DEF RoomInv, PastTheForm
  <2> HIDE DEF c
  <2> QED BY <1>5, <2>2, <2>3, <2>4, <2>5 DEF CheckingOut
<1>7. CASE clean_coupon_code(r)
  <2> DEFINE c == C("offer", q.auto, q.offer, q.subtotal)
  <2>1. q.step = "form" /\ Continues(r, c) /\ (q.coupon # {} => validate_for(q.shopper, Subtotal(now)))
    <3>1. c = [q EXCEPT !.step = "offer"]
      BY <1>1, <1>2 DEF C, Request
    <3> QED BY <1>4, <1>7, <3>1 DEF clean_coupon_code, q, now, CheckingOut
  <2>2. /\ c.step = "offer" /\ c.auto = q.auto /\ c.shopper = q.shopper /\ c.items = q.items /\ c.stirred = q.stirred
        /\ c.coupon = q.coupon /\ c \in Request /\ c.line = q.line
    BY <1>1, <1>2 DEF C, Request, CheckingOut
  <2>3. ChargedInv(c)
    <3> HIDE DEF c
    <3> QED BY <1>1, <2>1, <2>2 DEF ChargedInv
  <2>4. RoomInv(c)
    <3> HIDE DEF c
    <3> QED BY <2>1, <2>2 DEF RoomInv, validate_for
  <2> HIDE DEF c
  <2> QED BY <1>5, <2>1, <2>2, <2>3, <2>4 DEF CheckingOut
<1>8. CASE ReadOffer(r)
  <2> DEFINE offer == IF q.coupon = {} THEN 0 ELSE calculate_discount(Voucher, Subtotal(now))
             c == C("place", q.auto, offer, q.subtotal)
  <2>1. offer \in 0..Subtotal(now) /\ offer \in Nat
    BY <1>3, OfferIsPart, CheckoutsAssumption
  <2>2. q.step = "offer" /\ Continues(r, c)
    <3>1. c = [q EXCEPT !.step = "place", !.offer = offer]
      BY <1>1, <1>2 DEF C, Request
    <3> QED BY <1>4, <1>8, <3>1 DEF ReadOffer, q, now, CheckingOut
  <2> HIDE DEF offer
  <2>3. /\ c.step = "place" /\ c.auto = q.auto /\ c.shopper = q.shopper /\ c.items = q.items /\ c.stirred = q.stirred
        /\ c.coupon = q.coupon /\ c.offer = offer /\ c.late = q.late
        /\ c \in Request /\ c.line = q.line
    BY <1>1, <1>2, <2>1 DEF C, Request, CheckingOut
  <2>4. ChargedInv(c)
    <3> HIDE DEF c
    <3>1. ~q.stirred => q.items = now
      BY <1>1, <2>2 DEF ChargedInv, now
    <3> QED BY <1>1, <1>3, <2>1, <2>2, <2>3, <3>1 DEF ChargedInv
  <2>5. RoomInv(c)
    <3> HIDE DEF c
    <3> QED BY <1>1, <2>2, <2>3 DEF RoomInv, PastTheForm
  <2> HIDE DEF c
  <2> QED BY <1>5, <2>2, <2>3, <2>4, <2>5 DEF CheckingOut
<1>9. CASE ReadSubtotal(r)
  <2> DEFINE c == C("commit", q.auto, q.offer, Subtotal(now))
  <2>1. q.step = "place" /\ Continues(r, c)
    <3>1. c = [q EXCEPT !.step = "commit", !.subtotal = Subtotal(now)]
      BY <1>1, <1>2 DEF C, Request
    <3> QED BY <1>4, <1>9, <3>1 DEF ReadSubtotal, q, now, CheckingOut
  <2>2. /\ c.step = "commit" /\ c.auto = q.auto /\ c.shopper = q.shopper /\ c.items = q.items /\ c.stirred = q.stirred
        /\ c.coupon = q.coupon /\ c.offer = q.offer /\ c.late = q.late /\ c.subtotal = Subtotal(now)
        /\ c \in Request /\ c.line = q.line
    BY <1>1, <1>2, <1>3 DEF C, Request, CheckingOut
  <2>3. ChargedInv(c)
    <3> HIDE DEF c
    <3>1. ~q.stirred => q.items = now
      BY <1>1, <2>1 DEF ChargedInv, now
    <3> QED BY <1>1, <2>1, <2>2, <3>1 DEF ChargedInv
  <2>4. RoomInv(c)
    <3> HIDE DEF c
    <3> QED BY <1>1, <2>1, <2>2 DEF RoomInv, PastTheForm
  <2> HIDE DEF c
  <2> QED BY <1>5, <2>1, <2>2, <2>3, <2>4 DEF CheckingOut
<1>10. CASE Refused(r)
  <2>1. q.step \in CheckingOut /\ Continues(r, Quiet)
    BY <1>10 DEF Refused, CheckingOut, q
  <2> QED BY <2>1, ContinuesInv, QuietIsRequest, QuietIsFine DEF q
<1> QED BY <1>6, <1>7, <1>8, <1>9, <1>10

\* What a request w of s is when it begins: it counts a touch or reads the lines, its line is one of the
\* cart, and what it will change is what is asked for now (if it is the only one of its buyer).
Opening(s, w) ==
    /\ RequestInv(w) /\ ChargedInv(w) /\ RoomInv(w) /\ w.shopper = s
    /\ \/ w.step \in {"insert", "save"} /\ Touch
       \/ w.step = "promo" /\ UNCHANGED touches
    /\ w.step = "save" => \E l \in LinesOf(s) : l.row = w.line.row /\ l.good = w.line.good
    /\ asked' \in [Shoppers -> [Goods -> Int]] /\ \A t \in Shoppers \ {s} : asked'[t] = asked[t]
    /\ UnitsInv(s) /\ (\A q \in Requests : request[q].shopper # s) =>
        /\ w.step = "insert" => \A l \in LinesOf(s) : l.good # w.line.good
        /\ w.step = "promo" => \A g \in Goods : UnitsIn(w.items, g) = UnitsIn(LinesOf(s), g)
        /\ \A g \in Goods : UnitsIn(LinesOf(s), g) + OrderedBy(s, g) + Due(w, g) = asked'[s][g]

LEMMA BeginsInv ==
    ASSUME CheckoutsInv, NEW r \in Requests, NEW s \in Shoppers, NEW work, Begins(r, s, work),
           UNCHANGED <<cart, rows, listing, repricings, orders>>,
           NEW w, w = [work EXCEPT !.shopper = s], Opening(s, w)
    PROVE  CheckoutsInv'
<1> USE DEF Opening
<1>1. request'[r] = w /\ (\A q \in Requests : q # r => request'[q] = request[q]) /\ DOMAIN request' = Requests
  BY DEF CheckoutsInv, Begins
<1>2. request[r].step = "idle" /\ request[r].shopper = "nobody" /\ s # "nobody"
  BY CheckoutsAssumption DEF CheckoutsInv, RequestInv, Begins, Serving
<1>3. CartInv'
  <2>1. CartInv /\ MaxTouches \in Nat
    BY CheckoutsAssumption DEF CheckoutsInv
  <2>2. touches' \in 0..MaxTouches /\ IsFiniteSet(Inserting') /\ rows' + Cardinality(Inserting') <= touches'
    <3>1. rows \in Nat /\ touches \in Nat /\ touches <= MaxTouches /\ Cardinality(Inserting) \in Nat
            /\ rows + Cardinality(Inserting) <= touches
      BY <2>1, FS_CardinalityType DEF CartInv
    <3>2. CASE w.step = "insert"
      <4>1. Inserting' = Inserting \union {r}
        BY <1>1, <3>2 DEF Inserting, Serving
      <4>2. IsFiniteSet(Inserting') /\ Cardinality(Inserting') <= Cardinality(Inserting) + 1 /\ Cardinality(Inserting') \in Nat
        <5>1. IsFiniteSet(Inserting)
          BY <2>1 DEF CartInv
        <5>2. IsFiniteSet(Inserting \union {r}) /\ Cardinality(Inserting \union {r}) \in {Cardinality(Inserting), Cardinality(Inserting) + 1}
          BY <5>1, FS_AddElement
        <5> QED BY <3>1, <4>1, <5>2
      <4>3. touches' = touches + 1 /\ touches < MaxTouches /\ rows' = rows
        BY <3>2 DEF Touch
      <4> QED BY <2>1, <3>1, <4>2, <4>3
    <3>3. CASE w.step # "insert"
      <4>1. Inserting' = Inserting
        BY <1>1, <1>2, <3>3 DEF Inserting, Serving
      <4>2. touches' \in {touches, touches + 1} /\ touches' <= MaxTouches /\ rows' = rows
        <5>1. CASE w.step = "promo"
          BY <3>1, <5>1
        <5>2. CASE w.step # "promo"
          BY <3>1, <3>3, <5>2, CheckoutsAssumption DEF Touch
        <5> QED BY <5>1, <5>2
      <4> QED BY <2>1, <3>1, <4>1, <4>2 DEF CartInv
    <3> QED BY <3>2, <3>3
  <2>3. Known' = Known \union (IF w.step = "save" THEN {w.line} ELSE {})
    <3> DEFINE A == {q \in Requests : request[q].step = "save"}
               B == {q \in Requests : request'[q].step = "save"}
    <3>1. r \notin A /\ B = A \union (IF w.step = "save" THEN {r} ELSE {})
      BY <1>1, <1>2
    <3>2. Known = cart \union {request[q].line : q \in A} /\ Known' = cart' \union {request'[q].line : q \in B}
      BY DEF Known, Serving
    <3>3. \A q \in A : q \in Requests /\ q # r /\ request'[q] = request[q]
      BY <1>1, <3>1
    <3> HIDE DEF A, B
    <3>4. {request'[q].line : q \in A} = {request[q].line : q \in A}
      BY <3>3
    <3>5. CASE w.step = "save"
      <4>1. B = A \union {r} /\ request'[r].line = w.line
        BY <1>1, <3>1, <3>5
      <4>2. {request'[q].line : q \in B} = {request'[q].line : q \in A} \union {w.line}
        BY <4>1
      <4>3. Known' = cart \union ({request[q].line : q \in A} \union {w.line})
        BY <3>2, <3>4, <4>2
      <4> QED BY <3>2, <3>5, <4>3
    <3>6. CASE w.step # "save"
      BY <3>1, <3>2, <3>4, <3>6
    <3> QED BY <3>5, <3>6
  <2>4. \A l, m \in Known' : l.row = m.row => l.shopper = m.shopper /\ l.good = m.good
    <3>1. CASE w.step # "save"
      BY <2>1, <2>3, <3>1 DEF CartInv
    <3>2. CASE w.step = "save"
      <4>1. PICK l \in LinesOf(s) : l.row = w.line.row /\ l.good = w.line.good
        BY <3>2
      <4>2. l \in Known /\ l.shopper = w.line.shopper
        BY <3>2 DEF Known, LinesOf, RequestInv
      <4> QED BY <2>1, <2>3, <3>2, <4>1, <4>2 DEF CartInv
    <3> QED BY <3>1, <3>2
  <2>5. tangled' \in SUBSET Shoppers
    BY <2>1 DEF CartInv, Begins
  <2> QED BY <2>1, <2>2, <2>4, <2>5 DEF CartInv, CartLine
<1>4. OrderInv' /\ OrdersChargeTheirItems' /\ CouponLimitsHold'
  BY DEF CheckoutsInv, OrderInv, OrdersChargeTheirItems, CouponLimitsHold, Redemptions
<1>5. ASSUME NEW q \in Requests PROVE RequestInv(request[q])' /\ ChargedInv(request[q])' /\ RoomInv(request[q])'
  <2>1. CASE q = r
    BY <1>1, <2>1, StandsStill
  <2>2. CASE q # r
    BY <1>1, <2>2, StandsStill DEF CheckoutsInv
  <2> QED BY <2>1, <2>2
<1>6. ASSUME NEW t \in Shoppers \ tangled' PROVE UnitsInv(t)'
  <2>0. UnitsInv(t) /\ t # "nobody" /\ (t = s => \A q \in Requests : request[q].shopper # s)
    BY CheckoutsAssumption DEF CheckoutsInv, Begins
  <2>1. CASE t # s
    BY <1>1, <1>2, <2>0, <2>1, UnitsStandStill
  <2>2. CASE t = s
    <3>1. LinesOf(s)' = LinesOf(s)
      BY DEF LinesOf
    <3>2. \A g \in Goods : OrderedBy(s, g)' = OrderedBy(s, g)
      BY DEF OrderedBy
    <3>3. \A g \in Goods : Due(request[r], g)' = Due(w, g)
      BY <1>1, <3>1 DEF Due
    <3>4. AloneInv(s, request[r])'
      BY <1>1, <2>0, <2>2, <3>1, <3>2, <3>3 DEF AloneInv, CheckingOut
    <3>5. request'[r].shopper = s /\ \A q \in Requests \ {r} : request'[q].shopper # s
      BY <1>1, <2>0, <2>2
    <3> QED BY <2>0, <2>2, <3>1, <3>4, <3>5 DEF UnitsInv
  <2> QED BY <2>1, <2>2
<1> QED BY <1>1, <1>3, <1>4, <1>5, <1>6 DEF CheckoutsInv

\* The only line of a product has all its units.
LEMMA OneLine ==
    ASSUME CartInv, NEW s, NEW l \in LinesOf(s), \A m \in LinesOf(s) : m.good = l.good => m = l
    PROVE  UnitsIn(LinesOf(s), l.good) = l.quantity
<1> DEFINE T == {m \in LinesOf(s) : m.good = l.good}
<1>1. T = {} \union {l} /\ UnitsIn(LinesOf(s), l.good) = TotalItems(T)
  BY DEF UnitsIn
<1> HIDE DEF T
<1>2. l.quantity \in Int
  BY LinesFacts
<1>3. TotalItems({} \union {l}) = l.quantity + TotalItems({})
  BY <1>2, TotalWith, FS_EmptySet
<1> QED BY <1>1, <1>2, <1>3, TotalOfNothing

\* A request that will write over a line begins.
LEMMA SaveBegins ==
    ASSUME CheckoutsInv, NEW r \in Requests, NEW l \in cart, NEW n \in 0..MaxQuantity,
           Begins(r, l.shopper, [Quiet EXCEPT !.step = "save", !.line = [l EXCEPT !.quantity = n]]),
           asked' = [asked EXCEPT ![l.shopper][l.good] = @ - l.quantity + n],
           Touch, UNCHANGED <<cart, rows, listing, repricings, orders>>
    PROVE  CheckoutsInv'
<1> DEFINE s == l.shopper
           line == [l EXCEPT !.quantity = n]
           work == [Quiet EXCEPT !.step = "save", !.line = line]
           w == [work EXCEPT !.shopper = s]
<1>1. /\ s \in Shoppers /\ l.good \in Goods /\ l.row \in 1..rows /\ l \in CartLine /\ l \in LinesOf(s)
      /\ l.quantity \in Int /\ n \in Int
  <2>1. MaxQuantity \in Nat
    BY CheckoutsAssumption
  <2> QED BY <2>1 DEF CheckoutsInv, CartInv, CartLine, LinesOf
<1>2. /\ line \in CartLines /\ line.row = l.row /\ line.good = l.good /\ line.shopper = s /\ line.quantity = n
  <2>1. l.row \in 0..MaxTouches
    BY <1>1, CheckoutsAssumption DEF CheckoutsInv, CartInv
  <2> QED BY <1>1, <2>1 DEF CartLines, CartLine
<1> HIDE DEF line
<1>3. w \in Request /\ w.step = "save" /\ w.line = line /\ w.shopper = s /\ w.items = {}
  BY <1>1, <1>2, QuietIsRequest DEF Request, Quiet
<1>4. asked' \in [Shoppers -> [Goods -> Int]] /\ (\A t \in Shoppers \ {s} : asked'[t] = asked[t])
        /\ \A g \in Goods : asked'[s][g] = IF g = l.good THEN asked[s][g] - l.quantity + n ELSE asked[s][g]
  <2>1. asked \in [Shoppers -> [Goods -> Int]]
    BY DEF CheckoutsInv, CartInv
  <2> QED BY <1>1, <2>1
<1>5. Begins(r, s, work)
  BY DEF line
<1>6. w = [work EXCEPT !.shopper = s]
  OBVIOUS
<1> HIDE DEF s, w, work
<1>7. RequestInv(w) /\ ChargedInv(w) /\ RoomInv(w)
  <2>1. RequestInv(w)
    BY <1>1, <1>2, <1>3, FS_EmptySet, CheckoutsAssumption DEF RequestInv
  <2> QED BY <1>3, <2>1 DEF ChargedInv, RoomInv, PastTheForm
<1>8. ASSUME UnitsInv(s), \A q \in Requests : request[q].shopper # s, NEW g \in Goods
      PROVE  UnitsIn(LinesOf(s), g) + OrderedBy(s, g) + Due(w, g) = asked'[s][g]
  <2>1. UnitsIn(LinesOf(s), g) \in Int /\ OrderedBy(s, g) \in Int /\ asked[s][g] = UnitsIn(LinesOf(s), g) + OrderedBy(s, g)
    BY <1>8, LinesFacts, OrderedIsInt DEF CheckoutsInv, UnitsInv
  <2>2. CASE g = l.good
    <3>1. UnitsIn(LinesOf(s), g) = l.quantity
      BY <1>1, <1>8, <2>2, OneLine DEF CheckoutsInv, UnitsInv
    <3>2. Due(w, g) = n - UnitsIn(LinesOf(s), g)
      BY <1>2, <1>3, <2>2 DEF Due
    <3> QED BY <1>1, <1>4, <2>1, <2>2, <3>1, <3>2
  <2>3. CASE g # l.good
    <3>1. Due(w, g) = 0
      BY <1>2, <1>3, <2>3 DEF Due
    <3> QED BY <1>4, <2>1, <2>3, <3>1
  <2> QED BY <2>2, <2>3
<1>9. \E m \in LinesOf(s) : m.row = w.line.row /\ m.good = w.line.good
  BY <1>1, <1>2, <1>3
<1>10. w.step \in {"insert", "save"} /\ Touch /\ w.step # "promo" /\ w.step # "insert"
  BY <1>3
<1>11. Opening(s, w)
  BY <1>3, <1>4, <1>7, <1>8, <1>9, <1>10 DEF Opening
<1> QED BY <1>1, <1>5, <1>6, <1>11, BeginsInv

LEMMA AddInv == ASSUME CheckoutsInv, NEW r \in Requests, add_to_cart(r) PROVE CheckoutsInv'
<1>1. PICK s \in Shoppers, g \in Goods, n \in 1..MaxAdded :
        LET found == {l \in LinesOf(s) : l.good = g}
        IN  /\ \A l \in found : l.quantity + n <= MaxQuantity
            /\ asked' = [asked EXCEPT ![s][g] = @ + n]
            /\ Begins(r, s, IF found = {}
                            THEN [Quiet EXCEPT !.step = "insert", !.line = [NoLine EXCEPT !.good = g, !.quantity = n]]
                            ELSE [Quiet EXCEPT !.step = "save",
                                               !.line = [(CHOOSE l \in found : TRUE) EXCEPT !.quantity = @ + n]])
            /\ Touch
            /\ UNCHANGED <<cart, rows, listing, repricings, orders>>
  BY DEF add_to_cart
<1> DEFINE found == {l \in LinesOf(s) : l.good = g}
<1>2. asked \in [Shoppers -> [Goods -> Int]] /\ MaxQuantity \in Nat /\ MaxAdded \in Nat /\ MaxAdded <= MaxQuantity
  BY CheckoutsAssumption DEF CheckoutsInv, CartInv
<1>3. CASE found = {}
  <2> DEFINE line == [NoLine EXCEPT !.good = g, !.quantity = n]
             work == [Quiet EXCEPT !.step = "insert", !.line = line]
             w == [work EXCEPT !.shopper = s]
  <2>1. line \in CartLines /\ line.good = g /\ line.quantity = n /\ n \in 1..MaxQuantity
    <3>1. n \in 1..MaxQuantity /\ n \in 0..MaxQuantity
      BY <1>2
    <3>2. 0 \in 0..MaxTouches
      BY CheckoutsAssumption
    <3> QED BY <3>1, <3>2 DEF NoLine, CartLines
  <2>2. Begins(r, s, work) /\ asked' = [asked EXCEPT ![s][g] = @ + n]
    BY <1>1, <1>3
  <2> HIDE DEF line
  <2>3. w \in Request /\ w.step = "insert" /\ w.line = line /\ w.shopper = s /\ w.items = {}
    BY <2>1, QuietIsRequest DEF Request, Quiet
  <2>4. w = [work EXCEPT !.shopper = s]
    OBVIOUS
  <2> HIDE DEF w, work
  <2>5. RequestInv(w) /\ ChargedInv(w) /\ RoomInv(w)
    <3>1. RequestInv(w)
      BY <2>1, <2>3, FS_EmptySet, CheckoutsAssumption DEF RequestInv
    <3> QED BY <2>3, <3>1 DEF ChargedInv, RoomInv, PastTheForm
  <2>6. asked' \in [Shoppers -> [Goods -> Int]] /\ (\A t \in Shoppers \ {s} : asked'[t] = asked[t])
          /\ \A h \in Goods : asked'[s][h] = IF h = g THEN asked[s][h] + n ELSE asked[s][h]
    BY <1>2, <2>2
  <2>7. \A l \in LinesOf(s) : l.good # w.line.good
    BY <1>3, <2>1, <2>3
  <2>8. ASSUME UnitsInv(s), \A q \in Requests : request[q].shopper # s, NEW h \in Goods
        PROVE  UnitsIn(LinesOf(s), h) + OrderedBy(s, h) + Due(w, h) = asked'[s][h]
    <3>1. /\ UnitsIn(LinesOf(s), h) \in Int /\ OrderedBy(s, h) \in Int
          /\ asked[s][h] = UnitsIn(LinesOf(s), h) + OrderedBy(s, h)
      BY <2>8, LinesFacts, OrderedIsInt DEF CheckoutsInv, UnitsInv
    <3>2. Due(w, h) = IF h = g THEN n ELSE 0
      BY <2>1, <2>3 DEF Due
    <3> QED BY <1>2, <2>6, <3>1, <3>2
  <2>9. w.step \in {"insert", "save"} /\ Touch /\ w.step # "promo" /\ w.step # "save"
    BY <1>1, <2>3
  <2>10. UNCHANGED <<cart, rows, listing, repricings, orders>>
    BY <1>1
  <2> HIDE DEF found
  <2>11. Opening(s, w)
    BY <2>3, <2>5, <2>6, <2>7, <2>8, <2>9 DEF Opening
  <2> QED BY <2>2, <2>4, <2>10, <2>11, BeginsInv
<1>4. CASE found # {}
  <2> DEFINE l == CHOOSE m \in found : TRUE
  <2>1. l \in cart /\ l.shopper = s /\ l.good = g /\ l \in found
    BY <1>4 DEF LinesOf
  <2>2. [l EXCEPT !.quantity = @ + n] = [l EXCEPT !.quantity = l.quantity + n]
    OBVIOUS
  <2>3. Begins(r, s, [Quiet EXCEPT !.step = "save", !.line = [l EXCEPT !.quantity = l.quantity + n]])
    BY <1>1, <1>4, <2>2
  <2>4. l.quantity \in Int /\ l.quantity + n \in 0..MaxQuantity
    <3>1. l \in CartLine
      BY <2>1 DEF CheckoutsInv, CartInv
    <3>2. l.quantity \in 1..MaxQuantity
      BY <3>1 DEF CartLine
    <3> QED BY <1>1, <1>2, <2>1, <3>2
  <2>5. asked' = [asked EXCEPT ![s][g] = @ - l.quantity + (l.quantity + n)]
    <3>1. asked[s][g] + n = asked[s][g] - l.quantity + (l.quantity + n)
      BY <1>2, <2>4
    <3> QED BY <1>1, <3>1
  <2> HIDE DEF l
  <2> QED BY <1>1, <2>1, <2>3, <2>4, <2>5, SaveBegins
<1> QED BY <1>3, <1>4

LEMMA SetInv ==
    ASSUME CheckoutsInv, NEW r \in Requests, update_cart_item(r) \/ remove_cart_item(r)
    PROVE  CheckoutsInv'
<1>1. PICK l \in cart, n \in 0..MaxQuantity : SetQuantity(r, l, n)
  BY CheckoutsAssumption DEF update_cart_item, remove_cart_item
<1> QED BY <1>1, SaveBegins DEF SetQuantity

LEMMA CheckoutInv == ASSUME CheckoutsInv, NEW r \in Requests, checkout(r) PROVE CheckoutsInv'
<1>1. PICK s \in Shoppers, c \in {{}, {Voucher}} :
        /\ Begins(r, s, [Quiet EXCEPT !.step = "promo", !.items = Priced(s), !.coupon = c])
        /\ UNCHANGED <<cart, rows, touches, listing, repricings, orders, asked>>
  BY DEF checkout
<1> DEFINE items == Priced(s)
           work == [Quiet EXCEPT !.step = "promo", !.items = items, !.coupon = c]
           w == [work EXCEPT !.shopper = s]
<1>2. items \in SUBSET Items /\ IsFiniteSet(items) /\ \A g \in Goods : UnitsIn(items, g) = UnitsIn(LinesOf(s), g)
  BY PricedFacts DEF CheckoutsInv
<1>3. Begins(r, s, work) /\ items = Priced(s)
  BY <1>1
<1> HIDE DEF items
<1>4. w \in Request /\ w.step = "promo" /\ w.items = items /\ w.shopper = s /\ w.line = NoLine
  BY <1>2, QuietIsRequest DEF Request, Quiet, CheckingOut
<1>5. w = [work EXCEPT !.shopper = s]
  OBVIOUS
<1> HIDE DEF w, work
<1>6. RequestInv(w) /\ ChargedInv(w) /\ RoomInv(w)
  <2>1. RequestInv(w)
    BY <1>2, <1>4, CheckoutsAssumption DEF RequestInv
  <2> QED BY <1>3, <1>4, <2>1 DEF ChargedInv, RoomInv, PastTheForm
<1>7. asked' = asked /\ asked \in [Shoppers -> [Goods -> Int]]
  BY <1>1 DEF CheckoutsInv, CartInv
<1>8. ASSUME UnitsInv(s), \A q \in Requests : request[q].shopper # s, NEW g \in Goods
      PROVE  UnitsIn(LinesOf(s), g) + OrderedBy(s, g) + Due(w, g) = asked'[s][g]
  <2>1. UnitsIn(LinesOf(s), g) \in Int /\ OrderedBy(s, g) \in Int /\ asked[s][g] = UnitsIn(LinesOf(s), g) + OrderedBy(s, g)
    BY <1>8, LinesFacts, OrderedIsInt DEF CheckoutsInv, UnitsInv
  <2>2. Due(w, g) = 0
    BY <1>4 DEF Due
  <2> QED BY <1>7, <2>1, <2>2
<1>9. Opening(s, w)
  BY <1>1, <1>2, <1>4, <1>6, <1>7, <1>8 DEF Opening
<1> QED BY <1>1, <1>3, <1>5, <1>9, BeginsInv

\* A request is told that what it has read was changed, or a redemption written, or neither.
Told(q, b, c) ==
    /\ request'[q] = [request[q] EXCEPT !.stirred = b, !.late = c] /\ b \in BOOLEAN /\ c \in BOOLEAN
    /\ ~b => /\ ~request[q].stirred /\ listing' = listing
             /\ {l \in cart' : l.shopper = request[q].shopper} = LinesOf(request[q].shopper)

LEMMA ToldInv ==
    ASSUME CheckoutsInv, NEW q \in Requests, NEW b, NEW c, Told(q, b, c), rows' \in Nat, rows' >= rows
    PROVE  /\ RequestInv(request[q])' /\ ChargedInv(request[q])'
           /\ request'[q].step = request[q].step /\ request'[q].shopper = request[q].shopper
           /\ request'[q].line = request[q].line /\ request'[q].items = request[q].items
<1> USE DEF Told
<1> DEFINE w == request[q]
           v == request'[q]
<1>1. w \in Request /\ RequestInv(w) /\ ChargedInv(w) /\ rows \in Nat
  BY CheckoutsAssumption DEF CheckoutsInv, RequestInv, CartInv
<1>2. /\ v \in Request /\ v.step = w.step /\ v.shopper = w.shopper /\ v.line = w.line /\ v.items = w.items
      /\ v.coupon = w.coupon /\ v.auto = w.auto /\ v.offer = w.offer /\ v.subtotal = w.subtotal
      /\ v.late = c /\ v.stirred = b
  BY <1>1 DEF Request
<1>3. RequestInv(request[q])'
  BY <1>1, <1>2 DEF RequestInv
<1>4. ChargedInv(request[q])'
  <2>1. CASE b
    BY <1>2, <2>1 DEF ChargedInv
  <2>2. CASE ~b
    <3>1. Priced(request[q].shopper)' = Priced(request[q].shopper)
      BY <1>2, <2>2 DEF Priced, LinesOf
    <3> QED BY <1>1, <1>2, <2>2, <3>1 DEF ChargedInv
  <2> QED BY <2>1, <2>2
<1> QED BY <1>2, <1>3, <1>4

\* No redemption is written.
LEMMA RoomStays ==
    ASSUME NEW q \in Requests, NEW w, RoomInv(w), Redemptions' = Redemptions,
           request'[q].step = w.step, request'[q].shopper = w.shopper, request'[q].coupon = w.coupon,
           request'[q].late = w.late
    PROVE  RoomInv(request[q])'
BY DEF RoomInv, RedeemedBy

\* A request of s ends and has changed carts of s alone.
LEMMA EndsInv ==
    ASSUME CheckoutsInv, NEW r \in Requests, NEW s \in Shoppers, request[r].shopper = s, Ends(r, s),
           UNCHANGED <<touches, listing, repricings, orders, asked, tangled>>, rows' \in Nat, rows' >= rows,
           \A t : t # s => {l \in cart' : l.shopper = t} = LinesOf(t),
           CartInv',
           UnitsInv(s) /\ (\A q \in Requests \ {r} : request[q].shopper # s) =>
                /\ \A l, m \in LinesOf(s)' : l.good = m.good => l = m
                /\ \A g \in Goods : UnitsIn(LinesOf(s)', g) + OrderedBy(s, g) = asked[s][g]
    PROVE  CheckoutsInv'
<1> USE DEF Ends
<1>1. /\ request'[r] = Quiet /\ DOMAIN request' = Requests
      /\ \A q \in Requests \ {r} :
            request'[q] = [request[q] EXCEPT !.stirred = request[q].stirred \/ request[q].shopper = s]
  OBVIOUS
<1>2. ASSUME NEW q \in Requests \ {r}
      PROVE  /\ RequestInv(request[q])' /\ ChargedInv(request[q])'
             /\ request'[q].step = request[q].step /\ request'[q].shopper = request[q].shopper
             /\ request'[q].line = request[q].line /\ request'[q].items = request[q].items
             /\ request'[q].coupon = request[q].coupon /\ request'[q].late = request[q].late
  <2>0. PICK b, c : b = (request[q].stirred \/ request[q].shopper = s) /\ c = request[q].late
    OBVIOUS
  <2>1. request[q] \in Request /\ b \in BOOLEAN /\ c \in BOOLEAN
    BY <2>0 DEF CheckoutsInv, RequestInv, Request
  <2>2. request'[q] = [request[q] EXCEPT !.stirred = b, !.late = c]
    BY <1>1, <2>0, <2>1 DEF Request
  <2>3. ~b => /\ ~request[q].stirred /\ listing' = listing
              /\ {l \in cart' : l.shopper = request[q].shopper} = LinesOf(request[q].shopper)
    BY <2>0
  <2>4. Told(q, b, c)
    BY <2>1, <2>2, <2>3 DEF Told
  <2>5. /\ RequestInv(request[q])' /\ ChargedInv(request[q])'
        /\ request'[q].step = request[q].step /\ request'[q].shopper = request[q].shopper
        /\ request'[q].line = request[q].line /\ request'[q].items = request[q].items
        /\ request'[q].coupon = request[q].coupon /\ request'[q].late = c
    <3>1. q \in Requests /\ rows' \in Nat /\ rows' >= rows
      OBVIOUS
    <3>2. RequestInv(request[q])'
      BY <2>4, <3>1, ToldInv
    <3>3. ChargedInv(request[q])'
      BY <2>4, <3>1, ToldInv
    <3>4. request'[q].step = request[q].step /\ request'[q].shopper = request[q].shopper
      BY <2>4, <3>1, ToldInv
    <3>5. request'[q].line = request[q].line /\ request'[q].items = request[q].items
      BY <2>4, <3>1, ToldInv
    <3>6. request'[q].coupon = request[q].coupon /\ request'[q].late = c
      BY <2>1, <2>2 DEF Request
    <3> QED BY <3>2, <3>3, <3>4, <3>5, <3>6
  <2> QED BY <2>0, <2>5
<1> HIDE DEF Ends
<1>3. ASSUME NEW q \in Requests PROVE RequestInv(request[q])' /\ ChargedInv(request[q])' /\ RoomInv(request[q])'
  <2>1. CASE q = r
    <3>1. RequestInv(Quiet) /\ Quiet.step = "idle"
      BY QuietIsRequest
    <3>2. RequestInv(request[q])'
      BY <1>1, <2>1, <3>1 DEF RequestInv
    <3> QED BY <1>1, <2>1, <3>1, <3>2 DEF ChargedInv, RoomInv, PastTheForm
  <2>2. CASE q # r
    <3>1. RoomInv(request[q])
      BY DEF CheckoutsInv
    <3>2. RoomInv(request[q])'
      <4>1. Redemptions' = Redemptions
        BY DEF Redemptions
      <4> QED BY <1>2, <2>2, <3>1, <4>1, RoomStays
    <3> QED BY <1>2, <2>2, <3>2
  <2> QED BY <2>1, <2>2
<1>4. OrderInv' /\ OrdersChargeTheirItems' /\ CouponLimitsHold'
  BY DEF CheckoutsInv, OrderInv, OrdersChargeTheirItems, CouponLimitsHold, Redemptions
<1>5. ASSUME NEW t \in Shoppers \ tangled PROVE UnitsInv(t)'
  <2>0. UnitsInv(t) /\ t # "nobody" /\ request'[r].shopper = "nobody"
    BY <1>1, CheckoutsAssumption, QuietIsRequest DEF CheckoutsInv
  <2>1. \A g \in Goods : OrderedBy(t, g)' = OrderedBy(t, g)
    BY DEF OrderedBy
  <2>2. CASE t # s
    <3>1. LinesOf(t)' = LinesOf(t)
      BY <2>2 DEF LinesOf
    <3> QED BY <1>2, <2>0, <2>1, <2>2, <3>1, UnitsStay
  <2>3. CASE t = s
    <3>1. \A q \in Requests : request'[q].shopper # s
      BY <1>2, <2>0, <2>3 DEF UnitsInv
    <3>2. \A q \in Requests \ {r} : request[q].shopper # s
      BY <2>0, <2>3 DEF UnitsInv
    <3> QED BY <2>0, <2>1, <2>3, <3>1, <3>2 DEF UnitsInv
  <2> QED BY <2>2, <2>3
<1> QED BY <1>1, <1>3, <1>4, <1>5 DEF CheckoutsInv

LEMMA InsertInv == ASSUME CheckoutsInv, NEW r \in Requests, InsertLine(r) PROVE CheckoutsInv'
<1>0. PICK s, q, m : q = request[r] /\ s = q.shopper /\ m = [q.line EXCEPT !.row = rows + 1, !.shopper = s]
  OBVIOUS
<1>1. /\ q.step = "insert" /\ rows' = rows + 1 /\ cart' = cart \union {m} /\ Ends(r, s)
      /\ UNCHANGED <<touches, listing, repricings, orders, asked, tangled>>
  BY <1>0 DEF InsertLine, Serving
<1>2. CartInv /\ OrderInv /\ q \in Request /\ s \in Shoppers /\ q.line.good \in Goods /\ q.line.quantity \in 1..MaxQuantity
  BY <1>0, <1>1 DEF CheckoutsInv, RequestInv, Request
<1>3. rows \in Nat /\ touches \in Nat /\ touches <= MaxTouches /\ MaxTouches \in Nat /\ MaxQuantity \in Nat
  BY <1>2, CheckoutsAssumption DEF CartInv
<1>4. m \in [row : 1..(rows + 1), shopper : Shoppers, good : Goods, quantity : 1..MaxQuantity]
        /\ m.row = rows + 1 /\ m.shopper = s /\ m.good = q.line.good /\ m.quantity = q.line.quantity /\ m.quantity \in Int
  <2>1. q.line \in CartLines
    BY <1>2 DEF Request
  <2>2. /\ m.row = rows + 1 /\ m.shopper = s /\ m.good = q.line.good /\ m.quantity = q.line.quantity
        /\ m = [row |-> m.row, shopper |-> m.shopper, good |-> m.good, quantity |-> m.quantity]
    BY <1>0, <2>1 DEF CartLines
  <2>3. rows + 1 \in 1..(rows + 1) /\ q.line.quantity \in Int
    BY <1>2, <1>3
  <2> QED BY <1>2, <2>2, <2>3
<1>5. /\ request'[r] = Quiet
      /\ \A p \in Requests \ {r} : request'[p].step = request[p].step /\ request'[p].line = request[p].line
  <2>1. \A p \in Requests : request[p] \in Request
    BY DEF CheckoutsInv, RequestInv
  <2> QED BY <1>1, <2>1 DEF Ends, Request
<1>6. \A l \in Known : l.row <= rows
  <2>1. \A l \in cart : l.row <= rows
    BY <1>2 DEF CartInv, CartLine
  <2>2. \A p \in Requests : request[p].step = "save" => request[p].line.row <= rows
    BY DEF CheckoutsInv, RequestInv
  <2> QED BY <2>1, <2>2 DEF Known, Serving
<1>7. m \notin cart /\ \A l \in cart : l.row # m.row /\ l.row \in Int
  <2>1. \A l \in cart : l.row \in 1..rows
    BY <1>2 DEF CartInv, CartLine
  <2> QED BY <1>3, <1>4, <2>1
<1>8. CartInv'
  <2>1. rows' + Cardinality(Inserting') <= touches' /\ IsFiniteSet(Inserting') /\ rows' \in 0..MaxTouches
    <3>1. Inserting' = Inserting \ {r} /\ r \in Inserting
      BY <1>0, <1>1, <1>5, QuietIsRequest DEF Inserting, Serving
    <3>2. IsFiniteSet(Inserting) /\ rows + Cardinality(Inserting) <= touches
      BY <1>2 DEF CartInv
    <3>3. IsFiniteSet(Inserting \ {r}) /\ Cardinality(Inserting \ {r}) = Cardinality(Inserting) - 1 /\ Cardinality(Inserting) \in Nat
      BY <3>1, <3>2, FS_RemoveElement, FS_CardinalityType
    <3>4. Cardinality(Inserting \ {r}) \in Nat
      BY <3>3, FS_CardinalityType
    <3> QED BY <1>1, <1>3, <3>1, <3>2, <3>3, <3>4
  <2>2. Known' = Known \union {m}
    <3> DEFINE A == {p \in Requests : request[p].step = "save"}
               B == {p \in Requests : request'[p].step = "save"}
    <3>1. B = A /\ r \notin A
      BY <1>0, <1>1, <1>5, QuietIsRequest
    <3>2. Known = cart \union {request[p].line : p \in A} /\ Known' = cart' \union {request'[p].line : p \in B}
      BY DEF Known, Serving
    <3>3. \A p \in A : request'[p].line = request[p].line
      BY <1>5, <3>1
    <3> HIDE DEF A, B
    <3>4. {request'[p].line : p \in A} = {request[p].line : p \in A}
      BY <3>3
    <3> QED BY <1>1, <3>1, <3>2, <3>4
  <2>3. \A l, k \in Known' : l.row = k.row => l.shopper = k.shopper /\ l.good = k.good
    <3>1. \A l, k \in Known : l.row = k.row => l.shopper = k.shopper /\ l.good = k.good
      BY <1>2 DEF CartInv
    <3>2. \A l \in Known : l.row # m.row
      <4>1. \A l \in Known : l.row \in Int
        <5>1. \A l \in cart : l.row \in Int
          BY <1>7
        <5>2. \A p \in Requests : request[p].step = "save" => request[p].line.row \in Int
          BY DEF CheckoutsInv, RequestInv
        <5> QED BY <5>1, <5>2 DEF Known, Serving
      <4> QED BY <1>3, <1>4, <1>6, <4>1
    <3> QED BY <2>2, <3>1, <3>2
  <2>4. cart' \in SUBSET CartLine' /\ IsFiniteSet(cart')
    <3>1. IsFiniteSet(cart')
      BY <1>1, <1>2, FS_AddElement DEF CartInv
    <3>2. \A l \in cart : l \in CartLine'
      BY <1>1, <1>2, <1>3 DEF CartInv, CartLine
    <3>3. m \in CartLine'
      BY <1>1, <1>4 DEF CartLine
    <3> QED BY <1>1, <3>1, <3>2, <3>3
  <2>5. \A l, k \in cart' : l.row = k.row => l = k
    BY <1>1, <1>2, <1>7 DEF CartInv
  <2> QED BY <1>1, <1>2, <2>1, <2>3, <2>4, <2>5 DEF CartInv
<1>9. \A t : t # s => {l \in cart' : l.shopper = t} = LinesOf(t)
  BY <1>1, <1>4 DEF LinesOf
<1>10. LinesOf(s)' = LinesOf(s) \union {m} /\ m \notin LinesOf(s)
  BY <1>1, <1>4, <1>7 DEF LinesOf
<1>11. ASSUME UnitsInv(s)
       PROVE  /\ \A l, k \in LinesOf(s)' : l.good = k.good => l = k
              /\ \A g \in Goods : UnitsIn(LinesOf(s)', g) + OrderedBy(s, g) = asked[s][g]
  <2>1. /\ \A l \in LinesOf(s) : l.good # q.line.good
        /\ \A g \in Goods : UnitsIn(LinesOf(s), g) + OrderedBy(s, g) + Due(q, g) = asked[s][g]
    BY <1>0, <1>1, <1>11 DEF UnitsInv, AloneInv
  <2>2. \A l, k \in LinesOf(s)' : l.good = k.good => l = k
    BY <1>4, <1>10, <1>11, <2>1 DEF UnitsInv
  <2>3. ASSUME NEW g \in Goods PROVE UnitsIn(LinesOf(s)', g) + OrderedBy(s, g) = asked[s][g]
    <3>1. UnitsIn(LinesOf(s) \union {m}, g) = UnitsIn(LinesOf(s), g) + IF m.good = g THEN m.quantity ELSE 0
      <4>1. IsFiniteSet(LinesOf(s)) /\ \A l \in LinesOf(s) \union {m} : l.quantity \in Int
        BY <1>2, <1>4, LinesFacts
      <4> QED BY <1>10, <4>1, UnitsWith
    <3>2. Due(q, g) = IF m.good = g THEN m.quantity ELSE 0
      BY <1>1, <1>4 DEF Due
    <3>3. UnitsIn(LinesOf(s), g) \in Int /\ OrderedBy(s, g) \in Int /\ Due(q, g) \in Int
      BY <1>2, <1>4, <3>2, LinesFacts, OrderedIsInt
    <3> QED BY <1>10, <2>1, <3>1, <3>2, <3>3
  <2> QED BY <2>2, <2>3
<1>12. rows' \in Nat /\ rows' >= rows /\ request[r].shopper = s
  BY <1>0, <1>1, <1>3
<1> QED BY <1>1, <1>2, <1>8, <1>9, <1>11, <1>12, EndsInv

\* The row is written over, taken out, or inserted again.
LEMMA SaveInv == ASSUME CheckoutsInv, NEW r \in Requests, SaveLine(r) PROVE CheckoutsInv'
<1>0. PICK s, q, line, new : /\ q = request[r] /\ s = q.shopper /\ line = q.line
                             /\ new = IF line.quantity = 0 THEN {} ELSE {line}
  OBVIOUS
<1>1. /\ q.step = "save" /\ cart' = {l \in cart : l.row # line.row} \union new /\ Ends(r, s)
      /\ UNCHANGED <<rows, touches, listing, repricings, orders, asked, tangled>>
  BY <1>0 DEF SaveLine, Serving
<1>2. /\ CartInv /\ OrderInv /\ q \in Request /\ s \in Shoppers /\ line \in CartLines
      /\ line.row \in 1..rows /\ line.shopper = s /\ line.good \in Goods
  BY <1>0, <1>1 DEF CheckoutsInv, RequestInv, Request
<1>3. line.quantity \in 0..MaxQuantity /\ MaxQuantity \in Nat /\ line.quantity \in Int
  BY <1>2, CheckoutsAssumption DEF CartLines
<1>4. new \subseteq {line} /\ \A l \in new : l \in CartLine
  <2>1. ASSUME line.quantity # 0 PROVE line \in CartLine
    <3>1. line.quantity \in 1..MaxQuantity
      BY <1>3, <2>1
    <3> QED BY <1>2, <3>1 DEF CartLine, CartLines
  <2> QED BY <1>0, <2>1
<1>5. /\ request'[r] = Quiet
      /\ \A p \in Requests \ {r} : request'[p].step = request[p].step /\ request'[p].line = request[p].line
  <2>1. \A p \in Requests : request[p] \in Request
    BY DEF CheckoutsInv, RequestInv
  <2> QED BY <1>1, <2>1 DEF Ends, Request
<1>6. line \in Known /\ \A l \in cart : l.row = line.row => l.shopper = s /\ l.good = line.good
  <2>1. line \in Known /\ cart \subseteq Known
    BY <1>0, <1>1 DEF Known, Serving
  <2> QED BY <1>2, <2>1 DEF CartInv
<1>7. CartInv'
  <2>1. Inserting' = Inserting
    BY <1>0, <1>1, <1>5, QuietIsRequest DEF Inserting, Serving
  <2>2. Known' \subseteq Known
    <3>1. \A p \in Requests : request'[p].step = "save" => request[p].step = "save" /\ request'[p].line = request[p].line
      BY <1>5, QuietIsRequest
    <3>2. cart' \subseteq Known
      BY <1>1, <1>4, <1>6 DEF Known
    <3> QED BY <3>1, <3>2 DEF Known, Serving
  <2>3. \A l, k \in Known' : l.row = k.row => l.shopper = k.shopper /\ l.good = k.good
    BY <1>2, <2>2 DEF CartInv
  <2>4. cart' \in SUBSET CartLine' /\ IsFiniteSet(cart')
    <3>1. IsFiniteSet(cart \union {line})
      BY <1>2, FS_AddElement DEF CartInv
    <3>2. cart' \subseteq cart \union {line}
      BY <1>1, <1>4
    <3>3. CartLine' = CartLine
      BY <1>1 DEF CartLine
    <3>4. IsFiniteSet(cart')
      BY <3>1, <3>2, FS_Subset
    <3> QED BY <1>1, <1>2, <1>4, <3>3, <3>4 DEF CartInv
  <2>5. \A l, k \in cart' : l.row = k.row => l = k
    BY <1>1, <1>2, <1>4 DEF CartInv
  <2> QED BY <1>1, <1>2, <2>1, <2>3, <2>4, <2>5 DEF CartInv
<1>8. \A t : t # s => {l \in cart' : l.shopper = t} = LinesOf(t)
  BY <1>1, <1>2, <1>4, <1>6 DEF LinesOf
<1>9. ASSUME UnitsInv(s)
      PROVE  /\ \A l, k \in LinesOf(s)' : l.good = k.good => l = k
             /\ \A g \in Goods : UnitsIn(LinesOf(s)', g) + OrderedBy(s, g) = asked[s][g]
  <2>1. AloneInv(s, q)
    BY <1>0, <1>9 DEF UnitsInv
  <2>2. PICK old \in LinesOf(s) : old.row = line.row
    BY <1>0, <1>1, <2>1 DEF AloneInv
  <2>3. old \in cart /\ old.shopper = s /\ old.good = line.good /\ old.quantity \in Int
    BY <1>2, <1>6, <2>2, LinesFacts DEF LinesOf
  <2> DEFINE rest == LinesOf(s) \ {old}
  <2>4. LinesOf(s)' = rest \union new /\ line \notin rest /\ old \notin rest /\ LinesOf(s) = rest \union {old}
    <3>1. \A l \in LinesOf(s) : l.row = line.row <=> l = old
      BY <1>2, <2>2, <2>3 DEF CartInv, LinesOf
    <3>2. \A l \in new : l.shopper = s
      BY <1>2, <1>4
    <3>3. \A l : l \in LinesOf(s)' <=> (l \in LinesOf(s) /\ l.row # line.row) \/ l \in new
      BY <1>1, <3>2 DEF LinesOf
    <3> QED BY <2>2, <3>1, <3>3
  <2>5. IsFiniteSet(rest) /\ \A l \in rest \union {old} \union {line} : l.quantity \in Int
    <3>1. IsFiniteSet(rest)
      BY <1>2, LinesFacts, FS_RemoveElement
    <3> QED BY <1>2, <1>3, <2>3, <3>1, LinesFacts
  <2>6. \A l \in rest : l.good # line.good
    BY <1>9, <2>2, <2>3 DEF UnitsInv
  <2>7. \A l, k \in LinesOf(s)' : l.good = k.good => l = k
    BY <1>4, <1>9, <2>4, <2>6 DEF UnitsInv
  <2> HIDE DEF rest
  <2>8. ASSUME NEW g \in Goods PROVE UnitsIn(LinesOf(s)', g) + OrderedBy(s, g) = asked[s][g]
    <3>1. UnitsIn(rest \union {old}, g) = UnitsIn(rest, g) + IF old.good = g THEN old.quantity ELSE 0
      BY <2>4, <2>5, UnitsWith
    <3>2. UnitsIn(rest \union {line}, g) = UnitsIn(rest, g) + IF line.good = g THEN line.quantity ELSE 0
      BY <2>4, <2>5, UnitsWith
    <3>3. UnitsIn(LinesOf(s)', g) = UnitsIn(rest, g) + IF line.good = g THEN line.quantity ELSE 0
      <4>1. CASE line.quantity = 0
        <5>1. LinesOf(s)' = rest
          BY <1>0, <2>4, <4>1
        <5>2. UnitsIn(rest, g) \in Int
          BY <2>5, UnitsAreInt
        <5> QED BY <4>1, <5>1, <5>2
      <4>2. CASE line.quantity # 0
        BY <1>0, <2>4, <3>2, <4>2
      <4> QED BY <4>1, <4>2
    <3>4. /\ UnitsIn(rest, g) \in Int /\ OrderedBy(s, g) \in Int /\ UnitsIn(LinesOf(s), g) \in Int
      BY <1>2, <2>5, UnitsAreInt, LinesFacts, OrderedIsInt
    <3>5. Due(q, g) = IF line.good = g THEN line.quantity - UnitsIn(LinesOf(s), g) ELSE 0
      BY <1>0, <1>1 DEF Due
    <3>6. UnitsIn(LinesOf(s), g) + OrderedBy(s, g) + Due(q, g) = asked[s][g]
      BY <2>1 DEF AloneInv
    <3>7. line.good = g => UnitsIn(LinesOf(s), g) = old.quantity
      BY <1>2, <1>9, <2>2, <2>3, OneLine DEF UnitsInv
    <3> QED BY <1>3, <2>3, <2>4, <3>1, <3>3, <3>4, <3>5, <3>6, <3>7
  <2> QED BY <2>7, <2>8
<1>10. rows' \in Nat /\ rows' >= rows /\ request[r].shopper = s
  BY <1>0, <1>1, <1>2, CheckoutsAssumption DEF CartInv
<1> QED BY <1>1, <1>2, <1>7, <1>8, <1>9, <1>10, EndsInv

LEMMA RepriceInv == ASSUME CheckoutsInv, Reprice PROVE CheckoutsInv'
<1>1. UNCHANGED <<cart, rows, touches, orders, asked, tangled>>
        /\ request' = [r \in Requests |-> IF Serving(r, "idle") THEN Quiet ELSE [request[r] EXCEPT !.stirred = TRUE]]
  BY DEF Reprice
<1>2. CartInv /\ rows \in Nat
  BY CheckoutsAssumption DEF CheckoutsInv, CartInv
<1>3. ASSUME NEW q \in Requests
      PROVE  /\ RequestInv(request[q])' /\ ChargedInv(request[q])' /\ RoomInv(request[q])'
             /\ request'[q].step = request[q].step /\ request'[q].shopper = request[q].shopper
             /\ request[q].step # "idle" => request'[q].line = request[q].line /\ request'[q].items = request[q].items
  <2>0. request[q] \in Request /\ RoomInv(request[q]) /\ RequestInv(request[q])
    BY DEF CheckoutsInv, RequestInv
  <2>1. CASE request[q].step = "idle"
    <3>1. request'[q] = Quiet /\ RequestInv(Quiet) /\ Quiet.step = "idle" /\ Quiet.shopper = "nobody"
      BY <1>1, <2>1, QuietIsRequest DEF Serving
    <3>2. RequestInv(request[q])'
      BY <3>1, <1>1 DEF RequestInv
    <3> QED BY <2>0, <2>1, <3>1, <3>2 DEF ChargedInv, RoomInv, RequestInv, PastTheForm
  <2>2. CASE request[q].step # "idle"
    <3>1. PICK b, c : b = TRUE /\ c = request[q].late
      OBVIOUS
    <3>2. request'[q] = [request[q] EXCEPT !.stirred = b, !.late = c]
      BY <1>1, <2>0, <2>2, <3>1 DEF Serving, Request
    <3>3. Told(q, b, c) /\ rows' \in Nat /\ rows' >= rows
      BY <1>1, <1>2, <2>0, <3>1, <3>2 DEF Told, Request
    <3>4. RequestInv(request[q])' /\ ChargedInv(request[q])'
      BY <3>3, ToldInv
    <3>5. /\ request'[q].step = request[q].step /\ request'[q].shopper = request[q].shopper
          /\ request'[q].line = request[q].line /\ request'[q].items = request[q].items
          /\ request'[q].coupon = request[q].coupon /\ request'[q].late = request[q].late
      BY <2>0, <3>1, <3>2 DEF Request
    <3>6. Redemptions' = Redemptions
      BY <1>1 DEF Redemptions
    <3>7. RoomInv(request[q])'
      BY <2>0, <3>5, <3>6, RoomStays
    <3> QED BY <3>4, <3>5, <3>7
  <2> QED BY <2>1, <2>2
<1>4. CartInv'
  <2>1. Inserting' = Inserting
    BY <1>3 DEF Inserting, Serving
  <2>2. Known' = Known
    <3> DEFINE A == {p \in Requests : request[p].step = "save"}
               B == {p \in Requests : request'[p].step = "save"}
    <3>1. B = A
      BY <1>3
    <3>2. Known = cart \union {request[p].line : p \in A} /\ Known' = cart' \union {request'[p].line : p \in B}
      BY DEF Known, Serving
    <3>3. \A p \in A : request'[p].line = request[p].line
      BY <1>3
    <3> HIDE DEF A, B
    <3>4. {request'[p].line : p \in A} = {request[p].line : p \in A}
      BY <3>3
    <3> QED BY <1>1, <3>1, <3>2, <3>4
  <2>3. listing' \in [Goods -> PriceLists] /\ repricings' \in 0..MaxRepricings
    BY <1>2, CheckoutsAssumption DEF Reprice, CartInv
  <2> QED BY <1>1, <1>2, <2>1, <2>2, <2>3 DEF CartInv, CartLine
<1>5. OrderInv' /\ OrdersChargeTheirItems' /\ CouponLimitsHold'
  BY <1>1 DEF CheckoutsInv, OrderInv, OrdersChargeTheirItems, CouponLimitsHold, Redemptions
<1>6. ASSUME NEW s \in Shoppers \ tangled PROVE UnitsInv(s)'
  <2>1. UnitsInv(s) /\ s # "nobody"
    BY CheckoutsAssumption DEF CheckoutsInv
  <2>2. LinesOf(s)' = LinesOf(s) /\ \A g \in Goods : OrderedBy(s, g)' = OrderedBy(s, g)
    BY <1>1 DEF LinesOf, OrderedBy
  <2>3. \A r \in Requests : request[r].shopper = s => request[r].step # "idle"
    BY <2>1 DEF CheckoutsInv, RequestInv
  <2> QED BY <1>1, <1>3, <2>1, <2>2, <2>3, UnitsStay
<1> QED BY <1>1, <1>3, <1>4, <1>5, <1>6 DEF CheckoutsInv

LEMMA PlaceInv == ASSUME CheckoutsInv, NEW r \in Requests, PlaceOrder(r) PROVE CheckoutsInv'
<1>0. PICK s, q, o :
        /\ q = request[r] /\ s = q.shopper
        /\ o = [number |-> Cardinality(orders), shopper |-> s, items |-> q.items, subtotal |-> q.subtotal,
                discount |-> IF Redeems(r) THEN q.offer ELSE q.auto, redeemed |-> Redeems(r),
                stirred |-> q.stirred, late |-> q.late, before |-> Cardinality(Redemptions),
                own |-> Cardinality(RedeemedBy(s))]
  OBVIOUS
<1>1. /\ q.step = "commit" /\ Cardinality(orders) < MaxOrders /\ orders' = orders \union {o}
      /\ cart' = {l \in cart : l.shopper # s}
      /\ request' = [v \in Requests |->
             IF v = r THEN Quiet
             ELSE [request[v] EXCEPT !.stirred = @ \/ request[v].shopper = s,
                                     !.late = @ \/ (Redeems(r) /\ request[v].step \in PastTheForm)]]
      /\ UNCHANGED <<rows, touches, listing, repricings, asked, tangled>>
  BY <1>0 DEF PlaceOrder, Serving, Emptied
<1>2. /\ CartInv /\ OrderInv /\ OrdersChargeTheirItems /\ CouponLimitsHold
      /\ RequestInv(q) /\ ChargedInv(q) /\ RoomInv(q) /\ q \in Request /\ s \in Shoppers /\ IsFiniteSet(q.items)
  BY <1>0, <1>1 DEF CheckoutsInv, RequestInv, Request
<1>3. /\ IsFiniteSet(Redemptions) /\ IsFiniteSet(RedeemedBy(s))
  BY <1>2, FS_Subset DEF OrderInv, Redemptions, RedeemedBy
<1>4. /\ Redeems(r) \in BOOLEAN /\ (Redeems(r) => q.coupon # {} /\ q.offer >= q.auto)
  BY <1>0 DEF Redeems, UseCoupon
<1>5. /\ o \in Order /\ o.number = Cardinality(orders) /\ o.items = q.items /\ o.shopper = s /\ o.redeemed = Redeems(r)
      /\ o.stirred = q.stirred /\ o.late = q.late /\ o.subtotal = q.subtotal
      /\ o.discount = (IF Redeems(r) THEN q.offer ELSE q.auto)
      /\ o.before = Cardinality(Redemptions) /\ o.own = Cardinality(RedeemedBy(s))
  <2>1. Cardinality(orders) \in 0..(MaxOrders - 1)
    <3>1. Cardinality(orders) < MaxOrders /\ MaxOrders \in Nat
      BY <1>1, CheckoutsAssumption
    <3>2. Cardinality(orders) \in Nat
      BY <1>2, FS_CardinalityType DEF OrderInv
    <3> QED BY <3>1, <3>2
  <2>2. Cardinality(Redemptions) \in Nat /\ Cardinality(RedeemedBy(s)) \in Nat
    BY <1>3, FS_CardinalityType
  <2>3. /\ q.subtotal \in Nat /\ q.items \in SUBSET Items /\ q.stirred \in BOOLEAN /\ q.late \in BOOLEAN
        /\ (IF Redeems(r) THEN q.offer ELSE q.auto) \in Nat
    BY <1>2 DEF Request
  <2>4. o \in Order
    BY <1>0, <1>2, <1>4, <2>1, <2>2, <2>3 DEF Order
  <2> QED BY <1>0, <2>4
<1>6. o \notin orders /\ IsFiniteSet(orders') /\ Cardinality(orders') = Cardinality(orders) + 1 /\ Cardinality(orders) \in Nat
  <2>1. Cardinality(orders) \in Nat /\ o \notin orders
    BY <1>2, <1>5, FS_CardinalityType DEF OrderInv
  <2> QED BY <1>1, <1>2, <2>1, FS_AddElement DEF OrderInv
<1>7. OrderInv'
  <2>1. \A p \in orders : p.number < Cardinality(orders) /\ p.number \in Int /\ IsFiniteSet(p.items)
    BY <1>2 DEF OrderInv, Order
  <2>2. \A p \in orders \union {o} : p \in Order /\ p.number < Cardinality(orders) + 1 /\ IsFiniteSet(p.items)
    <3>1. \A p \in orders : p \in Order
      BY <1>2 DEF OrderInv
    <3>2. \A p \in orders : p.number < Cardinality(orders) + 1
      BY <1>6, <2>1
    <3>3. o.number < Cardinality(orders) + 1 /\ o \in Order /\ IsFiniteSet(o.items)
      BY <1>2, <1>5, <1>6
    <3> QED BY <2>1, <3>1, <3>2, <3>3
  <2>3. orders' = orders \union {o}
    BY <1>1
  <2> QED BY <1>6, <2>2, <2>3 DEF OrderInv
<1>8. OrdersChargeTheirItems'
  <2>1. ASSUME ~o.stirred
        PROVE  /\ o.subtotal = Subtotal(o.items) /\ o.discount <= o.subtotal
               /\ o.discount >= auto_promo_discount(TotalItems(o.items), o.subtotal)
    <3>1. Subtotal(q.items) \in Nat /\ TotalItems(q.items) \in Int
      BY <1>2, ItemsFacts DEF Request
    <3>2. /\ q.subtotal = Subtotal(q.items) /\ q.offer <= Subtotal(q.items)
          /\ q.auto = auto_promo_discount(TotalItems(q.items), Subtotal(q.items))
      BY <1>1, <1>2, <1>5, <2>1 DEF ChargedInv
    <3>3. q.auto \in 0..Subtotal(q.items) /\ q.offer \in Nat
      BY <1>2, <3>1, <3>2, PromoIsPart DEF Request
    <3> QED BY <1>4, <1>5, <3>1, <3>2, <3>3
  <2> QED BY <1>1, <1>2, <2>1 DEF OrdersChargeTheirItems
<1>9. CouponLimitsHold'
  <2>1. ASSUME Redeems(r), ~o.late
        PROVE  Within(o.before, Voucher.usage_limit, Unset) /\ Within(o.own, Voucher.per_user_limit, 0)
    BY <1>0, <1>1, <1>2, <1>4, <1>5, <2>1 DEF RoomInv, PastTheForm
  <2> QED BY <1>1, <1>2, <1>5, <2>1 DEF CouponLimitsHold, Redemptions
<1>10. ASSUME NEW v \in Requests \ {r}
       PROVE  /\ RequestInv(request[v])' /\ ChargedInv(request[v])' /\ RoomInv(request[v])'
              /\ request'[v].step = request[v].step /\ request'[v].shopper = request[v].shopper
              /\ request'[v].line = request[v].line /\ request'[v].items = request[v].items
  <2>0. PICK b, c : /\ b = (request[v].stirred \/ request[v].shopper = s)
                    /\ c = (request[v].late \/ (Redeems(r) /\ request[v].step \in PastTheForm))
    OBVIOUS
  <2>1. request[v] \in Request /\ b \in BOOLEAN /\ c \in BOOLEAN /\ RoomInv(request[v])
    BY <2>0 DEF CheckoutsInv, RequestInv, Request
  <2>2. request'[v] = [request[v] EXCEPT !.stirred = b, !.late = c]
    BY <1>1, <2>0, <2>1 DEF Request
  <2>3. ~b => /\ ~request[v].stirred /\ listing' = listing
              /\ {l \in cart' : l.shopper = request[v].shopper} = LinesOf(request[v].shopper)
    BY <1>1, <2>0 DEF LinesOf
  <2>4. Told(v, b, c) /\ rows' \in Nat /\ rows' >= rows
    <3>1. Told(v, b, c)
      BY <2>1, <2>2, <2>3 DEF Told
    <3>2. rows' = rows
      BY <1>1
    <3>3. rows \in Nat
      BY <1>2, CheckoutsAssumption DEF CartInv
    <3> QED BY <3>1, <3>2, <3>3
  <2>5. RequestInv(request[v])' /\ ChargedInv(request[v])'
    BY <2>4, ToldInv
  <2>6. /\ request'[v].step = request[v].step /\ request'[v].shopper = request[v].shopper
        /\ request'[v].line = request[v].line /\ request'[v].items = request[v].items
        /\ request'[v].coupon = request[v].coupon /\ request'[v].late = c
    BY <2>1, <2>2 DEF Request
  <2>7. RoomInv(request[v])'
    <3>1. CASE c /\ ~request[v].late
      BY <2>6, <3>1 DEF RoomInv
    <3>2. CASE c /\ request[v].late
      BY <2>6, <3>2 DEF RoomInv
    <3>3. CASE ~c
      <4>1. CASE request[v].step \notin PastTheForm
        BY <2>6, <4>1 DEF RoomInv
      <4>2. CASE request[v].step \in PastTheForm
        <5>1. Redemptions' = Redemptions /\ request'[v].late = request[v].late
          BY <1>1, <1>5, <2>0, <2>1, <2>6, <3>3, <4>2 DEF Redemptions, Request
        <5> QED BY <2>1, <2>6, <5>1, RoomStays
      <4> QED BY <4>1, <4>2
    <3> QED BY <2>1, <3>1, <3>2, <3>3
  <2> QED BY <2>5, <2>6, <2>7
<1>11. request'[r] = Quiet /\ DOMAIN request' = Requests /\ Quiet.step = "idle" /\ Quiet.shopper = "nobody"
  BY <1>1, QuietIsRequest
<1>12. ASSUME NEW v \in Requests PROVE RequestInv(request[v])' /\ ChargedInv(request[v])' /\ RoomInv(request[v])'
  <2>1. CASE v = r
    <3>1. RequestInv(request[v])'
      BY <1>11, <2>1, QuietIsRequest DEF RequestInv
    <3> QED BY <1>11, <2>1, <3>1 DEF ChargedInv, RoomInv, PastTheForm
  <2> QED BY <1>10, <2>1
<1>13. CartInv'
  <2>1. Inserting' = Inserting
    BY <1>0, <1>1, <1>10, <1>11 DEF Inserting, Serving
  <2>2. Known' \subseteq Known
    <3>1. \A p \in Requests : request'[p].step = "save" => request[p].step = "save" /\ request'[p].line = request[p].line
      BY <1>10, <1>11
    <3>2. cart' \subseteq cart
      BY <1>1
    <3> QED BY <3>1, <3>2 DEF Known, Serving
  <2>3. \A l, k \in Known' : l.row = k.row => l.shopper = k.shopper /\ l.good = k.good
    BY <1>2, <2>2 DEF CartInv
  <2>4. cart' \in SUBSET CartLine' /\ IsFiniteSet(cart') /\ \A l, k \in cart' : l.row = k.row => l = k
    <3>1. cart' \in SUBSET cart
      BY <1>1
    <3>2. IsFiniteSet(cart')
      BY <1>2, <3>1, FS_Subset DEF CartInv
    <3> QED BY <1>1, <1>2, <3>1, <3>2 DEF CartInv, CartLine
  <2> QED BY <1>1, <1>2, <2>1, <2>3, <2>4 DEF CartInv
<1>14. ASSUME NEW t \in Shoppers \ tangled PROVE UnitsInv(t)'
  <2>0. UnitsInv(t) /\ t # "nobody"
    BY CheckoutsAssumption DEF CheckoutsInv
  <2>1. \A g \in Goods : /\ OrderedBy(t, g)' = OrderedBy(t, g) + IF t = s THEN UnitsIn(q.items, g) ELSE 0
                         /\ OrderedBy(t, g) \in Int
    <3>1. \A g : /\ OrderedIn(orders \union {o}, t, g)
                        = OrderedIn(orders, t, g) + IF o.shopper = t THEN UnitsIn(o.items, g) ELSE 0
                 /\ OrderedIn(orders, t, g) \in Int
      BY <1>2, <1>5, OrderedWith
    <3>2. \A g \in Goods : OrderedBy(t, g) = OrderedIn(orders, t, g) /\ OrderedBy(t, g)' = OrderedIn(orders', t, g)
      BY DEF OrderedBy, OrderedIn
    <3> QED BY <1>1, <1>5, <3>1, <3>2
  <2>2. CASE t # s
    <3>1. LinesOf(t)' = LinesOf(t)
      BY <1>1, <2>2 DEF LinesOf
    <3>2. \A g \in Goods : OrderedBy(t, g)' = OrderedBy(t, g)
      BY <2>1, <2>2
    <3>3. \A v \in Requests : request'[v].shopper = t <=> request[v].shopper = t
      BY <1>0, <1>10, <1>11, <2>0, <2>2
    <3> QED BY <1>0, <1>1, <1>10, <2>0, <2>2, <3>1, <3>2, <3>3, UnitsStay
  <2>3. CASE t = s
    <3>1. LinesOf(t)' = {}
      BY <1>1, <2>3 DEF LinesOf
    <3>2. AloneInv(t, q) /\ \A v \in Requests : request'[v].shopper # t
      BY <1>0, <1>10, <1>11, <2>0, <2>3 DEF UnitsInv
    <3>3. ASSUME NEW g \in Goods PROVE UnitsIn(LinesOf(t)', g) + OrderedBy(t, g)' = asked'[t][g]
      <4>1. /\ UnitsIn(q.items, g) = UnitsIn(LinesOf(t), g)
            /\ UnitsIn(LinesOf(t), g) + OrderedBy(t, g) + Due(q, g) = asked[t][g]
        BY <1>1, <3>2 DEF AloneInv, CheckingOut
      <4>2. Due(q, g) = 0
        BY <1>1 DEF Due
      <4>3. UnitsIn(LinesOf(t), g) \in Int
        BY <1>2, LinesFacts
      <4>4. OrderedBy(t, g)' = OrderedBy(t, g) + UnitsIn(q.items, g) /\ OrderedBy(t, g) \in Int
        BY <2>1, <2>3
      <4>5. UnitsIn(LinesOf(t)', g) = 0
        BY <3>1, UnitsOfNothing
      <4>6. asked' = asked
        BY <1>1
      <4> QED BY <4>1, <4>2, <4>3, <4>4, <4>5, <4>6
    <3> QED BY <3>1, <3>2, <3>3 DEF UnitsInv
  <2> QED BY <2>2, <2>3
<1>15. tangled' = tangled
  BY <1>1
<1> QED BY <1>7, <1>8, <1>9, <1>11, <1>12, <1>13, <1>14, <1>15 DEF CheckoutsInv

-----------------------------------------------------------------------------
(* All of it                                                               *)

LEMMA CheckoutsInitInv == CheckoutsInit => CheckoutsInv
<1> SUFFICES ASSUME CheckoutsInit PROVE CheckoutsInv
  OBVIOUS
<1>1. cart = {} /\ rows = 0 /\ touches = 0 /\ orders = {} /\ tangled = {} /\ \A r \in Requests : request[r] = Quiet
  BY DEF CheckoutsInit
<1>2. CartInv
  <2>1. Inserting = {} /\ Known = {}
    BY <1>1, QuietIsRequest DEF Inserting, Known, Serving
  <2>2. 0 \in 0..MaxTouches /\ 0 \in 0..MaxRepricings
    BY CheckoutsAssumption
  <2>3. listing \in [Goods -> PriceLists] /\ repricings = 0 /\ asked \in [Shoppers -> [Goods -> Int]]
    BY CheckoutsAssumption DEF CheckoutsInit
  <2> QED BY <1>1, <2>1, <2>2, <2>3, FS_EmptySet DEF CartInv
<1>3. OrderInv /\ OrdersChargeTheirItems /\ CouponLimitsHold
  BY <1>1, FS_EmptySet DEF OrderInv, OrdersChargeTheirItems, CouponLimitsHold, Redemptions
<1>4. \A r \in Requests : RequestInv(request[r]) /\ ChargedInv(request[r]) /\ RoomInv(request[r])
  BY <1>1, QuietIsRequest, QuietIsFine
<1>5. ASSUME NEW s \in Shoppers PROVE UnitsInv(s)
  <2>1. s # "nobody" /\ LinesOf(s) = {} /\ \A r \in Requests : request[r].shopper # s
    BY <1>1, QuietIsRequest, CheckoutsAssumption DEF LinesOf
  <2>2. ASSUME NEW g \in Goods PROVE UnitsIn(LinesOf(s), g) + OrderedBy(s, g) = asked[s][g]
    <3>1. {[row |-> o.number, quantity |-> UnitsIn(o.items, g)] : o \in {p \in orders : p.shopper = s}} = {}
      BY <1>1
    <3>2. OrderedBy(s, g) = 0
      BY <3>1, TotalOfNothing DEF OrderedBy
    <3>3. UnitsIn(LinesOf(s), g) = 0 /\ asked[s][g] = 0
      BY <2>1, UnitsOfNothing DEF CheckoutsInit
    <3> QED BY <3>2, <3>3
  <2> QED BY <2>1, <2>2 DEF UnitsInv
<1>6. DOMAIN request = Requests
  BY DEF CheckoutsInit
<1> QED BY <1>2, <1>3, <1>4, <1>5, <1>6 DEF CheckoutsInv

LEMMA CheckoutsStepInv == CheckoutsInv /\ [CheckoutsNext]_checkoutVars => CheckoutsInv'
<1> SUFFICES ASSUME CheckoutsInv, [CheckoutsNext]_checkoutVars PROVE CheckoutsInv'
  OBVIOUS
<1>1. ASSUME NEW r \in Requests, add_to_cart(r) PROVE CheckoutsInv'
  BY <1>1, AddInv
<1>2. ASSUME NEW r \in Requests, InsertLine(r) PROVE CheckoutsInv'
  BY <1>2, InsertInv
<1>3. ASSUME NEW r \in Requests, update_cart_item(r) \/ remove_cart_item(r) PROVE CheckoutsInv'
  BY <1>3, SetInv
<1>4. ASSUME NEW r \in Requests, SaveLine(r) PROVE CheckoutsInv'
  BY <1>4, SaveInv
<1>5. ASSUME NEW r \in Requests, checkout(r) PROVE CheckoutsInv'
  BY <1>5, CheckoutInv
<1>6. ASSUME NEW r \in Requests, ReadPromo(r) \/ clean_coupon_code(r) \/ ReadOffer(r) \/ ReadSubtotal(r) \/ Refused(r)
      PROVE  CheckoutsInv'
  BY <1>6, ReckonInv
<1>7. ASSUME NEW r \in Requests, PlaceOrder(r) PROVE CheckoutsInv'
  BY <1>7, PlaceInv
<1>8. CASE Reprice
  BY <1>8, RepriceInv
<1>9. CASE UNCHANGED checkoutVars
  <2>1. /\ UNCHANGED <<cart, rows, listing, orders>> /\ request' = request /\ touches' = touches
        /\ repricings' = repricings /\ asked' = asked /\ tangled' = tangled
    BY <1>9 DEF checkoutVars
  <2>2. CartInv' /\ OrderInv' /\ OrdersChargeTheirItems' /\ CouponLimitsHold'
    <3>1. CartInv'
      BY <2>1 DEF CheckoutsInv, CartInv, CartLine, Inserting, Known, Serving
    <3> QED BY <2>1, <3>1 DEF CheckoutsInv, OrderInv, OrdersChargeTheirItems, CouponLimitsHold, Redemptions
  <2>3. ASSUME NEW r \in Requests PROVE RequestInv(request[r])' /\ ChargedInv(request[r])' /\ RoomInv(request[r])'
    BY <2>1, StandsStill DEF CheckoutsInv
  <2>4. ASSUME NEW s \in Shoppers \ tangled PROVE UnitsInv(s)'
    BY <2>1, UnitsStandStill DEF CheckoutsInv
  <2>5. DOMAIN request' = Requests
    BY <2>1 DEF CheckoutsInv
  <2> QED BY <2>1, <2>2, <2>3, <2>4, <2>5 DEF CheckoutsInv
<1> QED BY <1>1, <1>2, <1>3, <1>4, <1>5, <1>6, <1>7, <1>8, <1>9 DEF CheckoutsNext

\* What it says of orders, carts, invoices and types.
LEMMA CheckoutsInvCharges == CheckoutsInv => OrdersChargeTheirItems /\ CouponLimitsHold
BY DEF CheckoutsInv

LEMMA CheckoutsInvUnits == CheckoutsInv => EveryUnitOrderedOnce
<1> SUFFICES ASSUME CheckoutsInv, NEW s \in Shoppers \ tangled, \A r \in Requests : request[r].shopper # s, NEW g \in Goods
             PROVE  /\ UnitsIn(LinesOf(s), g) + OrderedBy(s, g) = asked[s][g]
                    /\ Cardinality({l \in LinesOf(s) : l.good = g}) <= 1
  BY DEF EveryUnitOrderedOnce
<1>1. UnitsInv(s)
  BY DEF CheckoutsInv
<1> DEFINE T == {l \in LinesOf(s) : l.good = g}
<1>2. \A l, m \in T : l = m
  BY <1>1 DEF UnitsInv
<1>3. Cardinality(T) <= 1
  <2>1. CASE T = {}
    BY <2>1, FS_EmptySet
  <2>2. CASE T # {}
    <3>1. PICK l : T = {l}
      BY <1>2, <2>2
    <3> HIDE DEF T
    <3> QED BY <3>1, FS_Singleton
  <2> QED BY <2>1, <2>2
<1> QED BY <1>1, <1>3 DEF UnitsInv

LEMMA CheckoutsInvInvoice == CheckoutsInv => InvoiceAddsUp
<1> SUFFICES ASSUME CheckoutsInv, NEW o \in orders, NEW interstate \in BOOLEAN
             PROVE  LET i == InvoiceAmounts(o.items, o.subtotal - o.discount, interstate)
                        Off(l) == 10000 * tax_amount(l) - l.gst_rate * taxable_value(l)
                    IN  /\ i.cgst_amount + i.sgst_amount + i.igst_amount - i.total_tax \in -1..1
                        /\ \A l \in o.items : 2 * Off(l) \in -(10000 + l.gst_rate)..(10000 + l.gst_rate)
                        /\ ~o.stirred => i.taxable_amount + i.total_tax = i.total_amount + o.discount
  BY DEF InvoiceAddsUp
<1> DEFINE i == InvoiceAmounts(o.items, o.subtotal - o.discount, interstate)
<1>1. /\ o.items \in SUBSET Items /\ IsFiniteSet(o.items) /\ o.subtotal \in Nat /\ o.discount \in Nat
      /\ ~o.stirred => o.subtotal = Subtotal(o.items)
  BY DEF CheckoutsInv, OrderInv, Order, OrdersChargeTheirItems
<1>2. \A l \in o.items : l.unit_price \in Nat /\ l.quantity \in Nat /\ l.gst_rate \in Nat
  BY <1>1, CheckoutsAssumption DEF Items
<1>3. /\ i.cgst_amount + i.sgst_amount + i.igst_amount - i.total_tax \in -1..1
      /\ i.taxable_amount + i.total_tax = Subtotal(o.items) /\ i.total_amount = o.subtotal - o.discount
  BY <1>1, <1>2, InvoiceOf
<1>4. \A l \in o.items : 2 * (10000 * tax_amount(l) - l.gst_rate * taxable_value(l))
                            \in -(10000 + l.gst_rate)..(10000 + l.gst_rate)
  BY <1>2, LineAmounts
<1> HIDE DEF i
<1>5. ~o.stirred => i.taxable_amount + i.total_tax = i.total_amount + o.discount
  BY <1>1, <1>3
<1> QED BY <1>3, <1>4, <1>5 DEF i

LEMMA CheckoutsInvTypes == CheckoutsInv => CheckoutsTypeOK
<1> SUFFICES ASSUME CheckoutsInv PROVE CheckoutsTypeOK
  OBVIOUS
<1>0. /\ CartInv /\ OrderInv /\ MaxTouches \in Nat /\ "nobody" \notin Shoppers
      /\ \A r \in Requests : request[r] \in Request
  BY CheckoutsAssumption DEF CheckoutsInv, RequestInv
<1>1. cart \subseteq CartLines /\ rows \in 0..MaxTouches /\ touches \in rows..MaxTouches
  <2>1. Cardinality(Inserting) \in Nat /\ rows + Cardinality(Inserting) <= touches /\ rows \in 0..MaxTouches /\ touches \in 0..MaxTouches
    BY <1>0, FS_CardinalityType DEF CartInv
  <2>2. ASSUME NEW l \in cart PROVE l \in CartLines
    <3>1. l \in CartLine
      BY <1>0 DEF CartInv
    <3>2. l.row \in 0..MaxTouches /\ l.quantity \in 0..MaxQuantity
      BY <2>1, <3>1, <1>0, CheckoutsAssumption DEF CartLine
    <3> QED BY <3>1, <3>2 DEF CartLine, CartLines
  <2> QED BY <1>0, <2>1, <2>2
<1>2. \A o \in orders :
        /\ o.number \in 0..(MaxOrders - 1) /\ o.shopper \in Shoppers /\ o.items \subseteq Items
        /\ o.subtotal \in Nat /\ o.discount \in Nat /\ {o.redeemed, o.stirred, o.late} \subseteq BOOLEAN
        /\ {o.before, o.own} \subseteq Nat
  <2>1. \A o \in orders : o \in Order
    BY <1>0 DEF OrderInv
  <2> QED BY <2>1 DEF Order
<1>3. \A r \in Requests :
        /\ request[r].step \in {"idle", "insert", "save", "promo", "form", "offer", "place", "commit"}
        /\ request[r].line \in CartLines /\ request[r].items \subseteq Items
        /\ request[r].coupon \subseteq {Voucher}
        /\ {request[r].auto, request[r].offer, request[r].subtotal} \subseteq Nat
  BY <1>0 DEF Request, CheckingOut
<1> QED BY <1>0, <1>1, <1>2, <1>3 DEF CheckoutsTypeOK, CartInv

-----------------------------------------------------------------------------
(* What staff read about sales                                             *)

Sale == [day : Nat, items : Baskets, discount : Nat, status : SaleStatus,
         payment : {"created"} \union RevenueRecognized, refunded : Nat]

\* What holds of a placed order on the day given: it leaves something to pay, no more came back than
\* was paid, and it counts as revenue only when it was paid for.
SaleSound(s, day) ==
    /\ s.day <= day
    /\ s.discount < Subtotal(s.items)
    /\ s.refunded <= Subtotal(s.items) - s.discount
    /\ s.status \in PaidStatuses => s.payment \in RevenueRecognized

ReportsInv ==
    /\ sales \in Seq(Sale) /\ Len(sales) <= MaxSales
    /\ \A o \in 1..Len(sales) : SaleSound(sales[o], today)
    /\ cost_price \in UNION {[S -> {0} \union CostPrices] : S \in SUBSET Articles}
    /\ today \in 0..LastDay

\* The promo leaves something to pay.
LEMMA PromoLeavesSome ==
    ASSUME NEW items \in Int, NEW subtotal \in Nat \ {0}
    PROVE  auto_promo_discount(items, subtotal) \in Nat /\ auto_promo_discount(items, subtotal) < subtotal
<1> DEFINE share == Quantized(subtotal * AUTO_PROMO_PERCENT, 10000)
<1>1. share \in Nat /\ 2 * (10000 * share - subtotal * 1000) <= 10000
  <2>1. subtotal * AUTO_PROMO_PERCENT \in Nat /\ AUTO_PROMO_PERCENT = 1000
    BY DEF AUTO_PROMO_PERCENT
  <2> QED BY <2>1, QuantizedIsNear, QuantizedIsNat
<1> HIDE DEF share
<1>2. share < subtotal
  BY <1>1
<1>3. auto_promo_discount(items, subtotal) \in {0, share, 5000} /\ auto_promo_discount(items, subtotal) <= share
  BY <1>1 DEF auto_promo_discount, Least, AUTO_PROMO_MAX_DISCOUNT, share
<1> QED BY <1>1, <1>2, <1>3

\* What a basket comes to
LEMMA BasketFacts ==
    ASSUME NEW b \in Baskets
    PROVE  /\ IsFiniteSet(b) /\ Subtotal(b) \in Nat \ {0} /\ TotalItems(b) \in Nat
           /\ \A l \in b : l.article \in Articles /\ l.unit_price \in Nat /\ l.quantity \in Nat \ {0} /\ l.gst_rate \in Nat
<1> DEFINE f == [l \in b |-> LineTotal(l)]
           e == [l \in b |-> l.quantity]
<1>1. /\ IsFiniteSet(b) /\ Subtotal(b) > 0
      /\ \A l \in b : l.article \in Articles /\ l.unit_price \in Nat /\ l.quantity \in Nat \ {0} /\ l.gst_rate \in Nat
  BY ReportsAssumption
<1>2. \A l \in b : f[l] \in Nat /\ e[l] \in Nat
  BY <1>1 DEF LineTotal
<1>3. Subtotal(b) = SumOver(f, b) /\ TotalItems(b) = SumOver(e, b)
  BY <1>1, SubtotalIsSum, TotalItemsIsSum
<1> HIDE DEF f, e
<1>4. Subtotal(b) \in Nat /\ TotalItems(b) \in Nat
  BY <1>1, <1>2, <1>3, SumIsNat
<1> QED BY <1>1, <1>4

LEMMA ReportsInitInv == ReportsInit => ReportsInv
<1> SUFFICES ASSUME ReportsInit PROVE ReportsInv
  OBVIOUS
<1>1. sales \in Seq(Sale) /\ Len(sales) = 0
  BY DEF ReportsInit
<1>2. cost_price \in [Articles -> {0} \union CostPrices]
  BY DEF ReportsInit
<1>3. cost_price \in UNION {[S -> {0} \union CostPrices] : S \in SUBSET Articles}
  BY <1>2
<1> QED BY <1>1, <1>3, ReportsAssumption DEF ReportsInit, ReportsInv

LEMMA PlaceSaleInv == ASSUME ReportsInv, PlaceSale PROVE ReportsInv'
<1>1. PICK b \in Baskets :
        sales' = Append(sales,
            [day |-> today, items |-> b, discount |-> auto_promo_discount(TotalItems(b), Subtotal(b)),
             status |-> "awaiting_payment", payment |-> "created", refunded |-> 0])
  BY DEF PlaceSale
<1> DEFINE off == auto_promo_discount(TotalItems(b), Subtotal(b))
           new == [day |-> today, items |-> b, discount |-> off,
                   status |-> "awaiting_payment", payment |-> "created", refunded |-> 0]
<1>2. off \in Nat /\ off < Subtotal(b) /\ Subtotal(b) \in Nat
  BY BasketFacts, PromoLeavesSome
<1>3. sales' = Append(sales, new)
  BY <1>1
<1> HIDE DEF off
<1>4. new \in Sale /\ SaleSound(new, today)
  BY <1>2, ReportsAssumption DEF Sale, SaleSound, SaleStatus, PaidStatuses, ReportsInv
<1> HIDE DEF new
<1>5. /\ sales' \in Seq(Sale) /\ Len(sales') = Len(sales) + 1
      /\ \A o \in 1..Len(sales') : sales'[o] = IF o = Len(sales) + 1 THEN new ELSE sales[o]
  BY <1>3, <1>4 DEF ReportsInv
<1>6. Len(sales') <= MaxSales
  BY <1>5, ReportsAssumption DEF PlaceSale, ReportsInv
<1>7. \A o \in 1..Len(sales') : SaleSound(sales'[o], today)
  <2> TAKE o \in 1..Len(sales')
  <2>1. o = Len(sales) + 1 \/ o \in 1..Len(sales)
    BY <1>5 DEF ReportsInv
  <2> QED BY <1>4, <1>5, <2>1 DEF ReportsInv
<1> QED BY <1>5, <1>6, <1>7 DEF PlaceSale, ReportsInv

\* An order is what it was, but for the two statuses and the refunds.
LEMMA SetSaleInv ==
    ASSUME ReportsInv, NEW o \in Placed, NEW s, NEW p, NEW back \in Nat,
           SetSale(o, [sales[o] EXCEPT !.status = s, !.payment = p, !.refunded = back]),
           s \in SaleStatus, p \in {"created"} \union RevenueRecognized, s \in PaidStatuses => p \in RevenueRecognized,
           back <= TotalAmount(o)
    PROVE  ReportsInv'
<1> DEFINE sale == [sales[o] EXCEPT !.status = s, !.payment = p, !.refunded = back]
<1>1. o \in 1..Len(sales) /\ sales \in Seq(Sale) /\ sales[o] \in Sale /\ SaleSound(sales[o], today)
  BY DEF Placed, ReportsInv
<1>2. sale \in Sale /\ SaleSound(sale, today)
  BY <1>1 DEF Sale, SaleSound, TotalAmount
<1>3. sales' = [sales EXCEPT ![o] = sale] /\ UNCHANGED <<cost_price, today>>
  BY DEF SetSale
<1> HIDE DEF sale
<1>4. /\ sales' \in Seq(Sale) /\ Len(sales') = Len(sales)
      /\ \A q \in 1..Len(sales) : sales'[q] = IF q = o THEN sale ELSE sales[q]
  BY <1>1, <1>2, <1>3, ExceptSeq
<1>5. \A q \in 1..Len(sales') : SaleSound(sales'[q], today)
  BY <1>2, <1>4 DEF ReportsInv
<1> QED BY <1>3, <1>4, <1>5 DEF ReportsInv

\* A step of an order.
LEMMA SaleMovesInv ==
    ASSUME ReportsInv, NEW o \in Placed, CaptureSale(o) \/ CancelSale(o) \/ ShipSale(o) \/ RefundSale(o)
    PROVE  ReportsInv'
<1>1. sales[o] \in Sale /\ SaleSound(sales[o], today) /\ Subtotal(sales[o].items) \in Nat \ {0}
  <2>1. sales[o] \in Sale /\ SaleSound(sales[o], today)
    BY DEF Placed, ReportsInv
  <2>2. sales[o].items \in Baskets
    BY <2>1 DEF Sale
  <2> QED BY <2>1, <2>2, BasketFacts
<1>2. /\ sales[o].refunded \in Nat /\ sales[o].refunded <= TotalAmount(o) /\ TotalAmount(o) \in Nat /\ TotalAmount(o) > 0
      /\ sales[o].payment \in {"created"} \union RevenueRecognized
      /\ sales[o].status \in PaidStatuses => sales[o].payment \in RevenueRecognized
  BY <1>1 DEF Sale, SaleSound, TotalAmount
<1>3. CASE CaptureSale(o)
  <2>1. SetSale(o, [sales[o] EXCEPT !.status = "payment_confirmed", !.payment = "captured", !.refunded = sales[o].refunded])
    BY <1>1, <1>3 DEF CaptureSale, SetSale, Sale
  <2> QED BY <1>2, <2>1, SetSaleInv DEF SaleStatus, PaidStatuses, RevenueRecognized
<1>4. CASE CancelSale(o)
  <2>1. SetSale(o, [sales[o] EXCEPT !.status = "cancelled", !.payment = sales[o].payment, !.refunded = sales[o].refunded])
    BY <1>1, <1>4 DEF CancelSale, SetSale, Sale
  <2>2. "cancelled" \in SaleStatus /\ "cancelled" \notin PaidStatuses
    BY DEF SaleStatus, PaidStatuses
  <2> QED BY <1>2, <2>1, <2>2, SetSaleInv
<1>5. CASE ShipSale(o)
  <2>1. SetSale(o, [sales[o] EXCEPT !.status = "shipped", !.payment = sales[o].payment, !.refunded = sales[o].refunded])
    BY <1>1, <1>5 DEF ShipSale, SetSale, Sale
  <2> QED BY <1>2, <1>5, <2>1, SetSaleInv DEF ShipSale, SaleStatus, PaidStatuses
<1>6. CASE RefundSale(o)
  <2>1. PICK amount \in {1, TotalAmount(o) - sales[o].refunded}, is \in {"refunded", "partially_refunded"} :
            /\ amount = 1 => sales[o].refunded = 0
            /\ SetSale(o, [sales[o] EXCEPT !.refunded = sales[o].refunded + amount, !.status = is, !.payment = is])
    BY <1>6 DEF RefundSale
  <2>2. sales[o].refunded + amount \in Nat /\ sales[o].refunded + amount <= TotalAmount(o)
    BY <1>2, <2>1
  <2>3. SetSale(o, [sales[o] EXCEPT !.status = is, !.payment = is, !.refunded = sales[o].refunded + amount])
    BY <1>1, <2>1 DEF SetSale, Sale
  <2> QED BY <2>2, <2>3, SetSaleInv DEF SaleStatus, PaidStatuses, RevenueRecognized
<1> QED BY <1>3, <1>4, <1>5, <1>6

LEMMA ReportsStepInv == ReportsInv /\ [ReportsNext]_reportVars => ReportsInv'
<1> SUFFICES ASSUME ReportsInv, [ReportsNext]_reportVars PROVE ReportsInv'
  OBVIOUS
<1> DEFINE CostLists == UNION {[S -> {0} \union CostPrices] : S \in SUBSET Articles}
<1>0. PICK S \in SUBSET Articles : cost_price \in [S -> {0} \union CostPrices]
  BY DEF ReportsInv
<1>1. CASE UNCHANGED reportVars
  BY <1>1 DEF reportVars, ReportsInv
<1>2. CASE PlaceSale
  BY <1>2, PlaceSaleInv
<1>3. ASSUME NEW o \in Placed, CaptureSale(o) \/ CancelSale(o) \/ ShipSale(o) \/ RefundSale(o) PROVE ReportsInv'
  BY <1>3, SaleMovesInv
<1>4. CASE SetCostPrice
  <2>1. cost_price' \in [S -> {0} \union CostPrices]
    BY <1>0, <1>4 DEF SetCostPrice
  <2>2. cost_price' \in CostLists
    BY <2>1
  <2> QED BY <1>4, <2>2 DEF SetCostPrice, ReportsInv
<1>5. CASE DeleteProduct
  <2>1. PICK g \in S : cost_price' = [h \in S \ {g} |-> cost_price[h]]
    BY <1>0, <1>5 DEF DeleteProduct
  <2>2. cost_price' \in [S \ {g} -> {0} \union CostPrices] /\ S \ {g} \in SUBSET Articles
    BY <1>0, <2>1
  <2>3. cost_price' \in CostLists
    BY <2>2
  <2> QED BY <1>5, <2>3 DEF DeleteProduct, ReportsInv
<1>6. CASE DayPasses
  <2>1. today' \in 0..LastDay /\ today' = today + 1 /\ today \in Nat
    BY <1>6, ReportsAssumption DEF DayPasses, ReportsInv
  <2>2. \A o \in 1..Len(sales) : SaleSound(sales[o], today')
    <3> TAKE o \in 1..Len(sales)
    <3>1. sales[o] \in Sale /\ SaleSound(sales[o], today)
      BY DEF ReportsInv
    <3>2. sales[o].day \in Nat
      BY <3>1 DEF Sale
    <3> QED BY <2>1, <3>1, <3>2 DEF SaleSound
  <2> QED BY <1>6, <2>1, <2>2 DEF DayPasses, ReportsInv
<1> QED BY <1>1, <1>2, <1>3, <1>4, <1>5, <1>6 DEF ReportsNext

LEMMA ReportsInvTypes == ReportsInv => ReportsTypeOK
<1> SUFFICES ASSUME ReportsInv PROVE ReportsTypeOK
  OBVIOUS
<1>1. Placed = 1..Len(sales)
  BY DEF ReportsInv, Placed
<1>2. ASSUME NEW o \in Placed
      PROVE  /\ sales[o].day \in 0..today /\ sales[o].items \in Baskets /\ sales[o].discount \in Nat
             /\ sales[o].status \in SaleStatus
             /\ sales[o].payment \in {"created"} \union RevenueRecognized /\ sales[o].refunded \in 0..TotalAmount(o)
  <2>1. sales[o] \in Sale /\ SaleSound(sales[o], today)
    BY <1>1 DEF ReportsInv
  <2>2. Subtotal(sales[o].items) \in Nat
    BY <2>1, BasketFacts DEF Sale
  <2> QED BY <2>1, <2>2 DEF Sale, SaleSound, TotalAmount, ReportsInv
<1> QED BY <1>1, <1>2 DEF ReportsInv, ReportsTypeOK

LEMMA SubtotalsAreSum ==
    ASSUME NEW S, IsFiniteSet(S)
    PROVE  MapThenSumSet(SubtotalOf, S) = SumOver([o \in S |-> SubtotalOf(o)], S)
<1> DEFINE f == [o \in S |-> SubtotalOf(o)]
           P(g) == g = [s \in SUBSET S |-> IF s = {} THEN 0 ELSE SubtotalOf(Some(s)) + g[s \ {Some(s)}]]
<1>1. \A g : P(g) <=> Adds(g, f, S)
  BY SomeIsIn DEF Adds
<1>2. MapThenSumSet(SubtotalOf, S) = (CHOOSE g : P(g))[S]
  BY DEF MapThenSumSet, MapThenFoldSet, Some
<1> HIDE DEF P, f
<1> QED BY <1>1, <1>2, SumExists, SumIsThat DEF f

LEMMA TotalAmountsAreSum ==
    ASSUME NEW S, IsFiniteSet(S)
    PROVE  MapThenSumSet(TotalAmount, S) = SumOver([o \in S |-> TotalAmount(o)], S)
<1> DEFINE f == [o \in S |-> TotalAmount(o)]
           P(g) == g = [s \in SUBSET S |-> IF s = {} THEN 0 ELSE TotalAmount(Some(s)) + g[s \ {Some(s)}]]
<1>1. \A g : P(g) <=> Adds(g, f, S)
  BY SomeIsIn DEF Adds
<1>2. MapThenSumSet(TotalAmount, S) = (CHOOSE g : P(g))[S]
  BY DEF MapThenSumSet, MapThenFoldSet, Some
<1> HIDE DEF P, f
<1> QED BY <1>1, <1>2, SumExists, SumIsThat DEF f

LEMMA RefundsAreSum ==
    ASSUME NEW S, IsFiniteSet(S)
    PROVE  MapThenSumSet(_refunded_amount, S) = SumOver([o \in S |-> _refunded_amount(o)], S)
<1> DEFINE f == [o \in S |-> _refunded_amount(o)]
           P(g) == g = [s \in SUBSET S |-> IF s = {} THEN 0 ELSE _refunded_amount(Some(s)) + g[s \ {Some(s)}]]
<1>1. \A g : P(g) <=> Adds(g, f, S)
  BY SomeIsIn DEF Adds
<1>2. MapThenSumSet(_refunded_amount, S) = (CHOOSE g : P(g))[S]
  BY DEF MapThenSumSet, MapThenFoldSet, Some
<1> HIDE DEF P, f
<1> QED BY <1>1, <1>2, SumExists, SumIsThat DEF f

LEMMA ItemsAreSum ==
    ASSUME NEW S, IsFiniteSet(S)
    PROVE  MapThenSumSet(LAMBDA o : TotalItems(sales[o].items), S) = SumOver([o \in S |-> TotalItems(sales[o].items)], S)
<1> DEFINE f == [o \in S |-> TotalItems(sales[o].items)]
           P(g) == g = [s \in SUBSET S |-> IF s = {} THEN 0 ELSE TotalItems(sales[Some(s)].items) + g[s \ {Some(s)}]]
<1>1. \A g : P(g) <=> Adds(g, f, S)
  BY SomeIsIn DEF Adds
<1>2. MapThenSumSet(LAMBDA o : TotalItems(sales[o].items), S) = (CHOOSE g : P(g))[S]
  BY DEF MapThenSumSet, MapThenFoldSet, Some
<1> HIDE DEF P, f
<1> QED BY <1>1, <1>2, SumExists, SumIsThat DEF f

LEMMA UnitsAreSum ==
    ASSUME NEW S, IsFiniteSet(S)
    PROVE  MapThenSumSet(LAMBDA s : s.line.quantity, S) = SumOver([x \in S |-> x.line.quantity], S)
<1> DEFINE f == [x \in S |-> x.line.quantity]
           P(g) == g = [s \in SUBSET S |-> IF s = {} THEN 0 ELSE Some(s).line.quantity + g[s \ {Some(s)}]]
<1>1. \A g : P(g) <=> Adds(g, f, S)
  BY SomeIsIn DEF Adds
<1>2. MapThenSumSet(LAMBDA s : s.line.quantity, S) = (CHOOSE g : P(g))[S]
  BY DEF MapThenSumSet, MapThenFoldSet, Some
<1> HIDE DEF P, f
<1> QED BY <1>1, <1>2, SumExists, SumIsThat DEF f

LEMMA RevenueIsSum ==
    ASSUME NEW S, IsFiniteSet(S)
    PROVE  MapThenSumSet(LAMBDA s : taxable_value(s.line), S) = SumOver([x \in S |-> taxable_value(x.line)], S)
<1> DEFINE f == [x \in S |-> taxable_value(x.line)]
           P(g) == g = [s \in SUBSET S |-> IF s = {} THEN 0 ELSE taxable_value(Some(s).line) + g[s \ {Some(s)}]]
<1>1. \A g : P(g) <=> Adds(g, f, S)
  BY SomeIsIn DEF Adds
<1>2. MapThenSumSet(LAMBDA s : taxable_value(s.line), S) = (CHOOSE g : P(g))[S]
  BY DEF MapThenSumSet, MapThenFoldSet, Some
<1> HIDE DEF P, f
<1> QED BY <1>1, <1>2, SumExists, SumIsThat DEF f

LEMMA FeesAreSum ==
    ASSUME NEW common, NEW S, IsFiniteSet(S)
    PROVE  MapThenSumSet(LAMBDA s : TotalAmount(s.order) * ShareOfOrder(s, common), S) = SumOver([x \in S |-> TotalAmount(x.order) * ShareOfOrder(x, common)], S)
<1> DEFINE f == [x \in S |-> TotalAmount(x.order) * ShareOfOrder(x, common)]
           P(g) == g = [s \in SUBSET S |-> IF s = {} THEN 0 ELSE TotalAmount(Some(s).order) * ShareOfOrder(Some(s), common) + g[s \ {Some(s)}]]
<1>1. \A g : P(g) <=> Adds(g, f, S)
  BY SomeIsIn DEF Adds
<1>2. MapThenSumSet(LAMBDA s : TotalAmount(s.order) * ShareOfOrder(s, common), S) = (CHOOSE g : P(g))[S]
  BY DEF MapThenSumSet, MapThenFoldSet, Some
<1> HIDE DEF P, f
<1> QED BY <1>1, <1>2, SumExists, SumIsThat DEF f

LEMMA ShippingIsSum ==
    ASSUME NEW common, NEW S, IsFiniteSet(S)
    PROVE  MapThenSumSet(LAMBDA s : DEFAULT_SHIPPING_COST_PER_ORDER * ShareOfOrder(s, common), S) = SumOver([x \in S |-> DEFAULT_SHIPPING_COST_PER_ORDER * ShareOfOrder(x, common)], S)
<1> DEFINE f == [x \in S |-> DEFAULT_SHIPPING_COST_PER_ORDER * ShareOfOrder(x, common)]
           P(g) == g = [s \in SUBSET S |-> IF s = {} THEN 0 ELSE DEFAULT_SHIPPING_COST_PER_ORDER * ShareOfOrder(Some(s), common) + g[s \ {Some(s)}]]
<1>1. \A g : P(g) <=> Adds(g, f, S)
  BY SomeIsIn DEF Adds
<1>2. MapThenSumSet(LAMBDA s : DEFAULT_SHIPPING_COST_PER_ORDER * ShareOfOrder(s, common), S) = (CHOOSE g : P(g))[S]
  BY DEF MapThenSumSet, MapThenFoldSet, Some
<1> HIDE DEF P, f
<1> QED BY <1>1, <1>2, SumExists, SumIsThat DEF f

LEMMA SharesOfRefundsAreSum ==
    ASSUME NEW common, NEW S, IsFiniteSet(S)
    PROVE  MapThenSumSet(LAMBDA s : _refunded_amount(s.order) * ShareOfOrder(s, common), S) = SumOver([x \in S |-> _refunded_amount(x.order) * ShareOfOrder(x, common)], S)
<1> DEFINE f == [x \in S |-> _refunded_amount(x.order) * ShareOfOrder(x, common)]
           P(g) == g = [s \in SUBSET S |-> IF s = {} THEN 0 ELSE _refunded_amount(Some(s).order) * ShareOfOrder(Some(s), common) + g[s \ {Some(s)}]]
<1>1. \A g : P(g) <=> Adds(g, f, S)
  BY SomeIsIn DEF Adds
<1>2. MapThenSumSet(LAMBDA s : _refunded_amount(s.order) * ShareOfOrder(s, common), S) = (CHOOSE g : P(g))[S]
  BY DEF MapThenSumSet, MapThenFoldSet, Some
<1> HIDE DEF P, f
<1> QED BY <1>1, <1>2, SumExists, SumIsThat DEF f

LEMMA GatewayColumn ==
    ASSUME NEW page, NEW S, IsFiniteSet(S)
    PROVE  MapThenSumSet(LAMBDA g : page[g].gateway_cost, S) = SumOver([h \in S |-> page[h].gateway_cost], S)
<1> DEFINE f == [h \in S |-> page[h].gateway_cost]
           P(g) == g = [s \in SUBSET S |-> IF s = {} THEN 0 ELSE page[Some(s)].gateway_cost + g[s \ {Some(s)}]]
<1>1. \A g : P(g) <=> Adds(g, f, S)
  BY SomeIsIn DEF Adds
<1>2. MapThenSumSet(LAMBDA g : page[g].gateway_cost, S) = (CHOOSE g : P(g))[S]
  BY DEF MapThenSumSet, MapThenFoldSet, Some
<1> HIDE DEF P, f
<1> QED BY <1>1, <1>2, SumExists, SumIsThat DEF f

LEMMA RefundColumn ==
    ASSUME NEW page, NEW S, IsFiniteSet(S)
    PROVE  MapThenSumSet(LAMBDA g : page[g].refund_cost, S) = SumOver([h \in S |-> page[h].refund_cost], S)
<1> DEFINE f == [h \in S |-> page[h].refund_cost]
           P(g) == g = [s \in SUBSET S |-> IF s = {} THEN 0 ELSE page[Some(s)].refund_cost + g[s \ {Some(s)}]]
<1>1. \A g : P(g) <=> Adds(g, f, S)
  BY SomeIsIn DEF Adds
<1>2. MapThenSumSet(LAMBDA g : page[g].refund_cost, S) = (CHOOSE g : P(g))[S]
  BY DEF MapThenSumSet, MapThenFoldSet, Some
<1> HIDE DEF P, f
<1> QED BY <1>1, <1>2, SumExists, SumIsThat DEF f

LEMMA ShippingColumn ==
    ASSUME NEW page, NEW S, IsFiniteSet(S)
    PROVE  MapThenSumSet(LAMBDA g : page[g].shipping_cost, S) = SumOver([h \in S |-> page[h].shipping_cost], S)
<1> DEFINE f == [h \in S |-> page[h].shipping_cost]
           P(g) == g = [s \in SUBSET S |-> IF s = {} THEN 0 ELSE page[Some(s)].shipping_cost + g[s \ {Some(s)}]]
<1>1. \A g : P(g) <=> Adds(g, f, S)
  BY SomeIsIn DEF Adds
<1>2. MapThenSumSet(LAMBDA g : page[g].shipping_cost, S) = (CHOOSE g : P(g))[S]
  BY DEF MapThenSumSet, MapThenFoldSet, Some
<1> HIDE DEF P, f
<1> QED BY <1>1, <1>2, SumExists, SumIsThat DEF f

LEMMA UnitsColumn ==
    ASSUME NEW page, NEW S, IsFiniteSet(S)
    PROVE  MapThenSumSet(LAMBDA g : page[g].units_sold, S) = SumOver([h \in S |-> page[h].units_sold], S)
<1> DEFINE f == [h \in S |-> page[h].units_sold]
           P(g) == g = [s \in SUBSET S |-> IF s = {} THEN 0 ELSE page[Some(s)].units_sold + g[s \ {Some(s)}]]
<1>1. \A g : P(g) <=> Adds(g, f, S)
  BY SomeIsIn DEF Adds
<1>2. MapThenSumSet(LAMBDA g : page[g].units_sold, S) = (CHOOSE g : P(g))[S]
  BY DEF MapThenSumSet, MapThenFoldSet, Some
<1> HIDE DEF P, f
<1> QED BY <1>1, <1>2, SumExists, SumIsThat DEF f

LEMMA RevenueColumn ==
    ASSUME NEW page, NEW S, IsFiniteSet(S)
    PROVE  MapThenSumSet(LAMBDA g : page[g].revenue, S) = SumOver([h \in S |-> page[h].revenue], S)
<1> DEFINE f == [h \in S |-> page[h].revenue]
           P(g) == g = [s \in SUBSET S |-> IF s = {} THEN 0 ELSE page[Some(s)].revenue + g[s \ {Some(s)}]]
<1>1. \A g : P(g) <=> Adds(g, f, S)
  BY SomeIsIn DEF Adds
<1>2. MapThenSumSet(LAMBDA g : page[g].revenue, S) = (CHOOSE g : P(g))[S]
  BY DEF MapThenSumSet, MapThenFoldSet, Some
<1> HIDE DEF P, f
<1> QED BY <1>1, <1>2, SumExists, SumIsThat DEF f

LEMMA ContributionColumn ==
    ASSUME NEW page, NEW S, IsFiniteSet(S)
    PROVE  MapThenSumSet(LAMBDA g : page[g].net_contribution, S) = SumOver([h \in S |-> page[h].net_contribution], S)
<1> DEFINE f == [h \in S |-> page[h].net_contribution]
           P(g) == g = [s \in SUBSET S |-> IF s = {} THEN 0 ELSE page[Some(s)].net_contribution + g[s \ {Some(s)}]]
<1>1. \A g : P(g) <=> Adds(g, f, S)
  BY SomeIsIn DEF Adds
<1>2. MapThenSumSet(LAMBDA g : page[g].net_contribution, S) = (CHOOSE g : P(g))[S]
  BY DEF MapThenSumSet, MapThenFoldSet, Some
<1> HIDE DEF P, f
<1> QED BY <1>1, <1>2, SumExists, SumIsThat DEF f

LEMMA BareColumn ==
    ASSUME NEW page, NEW S, IsFiniteSet(S)
    PROVE  MapThenSumSet(LAMBDA g : page[g].revenue - page[g].cogs - page[g].packaging_cost, S) = SumOver([h \in S |-> (page[h].revenue - page[h].cogs - page[h].packaging_cost)], S)
<1> DEFINE f == [h \in S |-> (page[h].revenue - page[h].cogs - page[h].packaging_cost)]
           P(g) == g = [s \in SUBSET S |-> IF s = {} THEN 0 ELSE (page[Some(s)].revenue - page[Some(s)].cogs - page[Some(s)].packaging_cost) + g[s \ {Some(s)}]]
<1>1. \A g : P(g) <=> Adds(g, f, S)
  BY SomeIsIn DEF Adds
<1>2. MapThenSumSet(LAMBDA g : page[g].revenue - page[g].cogs - page[g].packaging_cost, S) = (CHOOSE g : P(g))[S]
  BY DEF MapThenSumSet, MapThenFoldSet, Some
<1> HIDE DEF P, f
<1> QED BY <1>1, <1>2, SumExists, SumIsThat DEF f

LEMMA TaxesAreSum ==
    ASSUME NEW S, IsFiniteSet(S)
    PROVE  MapThenSumSet(LAMBDA o : MapThenSumSet(tax_amount, sales[o].items), S) = SumOver([o \in S |-> MapThenSumSet(tax_amount, sales[o].items)], S)
<1> DEFINE f == [o \in S |-> MapThenSumSet(tax_amount, sales[o].items)]
           P(g) == g = [s \in SUBSET S |-> IF s = {} THEN 0 ELSE MapThenSumSet(tax_amount, sales[Some(s)].items) + g[s \ {Some(s)}]]
<1>1. \A g : P(g) <=> Adds(g, f, S)
  BY SomeIsIn DEF Adds
<1>2. MapThenSumSet(LAMBDA o : MapThenSumSet(tax_amount, sales[o].items), S) = (CHOOSE g : P(g))[S]
  BY DEF MapThenSumSet, MapThenFoldSet, Some
<1> HIDE DEF P, f
<1> QED BY <1>1, <1>2, SumExists, SumIsThat DEF f

LEMMA ColumnIsSum ==
    ASSUME NEW chart, NEW S, IsFiniteSet(S)
    PROVE  MapThenSumSet(LAMBDA y : chart[y], S) = SumOver([x \in S |-> chart[x]], S)
<1> DEFINE f == [x \in S |-> chart[x]]
           P(g) == g = [s \in SUBSET S |-> IF s = {} THEN 0 ELSE chart[Some(s)] + g[s \ {Some(s)}]]
<1>1. \A g : P(g) <=> Adds(g, f, S)
  BY SomeIsIn DEF Adds
<1>2. MapThenSumSet(LAMBDA y : chart[y], S) = (CHOOSE g : P(g))[S]
  BY DEF MapThenSumSet, MapThenFoldSet, Some
<1> HIDE DEF P, f
<1> QED BY <1>1, <1>2, SumExists, SumIsThat DEF f

LineOf(o, l) == [order |-> o, line |-> l]

\* every line of these orders
AllSold(paid) == UNION {{LineOf(o, l) : l \in sales[o].items} : o \in paid}

ProductsSold(paid) == {g \in Articles : LinesSold(paid, g) # {}}

LEMMA OrderFacts ==
    ASSUME ReportsInv, NEW o \in Placed
    PROVE  /\ IsFiniteSet(sales[o].items) /\ SubtotalOf(o) \in Nat \ {0} /\ TotalItems(sales[o].items) \in Nat
           /\ TotalAmount(o) \in Nat /\ _refunded_amount(o) \in Nat
           /\ sales[o].day \in Nat /\ sales[o].day <= today
           /\ sales[o].status \in SaleStatus
           /\ sales[o].status \in PaidStatuses => sales[o].payment \in RevenueRecognized
           /\ \A l \in sales[o].items :
                l.article \in Articles /\ l.unit_price \in Nat /\ l.quantity \in Nat \ {0} /\ l.gst_rate \in Nat
<1>1. sales[o] \in Sale /\ SaleSound(sales[o], today)
  BY DEF ReportsInv, Placed
<1>2. sales[o].items \in Baskets
  BY <1>1 DEF Sale
<1>3. Subtotal(sales[o].items) \in Nat \ {0}
  BY <1>2, BasketFacts
<1> QED BY <1>1, <1>2, <1>3, BasketFacts DEF Sale, SaleSound, TotalAmount, SubtotalOf, _refunded_amount

LEMMA PlacedIsFinite == ASSUME ReportsInv PROVE IsFiniteSet(Placed)
<1>1. Placed = 1..Len(sales) /\ Len(sales) \in Int /\ 1 \in Int
  BY DEF ReportsInv, Placed
<1> QED BY <1>1, FS_Interval

\* The lines of one order are lines of that order.
LEMMA LinesOfOrder ==
    ASSUME ReportsInv, NEW paid \in SUBSET Placed, NEW o \in paid
    PROVE  {s \in AllSold(paid) : s.order = o} = {LineOf(o, l) : l \in sales[o].items}
BY DEF AllSold, LineOf

LEMMA LinesOfProduct ==
    ASSUME NEW paid, NEW g
    PROVE  LinesSold(paid, g) = {s \in AllSold(paid) : s.line.article = g}
BY DEF LinesSold, AllSold, LineOf

LEMMA SoldFacts ==
    ASSUME ReportsInv, NEW paid \in SUBSET Placed
    PROVE  /\ IsFiniteSet(paid) /\ IsFiniteSet(AllSold(paid)) /\ IsFiniteSet(ProductsSold(paid))
           /\ \A s \in AllSold(paid) :
                /\ s.order \in paid /\ s.line \in sales[s.order].items
                /\ s.line.article \in ProductsSold(paid)
                /\ s.line.unit_price \in Nat /\ s.line.quantity \in Nat \ {0} /\ s.line.gst_rate \in Nat
<1>1. IsFiniteSet(paid)
  BY PlacedIsFinite, FS_Subset
<1>2. ASSUME NEW o \in paid PROVE IsFiniteSet({LineOf(o, l) : l \in sales[o].items})
  <2> DEFINE f == [l \in sales[o].items |-> LineOf(o, l)]
  <2>1. IsFiniteSet(sales[o].items)
    BY OrderFacts
  <2>2. {LineOf(o, l) : l \in sales[o].items} = {f[l] : l \in sales[o].items}
    OBVIOUS
  <2> HIDE DEF f
  <2> QED BY <2>1, <2>2, ImageIsFinite
<1>3. IsFiniteSet(AllSold(paid))
  <2> DEFINE f == [o \in paid |-> {LineOf(o, l) : l \in sales[o].items}]
  <2>1. AllSold(paid) = UNION {f[o] : o \in paid} /\ \A o \in paid : IsFiniteSet(f[o])
    BY <1>2 DEF AllSold
  <2> HIDE DEF f
  <2>2. IsFiniteSet({f[o] : o \in paid})
    BY <1>1, ImageIsFinite
  <2> QED BY <2>1, <2>2, FS_UNION
<1>4. ASSUME NEW s \in AllSold(paid)
      PROVE  /\ s.order \in paid /\ s.line \in sales[s.order].items
             /\ s.line.article \in ProductsSold(paid)
             /\ s.line.unit_price \in Nat /\ s.line.quantity \in Nat \ {0} /\ s.line.gst_rate \in Nat
  <2>1. s.order \in paid /\ s.line \in sales[s.order].items
    BY DEF AllSold, LineOf
  <2>2. /\ s.line.article \in Articles
        /\ s.line.unit_price \in Nat /\ s.line.quantity \in Nat \ {0} /\ s.line.gst_rate \in Nat
    BY <2>1, OrderFacts
  <2>3. s \in LinesSold(paid, s.line.article)
    BY LinesOfProduct
  <2> QED BY <2>1, <2>2, <2>3 DEF ProductsSold
<1>5. IsFiniteSet(ProductsSold(paid))
  <2> DEFINE f == [s \in AllSold(paid) |-> s.line.article]
  <2>1. ProductsSold(paid) = {f[s] : s \in AllSold(paid)}
    BY <1>4, LinesOfProduct DEF ProductsSold
  <2> HIDE DEF f
  <2> QED BY <1>3, <2>1, ImageIsFinite
<1> QED BY <1>1, <1>3, <1>4, <1>5

\* Adding up over the lines is adding up over the orders
LEMMA OverOrders ==
    ASSUME ReportsInv, NEW paid \in SUBSET Placed, NEW e, \A s \in AllSold(paid) : e[s] \in Int,
           NEW a, \A o \in paid : a[o] = SumOver([l \in sales[o].items |-> e[LineOf(o, l)]], sales[o].items)
    PROVE  SumOver(e, AllSold(paid)) = SumOver(a, paid)
<1> DEFINE class == [s \in AllSold(paid) |-> s.order]
           sums == [o \in paid |-> SumOver(e, {s \in AllSold(paid) : class[s] = o})]
<1>1. \A s \in AllSold(paid) : class[s] \in paid
  BY SoldFacts
<1>2. ASSUME NEW o \in paid PROVE sums[o] = a[o]
  <2> DEFINE r == [l \in sales[o].items |-> LineOf(o, l)]
             f == [l \in sales[o].items |-> e[LineOf(o, l)]]
  <2>1. {s \in AllSold(paid) : class[s] = o} = {LineOf(o, l) : l \in sales[o].items}
    BY LinesOfOrder
  <2>2. {LineOf(o, l) : l \in sales[o].items} = {r[l] : l \in sales[o].items}
    OBVIOUS
  <2>3. \A l \in sales[o].items : LineOf(o, l) \in AllSold(paid)
    BY DEF AllSold
  <2>4. /\ \A l, m \in sales[o].items : r[l] = r[m] => l = m
        /\ \A l \in sales[o].items : f[l] \in Int /\ e[r[l]] = f[l]
    BY <2>3 DEF LineOf
  <2>5. IsFiniteSet(sales[o].items)
    BY OrderFacts
  <2> HIDE DEF r, class
  <2>6. SumOver(e, {r[l] : l \in sales[o].items}) = SumOver(f, sales[o].items)
    <3> HIDE DEF f
    <3> QED BY <2>4, <2>5, SumOverImages
  <2> QED BY <2>1, <2>2, <2>6
<1> HIDE DEF class
<1>3. SumOver(e, AllSold(paid)) = SumOver(sums, paid)
  BY <1>1, SoldFacts, SumByClass
<1> HIDE DEF sums
<1>4. SumOver(sums, paid) = SumOver(a, paid)
  BY <1>2, SoldFacts, SumSame
<1> QED BY <1>3, <1>4

\* and over the products.
LEMMA OverProducts ==
    ASSUME ReportsInv, NEW paid \in SUBSET Placed, NEW e, \A s \in AllSold(paid) : e[s] \in Int,
           NEW a, \A g \in ProductsSold(paid) : a[g] = SumOver(e, LinesSold(paid, g))
    PROVE  SumOver(e, AllSold(paid)) = SumOver(a, ProductsSold(paid)) /\ \A g \in ProductsSold(paid) : a[g] \in Int
<1> DEFINE class == [s \in AllSold(paid) |-> s.line.article]
           sums == [g \in ProductsSold(paid) |-> SumOver(e, {s \in AllSold(paid) : class[s] = g})]
<1>1. \A s \in AllSold(paid) : class[s] \in ProductsSold(paid)
  BY SoldFacts
<1>2. \A g \in ProductsSold(paid) : LinesSold(paid, g) = {s \in AllSold(paid) : class[s] = g}
  BY LinesOfProduct
<1>3. \A g \in ProductsSold(paid) : sums[g] = a[g]
  BY <1>2
<1>4. ASSUME NEW g \in ProductsSold(paid) PROVE a[g] \in Int
  <2>1. IsFiniteSet(LinesSold(paid, g)) /\ LinesSold(paid, g) \subseteq AllSold(paid)
    BY <1>2, SoldFacts, FS_Subset
  <2> QED BY <2>1, SumIsInt
<1> HIDE DEF class
<1>5. SumOver(e, AllSold(paid)) = SumOver(sums, ProductsSold(paid))
  <2>1. IsFiniteSet(AllSold(paid)) /\ IsFiniteSet(ProductsSold(paid))
    BY SoldFacts
  <2> QED BY <1>1, <2>1, SumByClass
<1> HIDE DEF sums
<1>6. SumOver(sums, ProductsSold(paid)) = SumOver(a, ProductsSold(paid))
  BY <1>3, SoldFacts, SumSame
<1> QED BY <1>4, <1>5, <1>6

\* The common denominator is a multiple of every order's subtotal.
LEMMA DenominatorIsCommon ==
    ASSUME ReportsInv, NEW paid \in SUBSET Placed
    PROVE  /\ CommonDenominator(paid) \in Nat \ {0}
           /\ \A o \in paid : (CommonDenominator(paid) \div SubtotalOf(o)) \in Nat
                             /\ (CommonDenominator(paid) \div SubtotalOf(o)) * SubtotalOf(o) = CommonDenominator(paid)
<1> DEFINE f == [o \in paid |-> SubtotalOf(o)]
           P(g) == g = [s \in SUBSET paid |-> IF s = {} THEN 1 ELSE SubtotalOf(Some(s)) * g[s \ {Some(s)}]]
<1>1. \A g : P(g) <=> Multiplies(g, f, paid)
  BY SomeIsIn DEF Multiplies
<1>2. CommonDenominator(paid) = (CHOOSE g : P(g))[paid]
  BY DEF CommonDenominator, MapThenFoldSet, Some
<1>3. \A o \in paid : f[o] = SubtotalOf(o) /\ SubtotalOf(o) \in Nat \ {0}
  BY OrderFacts
<1> HIDE DEF P, f
<1>4. IsFiniteSet(paid)
  BY SoldFacts
<1>5. CommonDenominator(paid) \in Nat \ {0} /\ \A o \in paid : \E k \in Nat : CommonDenominator(paid) = k * f[o]
  <2>1. Multiplies(CHOOSE g : P(g), f, paid)
    BY <1>1, <1>4, ProductExists
  <2>2. PICK g : CommonDenominator(paid) = g[paid] /\ Multiplies(g, f, paid)
    BY <1>2, <2>1
  <2>3. \A o \in paid : f[o] \in Nat \ {0}
    BY <1>3
  <2>4. g[paid] \in Nat \ {0} /\ \A o \in paid : \E k \in Nat : g[paid] = k * f[o]
    BY <1>4, <2>2, <2>3, ProductHasFactors
  <2> QED BY <2>2, <2>4
<1>6. ASSUME NEW o \in paid
      PROVE  (CommonDenominator(paid) \div SubtotalOf(o)) \in Nat
             /\ (CommonDenominator(paid) \div SubtotalOf(o)) * SubtotalOf(o) = CommonDenominator(paid)
  <2>1. PICK k \in Nat : CommonDenominator(paid) = k * SubtotalOf(o)
    BY <1>3, <1>5
  <2>2. ASSUME NEW n \in Nat \ {0} PROVE (k * n) \div n = k
    <3>1. k * n \in Nat
      OBVIOUS
    <3> QED BY <3>1
  <2> QED BY <1>3, <2>1, <2>2
<1> QED BY <1>5, <1>6

\* An amount of every order is spread without a rest over the order's lines, and so over the products:
\* all shares together come to all amounts, over the common denominator.
LEMMA SharesAddUp ==
    ASSUME ReportsInv, NEW paid \in SUBSET Placed, NEW amount, \A o \in paid : amount[o] \in Nat,
           NEW e, \A s \in AllSold(paid) : e[s] = amount[s.order] * ShareOfOrder(s, CommonDenominator(paid)),
           NEW a, \A g \in ProductsSold(paid) : a[g] = SumOver(e, LinesSold(paid, g))
    PROVE  /\ SumOver(a, ProductsSold(paid)) = CommonDenominator(paid) * SumOver(amount, paid)
           /\ \A g \in ProductsSold(paid) : a[g] \in Int
           /\ \A s \in AllSold(paid) : e[s] \in Int
<1> DEFINE common == CommonDenominator(paid)
           factor(o) == common \div SubtotalOf(o)
           b == [o \in paid |-> common * amount[o]]
<1>1. common \in Nat \ {0} /\ \A o \in paid : factor(o) \in Nat /\ factor(o) * SubtotalOf(o) = common
  BY DenominatorIsCommon
<1>2. \A s \in AllSold(paid) :
        s.order \in paid /\ LineTotal(s.line) \in Nat /\ e[s] = amount[s.order] * (LineTotal(s.line) * factor(s.order))
  BY SoldFacts DEF LineTotal, ShareOfOrder
<1> HIDE DEF common, factor
<1>3. \A s \in AllSold(paid) : e[s] \in Int
  <2> TAKE s \in AllSold(paid)
  <2>1. amount[s.order] \in Int /\ LineTotal(s.line) \in Int /\ factor(s.order) \in Int
    BY <1>1, <1>2
  <2> QED BY <1>2, <2>1
<1>4. ASSUME NEW o \in paid
      PROVE  b[o] = SumOver([l \in sales[o].items |-> e[LineOf(o, l)]], sales[o].items)
  <2> DEFINE f == [l \in sales[o].items |-> e[LineOf(o, l)]]
             h == [l \in sales[o].items |-> LineTotal(l)]
  <2>0. /\ IsFiniteSet(sales[o].items) /\ amount[o] \in Int /\ factor(o) \in Int /\ common \in Int
        /\ SubtotalOf(o) \in Int /\ factor(o) * SubtotalOf(o) = common
    BY <1>1, OrderFacts
  <2>1. SumOver(h, sales[o].items) = SubtotalOf(o)
    BY <2>0, SubtotalIsSum DEF SubtotalOf
  <2>2. \A l \in sales[o].items : h[l] \in Int /\ f[l] = (amount[o] * factor(o)) * h[l]
    <3> TAKE l \in sales[o].items
    <3>1. LineOf(o, l) \in AllSold(paid) /\ LineOf(o, l).order = o /\ LineOf(o, l).line = l
      BY DEF AllSold, LineOf
    <3>2. f[l] = amount[o] * (LineTotal(l) * factor(o)) /\ LineTotal(l) \in Int
      BY <1>2, <3>1
    <3>3. amount[o] * (LineTotal(l) * factor(o)) = (amount[o] * factor(o)) * LineTotal(l)
      BY <2>0, <3>2
    <3> QED BY <3>2, <3>3
  <2> HIDE DEF f, h
  <2>3. SumOver(f, sales[o].items) = (amount[o] * factor(o)) * SumOver(h, sales[o].items)
    <3>1. amount[o] * factor(o) \in Int
      BY <2>0
    <3> QED BY <2>0, <2>2, <3>1, SumOfScaled
  <2>4. (amount[o] * factor(o)) * SubtotalOf(o) = common * amount[o]
    <3>1. (amount[o] * factor(o)) * SubtotalOf(o) = (factor(o) * SubtotalOf(o)) * amount[o]
      BY ONLY <2>0
    <3> QED BY <2>0, <3>1
  <2> QED BY <2>1, <2>3, <2>4 DEF f
<1>5. SumOver(e, AllSold(paid)) = SumOver(b, paid)
  <2> HIDE DEF b
  <2> QED BY <1>3, <1>4, OverOrders
<1>6. SumOver(b, paid) = common * SumOver(amount, paid)
  <2>1. \A o \in paid : amount[o] \in Int /\ b[o] = common * amount[o]
    OBVIOUS
  <2>2. IsFiniteSet(paid) /\ common \in Int
    BY <1>1, SoldFacts
  <2> HIDE DEF b
  <2> QED BY <2>1, <2>2, SumOfScaled
<1>7. SumOver(e, AllSold(paid)) = SumOver(a, ProductsSold(paid)) /\ \A g \in ProductsSold(paid) : a[g] \in Int
  BY <1>3, OverProducts
<1> QED BY <1>3, <1>5, <1>6, <1>7 DEF common

\* The numerators of what falls to each line, and what it adds to the other columns
UnitsOf(paid) == [s \in AllSold(paid) |-> s.line.quantity]
TaxableOf(paid) == [s \in AllSold(paid) |-> taxable_value(s.line)]
ShareOf(paid, amount) == [s \in AllSold(paid) |-> amount[s.order] * ShareOfOrder(s, CommonDenominator(paid))]

Totals(paid) == [o \in paid |-> TotalAmount(o)]
Shippings(paid) == [o \in paid |-> DEFAULT_SHIPPING_COST_PER_ORDER]
Returned(paid) == [o \in paid |-> _refunded_amount(o)]

CostOf(g) == IF g \in DOMAIN cost_price THEN cost_price[g] ELSE 0

LEMMA RowSums ==
    ASSUME ReportsInv, NEW paid \in SUBSET Placed, NEW g
    PROVE  LET sold == LinesSold(paid, g)
               common == CommonDenominator(paid)
           IN  /\ MapThenSumSet(LAMBDA s : s.line.quantity, sold) = SumOver(UnitsOf(paid), sold)
               /\ MapThenSumSet(LAMBDA s : taxable_value(s.line), sold) = SumOver(TaxableOf(paid), sold)
               /\ Shared(sold, common, TotalAmount) = SumOver(ShareOf(paid, Totals(paid)), sold)
               /\ Shared(sold, common, LAMBDA o : DEFAULT_SHIPPING_COST_PER_ORDER) = SumOver(ShareOf(paid, Shippings(paid)), sold)
               /\ Shared(sold, common, _refunded_amount) = SumOver(ShareOf(paid, Returned(paid)), sold)
<1> DEFINE sold == LinesSold(paid, g)
           common == CommonDenominator(paid)
<1>1. sold \subseteq AllSold(paid)
  BY LinesOfProduct
<1>2. IsFiniteSet(sold) /\ \A s \in sold : s \in AllSold(paid) /\ s.order \in paid
  BY <1>1, SoldFacts, FS_Subset
<1> HIDE DEF sold, common
<1>3. MapThenSumSet(LAMBDA s : s.line.quantity, sold) = SumOver(UnitsOf(paid), sold)
  <2> DEFINE f == [s \in sold |-> s.line.quantity]
  <2>1. \A s \in sold : f[s] = UnitsOf(paid)[s]
    BY <1>2 DEF UnitsOf
  <2>2. MapThenSumSet(LAMBDA s : s.line.quantity, sold) = SumOver(f, sold)
    BY <1>2, UnitsAreSum
  <2> HIDE DEF f
  <2> QED BY <1>2, <2>1, <2>2, SumSame
<1>4. MapThenSumSet(LAMBDA s : taxable_value(s.line), sold) = SumOver(TaxableOf(paid), sold)
  <2> DEFINE f == [s \in sold |-> taxable_value(s.line)]
  <2>1. \A s \in sold : f[s] = TaxableOf(paid)[s]
    BY <1>2 DEF TaxableOf
  <2>2. MapThenSumSet(LAMBDA s : taxable_value(s.line), sold) = SumOver(f, sold)
    BY <1>2, RevenueIsSum
  <2> HIDE DEF f
  <2> QED BY <1>2, <2>1, <2>2, SumSame
<1>5. Shared(sold, common, TotalAmount) = SumOver(ShareOf(paid, Totals(paid)), sold)
  <2> DEFINE f == [s \in sold |-> TotalAmount(s.order) * ShareOfOrder(s, common)]
  <2>1. \A s \in sold : f[s] = ShareOf(paid, Totals(paid))[s]
    BY <1>2 DEF ShareOf, Totals, common
  <2>2. Shared(sold, common, TotalAmount) = SumOver(f, sold)
    BY <1>2, FeesAreSum DEF Shared
  <2> HIDE DEF f
  <2> QED BY <1>2, <2>1, <2>2, SumSame
<1>6. Shared(sold, common, LAMBDA o : DEFAULT_SHIPPING_COST_PER_ORDER) = SumOver(ShareOf(paid, Shippings(paid)), sold)
  <2> DEFINE f == [s \in sold |-> DEFAULT_SHIPPING_COST_PER_ORDER * ShareOfOrder(s, common)]
  <2>1. \A s \in sold : f[s] = ShareOf(paid, Shippings(paid))[s]
    BY <1>2 DEF ShareOf, Shippings, common
  <2>2. Shared(sold, common, LAMBDA o : DEFAULT_SHIPPING_COST_PER_ORDER) = SumOver(f, sold)
    BY <1>2, ShippingIsSum DEF Shared
  <2> HIDE DEF f
  <2> QED BY <1>2, <2>1, <2>2, SumSame
<1>7. Shared(sold, common, _refunded_amount) = SumOver(ShareOf(paid, Returned(paid)), sold)
  <2> DEFINE f == [s \in sold |-> _refunded_amount(s.order) * ShareOfOrder(s, common)]
  <2>1. \A s \in sold : f[s] = ShareOf(paid, Returned(paid))[s]
    BY <1>2 DEF ShareOf, Returned, common
  <2>2. Shared(sold, common, _refunded_amount) = SumOver(f, sold)
    BY <1>2, SharesOfRefundsAreSum DEF Shared
  <2> HIDE DEF f
  <2> QED BY <1>2, <2>1, <2>2, SumSame
<1> QED BY <1>3, <1>4, <1>5, <1>6, <1>7 DEF sold, common

\* What falls to a product, over the common denominator
Falls(paid, amount, g) == SumOver(ShareOf(paid, amount), LinesSold(paid, g))

LEMMA RowFacts ==
    ASSUME ReportsInv, NEW paid \in SUBSET Placed, NEW g, NEW r, r = ReportRow(paid, g)
    PROVE  LET common == CommonDenominator(paid)
               fee == PAYMENT_GATEWAY_FEE_PERCENT
               gateway == Falls(paid, Totals(paid), g) * fee[1]
               others == Falls(paid, Shippings(paid), g) + Falls(paid, Returned(paid), g)
           IN  /\ r.units_sold = SumOver(UnitsOf(paid), LinesSold(paid, g))
               /\ r.revenue = SumOver(TaxableOf(paid), LinesSold(paid, g))
               /\ r.cogs = r.units_sold * CostOf(g)
               /\ r.packaging_cost = r.units_sold * DEFAULT_PACKAGING_COST_PER_UNIT
               /\ r.cost_price_missing = (CostOf(g) = 0)
               /\ r.gateway_cost = Quantized(gateway, common * fee[2])
               /\ r.shipping_cost = Quantized(Falls(paid, Shippings(paid), g), common)
               /\ r.refund_cost = Quantized(Falls(paid, Returned(paid), g), common)
               /\ r.net_contribution = r.revenue - r.cogs - r.packaging_cost
                                       + Quantized(-(gateway + others * fee[2]), common * fee[2])
<1> DEFINE sold == LinesSold(paid, g)
           common == CommonDenominator(paid)
           fee == PAYMENT_GATEWAY_FEE_PERCENT
           units == MapThenSumSet(LAMBDA s : s.line.quantity, sold)
           revenue == MapThenSumSet(LAMBDA s : taxable_value(s.line), sold)
           gateway == Shared(sold, common, TotalAmount) * fee[1]
           sent == Shared(sold, common, LAMBDA o : DEFAULT_SHIPPING_COST_PER_ORDER)
           refunds == Shared(sold, common, _refunded_amount)
<1>1. /\ units = SumOver(UnitsOf(paid), sold) /\ revenue = SumOver(TaxableOf(paid), sold)
      /\ gateway = Falls(paid, Totals(paid), g) * fee[1]
      /\ sent = Falls(paid, Shippings(paid), g) /\ refunds = Falls(paid, Returned(paid), g)
  BY RowSums DEF Falls
<1>2. /\ r.units_sold = units /\ r.revenue = revenue /\ r.cogs = units * CostOf(g)
      /\ r.packaging_cost = units * DEFAULT_PACKAGING_COST_PER_UNIT /\ r.cost_price_missing = (CostOf(g) = 0)
      /\ r.gateway_cost = Quantized(gateway, common * fee[2])
      /\ r.shipping_cost = Quantized(sent, common) /\ r.refund_cost = Quantized(refunds, common)
      /\ r.net_contribution = revenue - units * CostOf(g) - units * DEFAULT_PACKAGING_COST_PER_UNIT
                              + Quantized(-(gateway + (sent + refunds) * fee[2]), common * fee[2])
  BY DEF ReportRow, CostOf
<1> HIDE DEF units, revenue, gateway, sent, refunds
<1> QED BY <1>1, <1>2

LEMMA FeeFacts == /\ PAYMENT_GATEWAY_FEE_PERCENT[1] \in Nat /\ PAYMENT_GATEWAY_FEE_PERCENT[2] \in Nat \ {0}
                  /\ DEFAULT_SHIPPING_COST_PER_ORDER \in Nat /\ DEFAULT_PACKAGING_COST_PER_UNIT \in Nat
BY ReportsAssumption

\* The amounts of the orders, spread over the products and added up again
LEMMA SpreadAmounts ==
    ASSUME ReportsInv, NEW paid \in SUBSET Placed
    PROVE  LET Spread(amount) ==
                 /\ \A g \in ProductsSold(paid) : Falls(paid, amount, g) \in Int
                 /\ SumOver([g \in ProductsSold(paid) |-> Falls(paid, amount, g)], ProductsSold(paid))
                        = CommonDenominator(paid) * SumOver(amount, paid)
                 /\ SumOver(amount, paid) \in Int
           IN  Spread(Totals(paid)) /\ Spread(Shippings(paid)) /\ Spread(Returned(paid))
<1>1. ASSUME NEW amount, \A o \in paid : amount[o] \in Nat
      PROVE  /\ \A g \in ProductsSold(paid) : Falls(paid, amount, g) \in Int
             /\ SumOver([g \in ProductsSold(paid) |-> Falls(paid, amount, g)], ProductsSold(paid))
                    = CommonDenominator(paid) * SumOver(amount, paid)
             /\ SumOver(amount, paid) \in Int
  <2> DEFINE e == ShareOf(paid, amount)
             a == [g \in ProductsSold(paid) |-> Falls(paid, amount, g)]
  <2>1. \A s \in AllSold(paid) : e[s] = amount[s.order] * ShareOfOrder(s, CommonDenominator(paid))
    BY DEF ShareOf
  <2>2. \A g \in ProductsSold(paid) : a[g] = SumOver(e, LinesSold(paid, g)) /\ a[g] = Falls(paid, amount, g)
    BY DEF Falls
  <2> HIDE DEF e, a
  <2>3. /\ SumOver(a, ProductsSold(paid)) = CommonDenominator(paid) * SumOver(amount, paid)
        /\ \A g \in ProductsSold(paid) : a[g] \in Int
    BY <1>1, <2>1, <2>2, SharesAddUp
  <2>4. SumOver(amount, paid) \in Int
    <3>1. IsFiniteSet(paid) /\ \A o \in paid : amount[o] \in Int
      BY <1>1, SoldFacts
    <3> QED BY <3>1, SumIsInt
  <2>5. SumOver([g \in ProductsSold(paid) |-> Falls(paid, amount, g)], ProductsSold(paid)) = SumOver(a, ProductsSold(paid))
    BY DEF a
  <2> QED BY <2>2, <2>3, <2>4, <2>5
<1>2. /\ \A o \in paid : Totals(paid)[o] \in Nat
      /\ \A o \in paid : Shippings(paid)[o] \in Nat
      /\ \A o \in paid : Returned(paid)[o] \in Nat
  BY OrderFacts, FeeFacts DEF Totals, Shippings, Returned
<1> QED BY <1>1, <1>2

\* A factor common to both sides may be left out.
LEMMA WithoutFactor ==
    ASSUME NEW c \in Nat \ {0}, NEW u \in Int, NEW v \in Int, c * u <= c * v
    PROVE  u <= v
<1> SUFFICES ASSUME u >= v + 1 PROVE FALSE
  OBVIOUS
<1> DEFINE w == u - v - 1
<1>1. w \in Nat /\ u = v + 1 + w
  OBVIOUS
<1>2. c * u = c * v + c + c * w /\ c * w \in Nat /\ c * u \in Int /\ c * v \in Int
  BY <1>1
<1> HIDE DEF w
<1> QED BY <1>2

LEMMA WithoutDenominator ==
    ASSUME NEW c \in Nat \ {0}, NEW b \in Nat, NEW n \in Nat, NEW q \in Int, NEW x \in Int,
           2 * ((c * b) * q - c * x) \in -(n * (c * b))..(n * (c * b))
    PROVE  2 * (b * q - x) \in -(n * b)..(n * b)
<1> DEFINE u == 2 * (b * q - x)
           v == n * b
<1>1. u \in Int /\ v \in Int
  OBVIOUS
<1>2. 2 * ((c * b) * q - c * x) = c * u /\ n * (c * b) = c * v /\ -(c * v) = c * (-v)
  OBVIOUS
<1>3. c * u <= c * v /\ c * (-v) <= c * u
  BY <1>2
<1> HIDE DEF u, v
<1>4. u <= v /\ -v <= u
  BY <1>1, <1>3, WithoutFactor
<1> QED BY <1>1, <1>4 DEF u, v

\* A column that is rounded row by row: what it comes to, for exact amounts over common and b.
LEMMA RoundedColumn ==
    ASSUME NEW S, IsFiniteSet(S), NEW common \in Nat \ {0}, NEW b \in Nat \ {0}, NEW x \in Int,
           NEW exact, \A g \in S : exact[g] \in Int, SumOver(exact, S) = common * x,
           NEW column, \A g \in S : column[g] = Quantized(exact[g], common * b)
    PROVE  /\ \A g \in S : column[g] \in Int /\ 2 * ((common * b) * column[g] - exact[g]) \in -(common * b)..(common * b)
           /\ SumOver(column, S) \in Int
           /\ 2 * (b * SumOver(column, S) - x) \in -(Cardinality(S) * b)..(Cardinality(S) * b)
<1>1. common * b \in Nat \ {0}
  OBVIOUS
<1>2. \A g \in S : column[g] \in Int /\ 2 * ((common * b) * column[g] - exact[g]) \in -(common * b)..(common * b)
  BY <1>1, QuantizedIsNear
<1>3. SumOver(column, S) \in Int /\ Cardinality(S) \in Nat
  BY <1>2, SumIsInt, FS_CardinalityType
<1>4. 2 * ((common * b) * SumOver(column, S) - common * x) \in -(Cardinality(S) * (common * b))..(Cardinality(S) * (common * b))
  <2> DEFINE d == common * b
  <2>1. d \in Nat /\ \A g \in S : exact[g] \in Int /\ column[g] \in Int /\ 2 * (d * column[g] - exact[g]) \in -d..d
    BY <1>1, <1>2
  <2> HIDE DEF d
  <2>2. 2 * (d * SumOver(column, S) - SumOver(exact, S)) \in -(Cardinality(S) * d)..(Cardinality(S) * d)
    BY <2>1, SumOfNear
  <2> QED BY <2>2 DEF d
<1>5. 2 * (b * SumOver(column, S) - x) \in -(Cardinality(S) * b)..(Cardinality(S) * b)
  BY <1>3, <1>4, WithoutDenominator
<1> QED BY <1>2, <1>3, <1>5

\* A row's contribution is what its columns leave, to two paise.
LEMMA RowIsNear ==
    ASSUME NEW c \in Nat \ {0}, NEW b \in Nat \ {0}, NEW fee \in Int, NEW ship \in Int, NEW back \in Int,
           NEW g \in Int, NEW s \in Int, NEW r \in Int, NEW q \in Int,
           2 * ((c * b) * g - fee) \in -(c * b)..(c * b),
           2 * (c * s - ship) \in -c..c, 2 * (c * r - back) \in -c..c,
           2 * ((c * b) * q + (fee + (ship + back) * b)) \in -(c * b)..(c * b)
    PROVE  q + g + s + r \in -2..2
<1> DEFINE d == c * b
<1>1. d \in Nat \ {0}
  OBVIOUS
<1>2. ASSUME NEW x \in Int, NEW y \in Int, 2 * (c * x - y) \in -c..c
      PROVE  2 * (d * x - y * b) \in -d..d
  <2>1. 2 * (d * x - y * b) = b * (2 * (c * x - y))
    OBVIOUS
  <2>2. ASSUME NEW z \in -c..c PROVE b * z \in -d..d
    <3>1. PICK u \in Nat, v \in Nat : u = c - z /\ v = z + c
      <4>1. c - z \in Nat /\ z + c \in Nat
        OBVIOUS
      <4> QED BY <4>1
    <3>2. b * u \in Nat /\ b * v \in Nat /\ b * u = d - b * z /\ b * v = b * z + d
      BY <3>1
    <3> QED BY <3>2
  <2> QED BY <1>2, <2>1, <2>2
<1>3. /\ 2 * (d * s - ship * b) \in -d..d /\ 2 * (d * r - back * b) \in -d..d
      /\ 2 * (d * g - fee) \in -d..d /\ 2 * (d * q + (fee + (ship + back) * b)) \in -d..d
  BY <1>2
<1>4. (ship + back) * b = ship * b + back * b /\ ship * b \in Int /\ back * b \in Int
  OBVIOUS
<1> DEFINE n == q + g + s + r
<1>5. n \in Int /\ d * n = d * q + d * g + d * s + d * r
      /\ d * q \in Int /\ d * g \in Int /\ d * s \in Int /\ d * r \in Int
  BY <1>1
<1> HIDE DEF d, n
<1>6. d * n <= d * 2 /\ d * (-2) <= d * n
  BY <1>1, <1>3, <1>4, <1>5
<1>7. n <= 2 /\ -2 <= n
  BY <1>1, <1>5, <1>6, WithoutFactor
<1> QED BY <1>5, <1>7 DEF n

\* The rows of a page, column by column
LEMMA ColumnsOfPage ==
    ASSUME NEW page, NEW D, IsFiniteSet(D)
    PROVE  /\ MapThenSumSet(LAMBDA g : page[g].gateway_cost, D) = SumOver([g \in D |-> page[g].gateway_cost], D)
           /\ MapThenSumSet(LAMBDA g : page[g].refund_cost, D) = SumOver([g \in D |-> page[g].refund_cost], D)
           /\ MapThenSumSet(LAMBDA g : page[g].shipping_cost, D) = SumOver([g \in D |-> page[g].shipping_cost], D)
           /\ MapThenSumSet(LAMBDA g : page[g].units_sold, D) = SumOver([g \in D |-> page[g].units_sold], D)
           /\ MapThenSumSet(LAMBDA g : page[g].revenue, D) = SumOver([g \in D |-> page[g].revenue], D)
           /\ MapThenSumSet(LAMBDA g : page[g].net_contribution, D) = SumOver([g \in D |-> page[g].net_contribution], D)
           /\ MapThenSumSet(LAMBDA g : page[g].revenue - page[g].cogs - page[g].packaging_cost, D)
                = SumOver([g \in D |-> page[g].revenue - page[g].cogs - page[g].packaging_cost], D)
<1>1. MapThenSumSet(LAMBDA g : page[g].gateway_cost, D) = SumOver([g \in D |-> page[g].gateway_cost], D)
  BY GatewayColumn
<1>2. MapThenSumSet(LAMBDA g : page[g].refund_cost, D) = SumOver([g \in D |-> page[g].refund_cost], D)
  BY RefundColumn
<1>3. MapThenSumSet(LAMBDA g : page[g].shipping_cost, D) = SumOver([g \in D |-> page[g].shipping_cost], D)
  BY ShippingColumn
<1>4. MapThenSumSet(LAMBDA g : page[g].units_sold, D) = SumOver([g \in D |-> page[g].units_sold], D)
  BY UnitsColumn
<1>5. MapThenSumSet(LAMBDA g : page[g].revenue, D) = SumOver([g \in D |-> page[g].revenue], D)
  BY RevenueColumn
<1>6. MapThenSumSet(LAMBDA g : page[g].net_contribution, D) = SumOver([g \in D |-> page[g].net_contribution], D)
  BY ContributionColumn
<1>7. MapThenSumSet(LAMBDA g : page[g].revenue - page[g].cogs - page[g].packaging_cost, D)
        = SumOver([g \in D |-> page[g].revenue - page[g].cogs - page[g].packaging_cost], D)
  BY BareColumn
<1> QED BY <1>1, <1>2, <1>3, <1>4, <1>5, <1>6, <1>7

PageOf(page, paid) == page = [g \in ProductsSold(paid) |-> ReportRow(paid, g)]

\* The three columns that orders are spread over
LEMMA CostsAddUp ==
    ASSUME ReportsInv, NEW paid \in SUBSET Placed, NEW page, PageOf(page, paid)
    PROVE  LET D == ProductsSold(paid)
               n == Cardinality(D)
               fee == PAYMENT_GATEWAY_FEE_PERCENT
               common == CommonDenominator(paid)
           IN  /\ 2 * (SumOver([g \in D |-> page[g].gateway_cost], D) * fee[2] - SumOver(Totals(paid), paid) * fee[1])
                        \in -(n * fee[2])..(n * fee[2])
               /\ 2 * (SumOver([g \in D |-> page[g].refund_cost], D) - SumOver(Returned(paid), paid)) \in -n..n
               /\ 2 * (SumOver([g \in D |-> page[g].shipping_cost], D) - SumOver(Shippings(paid), paid)) \in -n..n
               /\ \A g \in D :
                    /\ page[g].gateway_cost \in Int /\ page[g].refund_cost \in Int /\ page[g].shipping_cost \in Int
                    /\ 2 * ((common * fee[2]) * page[g].gateway_cost - Falls(paid, Totals(paid), g) * fee[1])
                            \in -(common * fee[2])..(common * fee[2])
                    /\ 2 * (common * page[g].refund_cost - Falls(paid, Returned(paid), g)) \in -common..common
                    /\ 2 * (common * page[g].shipping_cost - Falls(paid, Shippings(paid), g)) \in -common..common
<1> DEFINE D == ProductsSold(paid)
           n == Cardinality(D)
           fee == PAYMENT_GATEWAY_FEE_PERCENT
           common == CommonDenominator(paid)
<1>1. /\ common \in Nat \ {0} /\ fee[1] \in Nat /\ fee[2] \in Nat \ {0}
      /\ IsFiniteSet(D) /\ n \in Nat
  BY DenominatorIsCommon, FeeFacts, SoldFacts, FS_CardinalityType
<1>2. \A g \in D : /\ page[g].gateway_cost = Quantized(Falls(paid, Totals(paid), g) * fee[1], common * fee[2])
                   /\ page[g].shipping_cost = Quantized(Falls(paid, Shippings(paid), g), common)
                   /\ page[g].refund_cost = Quantized(Falls(paid, Returned(paid), g), common)
  BY RowFacts DEF PageOf
<1>3. /\ \A g \in D : /\ Falls(paid, Totals(paid), g) \in Int /\ Falls(paid, Shippings(paid), g) \in Int
                      /\ Falls(paid, Returned(paid), g) \in Int
      /\ SumOver([g \in D |-> Falls(paid, Totals(paid), g)], D) = common * SumOver(Totals(paid), paid)
      /\ SumOver([g \in D |-> Falls(paid, Shippings(paid), g)], D) = common * SumOver(Shippings(paid), paid)
      /\ SumOver([g \in D |-> Falls(paid, Returned(paid), g)], D) = common * SumOver(Returned(paid), paid)
      /\ SumOver(Totals(paid), paid) \in Int /\ SumOver(Shippings(paid), paid) \in Int /\ SumOver(Returned(paid), paid) \in Int
  BY SpreadAmounts
<1> HIDE DEF D, n, fee, common
<1>4. /\ 2 * (SumOver([g \in D |-> page[g].gateway_cost], D) * fee[2] - SumOver(Totals(paid), paid) * fee[1])
                \in -(n * fee[2])..(n * fee[2])
      /\ \A g \in D :
            /\ page[g].gateway_cost \in Int
            /\ 2 * ((common * fee[2]) * page[g].gateway_cost - Falls(paid, Totals(paid), g) * fee[1])
                    \in -(common * fee[2])..(common * fee[2])
  <2> DEFINE shares == [g \in D |-> Falls(paid, Totals(paid), g)]
             exact == [g \in D |-> Falls(paid, Totals(paid), g) * fee[1]]
             column == [g \in D |-> page[g].gateway_cost]
             all == SumOver(Totals(paid), paid)
  <2>1. \A g \in D : shares[g] \in Int /\ exact[g] = fee[1] * shares[g] /\ exact[g] \in Int
    BY <1>1, <1>3
  <2>2. SumOver(shares, D) = common * all
    BY <1>3
  <2>3. \A g \in D : column[g] = Quantized(exact[g], common * fee[2])
    BY <1>2
  <2>4. all \in Int
    BY <1>3
  <2> HIDE DEF shares, exact, column, all
  <2>5. SumOver(exact, D) = fee[1] * SumOver(shares, D)
    BY <1>1, <2>1, SumOfScaled
  <2>6. SumOver(exact, D) = common * (all * fee[1]) /\ all * fee[1] \in Int
    <3>1. fee[1] * (common * all) = common * (all * fee[1]) /\ all * fee[1] \in Int
      BY <1>1, <2>4
    <3> QED BY <2>2, <2>5, <3>1
  <2>7. /\ \A g \in D : column[g] \in Int /\ 2 * ((common * fee[2]) * column[g] - exact[g]) \in -(common * fee[2])..(common * fee[2])
        /\ SumOver(column, D) \in Int
        /\ 2 * (fee[2] * SumOver(column, D) - all * fee[1]) \in -(n * fee[2])..(n * fee[2])
    <3> DEFINE x == all * fee[1]
               b == fee[2]
    <3>1. /\ x \in Int /\ b \in Nat \ {0} /\ SumOver(exact, D) = common * x
          /\ \A g \in D : exact[g] \in Int /\ column[g] = Quantized(exact[g], common * b)
      BY <1>1, <2>1, <2>3, <2>6
    <3> HIDE DEF x, b
    <3>2. /\ \A g \in D : column[g] \in Int /\ 2 * ((common * b) * column[g] - exact[g]) \in -(common * b)..(common * b)
          /\ SumOver(column, D) \in Int
          /\ 2 * (b * SumOver(column, D) - x) \in -(Cardinality(D) * b)..(Cardinality(D) * b)
      BY <1>1, <3>1, RoundedColumn
    <3> QED BY <3>2 DEF x, b, n
  <2>8. fee[2] * SumOver(column, D) = SumOver(column, D) * fee[2]
    BY <1>1, <2>7
  <2>9. \A g \in D : column[g] = page[g].gateway_cost /\ exact[g] = Falls(paid, Totals(paid), g) * fee[1]
    BY DEF column, exact
  <2> QED BY <2>7, <2>8, <2>9 DEF column, all
<1>5. ASSUME NEW amount, NEW column,
             \A g \in D : column[g] = Quantized(Falls(paid, amount, g), common),
             \A g \in D : Falls(paid, amount, g) \in Int,
             SumOver([g \in D |-> Falls(paid, amount, g)], D) = common * SumOver(amount, paid),
             SumOver(amount, paid) \in Int
      PROVE  /\ 2 * (SumOver(column, D) - SumOver(amount, paid)) \in -n..n
             /\ \A g \in D : /\ column[g] \in Int
                             /\ 2 * (common * column[g] - Falls(paid, amount, g)) \in -common..common
  <2> DEFINE exact == [g \in D |-> Falls(paid, amount, g)]
  <2>1. common * 1 = common /\ n * 1 = n /\ 1 \in Nat \ {0}
    BY <1>1
  <2>2. /\ \A g \in D : exact[g] \in Int /\ exact[g] = Falls(paid, amount, g) /\ column[g] = Quantized(exact[g], common * 1)
        /\ SumOver(exact, D) = common * SumOver(amount, paid)
    BY <1>5, <2>1
  <2> HIDE DEF exact
  <2>3. /\ \A g \in D : column[g] \in Int /\ 2 * ((common * 1) * column[g] - exact[g]) \in -(common * 1)..(common * 1)
        /\ SumOver(column, D) \in Int
        /\ 2 * (1 * SumOver(column, D) - SumOver(amount, paid)) \in -(n * 1)..(n * 1)
    BY <1>1, <1>5, <2>1, <2>2, RoundedColumn DEF n
  <2> QED BY <1>5, <2>1, <2>2, <2>3
<1>6. /\ 2 * (SumOver([g \in D |-> page[g].refund_cost], D) - SumOver(Returned(paid), paid)) \in -n..n
      /\ \A g \in D : /\ page[g].refund_cost \in Int
                      /\ 2 * (common * page[g].refund_cost - Falls(paid, Returned(paid), g)) \in -common..common
  <2> DEFINE column == [g \in D |-> page[g].refund_cost]
  <2>1. \A g \in D : column[g] = Quantized(Falls(paid, Returned(paid), g), common) /\ column[g] = page[g].refund_cost
    BY <1>2
  <2> HIDE DEF column
  <2>2. /\ 2 * (SumOver(column, D) - SumOver(Returned(paid), paid)) \in -n..n
        /\ \A g \in D : column[g] \in Int /\ 2 * (common * column[g] - Falls(paid, Returned(paid), g)) \in -common..common
    BY <1>3, <1>5, <2>1
  <2> QED BY <2>1, <2>2 DEF column
<1>7. /\ 2 * (SumOver([g \in D |-> page[g].shipping_cost], D) - SumOver(Shippings(paid), paid)) \in -n..n
      /\ \A g \in D : /\ page[g].shipping_cost \in Int
                      /\ 2 * (common * page[g].shipping_cost - Falls(paid, Shippings(paid), g)) \in -common..common
  <2> DEFINE column == [g \in D |-> page[g].shipping_cost]
  <2>1. \A g \in D : column[g] = Quantized(Falls(paid, Shippings(paid), g), common) /\ column[g] = page[g].shipping_cost
    BY <1>2
  <2> HIDE DEF column
  <2>2. /\ 2 * (SumOver(column, D) - SumOver(Shippings(paid), paid)) \in -n..n
        /\ \A g \in D : column[g] \in Int /\ 2 * (common * column[g] - Falls(paid, Shippings(paid), g)) \in -common..common
    BY <1>3, <1>5, <2>1
  <2> QED BY <2>1, <2>2 DEF column
<1> QED BY <1>4, <1>6, <1>7 DEF D, n, fee, common

CostsOf(paid) ==
    SumOver(Totals(paid), paid) * PAYMENT_GATEWAY_FEE_PERCENT[1]
    + (SumOver(Returned(paid), paid) + SumOver(Shippings(paid), paid)) * PAYMENT_GATEWAY_FEE_PERCENT[2]

\* Units and revenue of the products are those of the orders.
LEMMA UnitsAddUp ==
    ASSUME ReportsInv, NEW paid \in SUBSET Placed, NEW page, PageOf(page, paid)
    PROVE  /\ SumOver([g \in ProductsSold(paid) |-> page[g].units_sold], ProductsSold(paid))
                = SumOver([o \in paid |-> TotalItems(sales[o].items)], paid)
           /\ \A g \in ProductsSold(paid) : page[g].units_sold \in Nat \ {0}
<1> DEFINE D == ProductsSold(paid)
           e == UnitsOf(paid)
           a == [g \in D |-> page[g].units_sold]
           b == [o \in paid |-> TotalItems(sales[o].items)]
<1>1. \A g \in D : a[g] = SumOver(e, LinesSold(paid, g)) /\ a[g] = page[g].units_sold
  BY RowFacts DEF PageOf
<1>2. \A s \in AllSold(paid) : e[s] \in Nat \ {0} /\ e[s] = s.line.quantity
  BY SoldFacts DEF UnitsOf
<1>3. ASSUME NEW o \in paid PROVE b[o] = SumOver([l \in sales[o].items |-> e[LineOf(o, l)]], sales[o].items)
  <2> DEFINE f == [l \in sales[o].items |-> e[LineOf(o, l)]]
             h == [l \in sales[o].items |-> l.quantity]
  <2>1. IsFiniteSet(sales[o].items)
    BY OrderFacts
  <2>2. \A l \in sales[o].items : f[l] = h[l]
    BY <1>2 DEF AllSold, LineOf
  <2>3. b[o] = SumOver(h, sales[o].items)
    BY <2>1, TotalItemsIsSum
  <2> HIDE DEF f, h
  <2>4. SumOver(f, sales[o].items) = SumOver(h, sales[o].items)
    BY <2>1, <2>2, SumSame
  <2> QED BY <2>3, <2>4 DEF f
<1> HIDE DEF e, a, b
<1>4. SumOver(e, AllSold(paid)) = SumOver(b, paid)
  <2>1. \A s \in AllSold(paid) : e[s] \in Int
    BY <1>2
  <2> QED BY <1>3, <2>1, OverOrders
<1>5. SumOver(e, AllSold(paid)) = SumOver(a, D)
  BY <1>1, <1>2, OverProducts
<1>6. ASSUME NEW g \in D PROVE a[g] \in Nat \ {0}
  <2> DEFINE sold == LinesSold(paid, g)
  <2>1. sold \subseteq AllSold(paid) /\ IsFiniteSet(sold) /\ sold # {}
    BY LinesOfProduct, SoldFacts, FS_Subset DEF ProductsSold
  <2>2. PICK s \in sold : TRUE
    BY <2>1
  <2> HIDE DEF sold
  <2>3. SumOver(e, sold) = e[s] + SumOver(e, sold \ {s})
    BY <1>2, <2>1, SumWithout
  <2>4. SumOver(e, sold \ {s}) \in Nat
    <3>1. IsFiniteSet(sold \ {s}) /\ \A t \in sold \ {s} : e[t] \in Nat
      BY <1>2, <2>1, FS_Subset
    <3> QED BY <3>1, SumIsNat
  <2>5. e[s] \in Nat \ {0}
    BY <1>2, <2>1
  <2> QED BY <1>1, <2>3, <2>4, <2>5 DEF sold
<1> QED BY <1>1, <1>4, <1>5, <1>6 DEF a, b

LEMMA RevenueAddsUp ==
    ASSUME ReportsInv, NEW paid \in SUBSET Placed, NEW page, PageOf(page, paid)
    PROVE  /\ SumOver([g \in ProductsSold(paid) |-> page[g].revenue], ProductsSold(paid))
                = SumOver([o \in paid |-> MapThenSumSet(taxable_value, sales[o].items)], paid)
           /\ \A g \in ProductsSold(paid) : page[g].revenue \in Int
<1> DEFINE D == ProductsSold(paid)
           e == TaxableOf(paid)
           a == [g \in D |-> page[g].revenue]
           b == [o \in paid |-> MapThenSumSet(taxable_value, sales[o].items)]
<1>1. \A g \in D : a[g] = SumOver(e, LinesSold(paid, g)) /\ a[g] = page[g].revenue
  BY RowFacts DEF PageOf
<1>2. \A s \in AllSold(paid) : e[s] \in Int /\ e[s] = taxable_value(s.line)
  <2> TAKE s \in AllSold(paid)
  <2>1. s.line.unit_price \in Nat /\ s.line.quantity \in Nat /\ s.line.gst_rate \in Nat
    BY SoldFacts
  <2>2. taxable_value(s.line) \in Int
    BY <2>1, LineAmounts
  <2> QED BY <2>2 DEF TaxableOf
<1>3. ASSUME NEW o \in paid PROVE b[o] = SumOver([l \in sales[o].items |-> e[LineOf(o, l)]], sales[o].items)
  <2> DEFINE f == [l \in sales[o].items |-> e[LineOf(o, l)]]
             h == [l \in sales[o].items |-> taxable_value(l)]
  <2>1. IsFiniteSet(sales[o].items)
    BY OrderFacts
  <2>2. \A l \in sales[o].items : f[l] = h[l]
    BY <1>2 DEF AllSold, LineOf
  <2>3. b[o] = SumOver(h, sales[o].items)
    BY <2>1, TaxableIsSum
  <2> HIDE DEF f, h
  <2>4. SumOver(f, sales[o].items) = SumOver(h, sales[o].items)
    BY <2>1, <2>2, SumSame
  <2> QED BY <2>3, <2>4 DEF f
<1> HIDE DEF e, a, b
<1>4. SumOver(e, AllSold(paid)) = SumOver(b, paid)
  BY <1>2, <1>3, OverOrders
<1>5. SumOver(e, AllSold(paid)) = SumOver(a, D) /\ \A g \in D : a[g] \in Int
  BY <1>1, <1>2, OverProducts
<1> QED BY <1>1, <1>4, <1>5 DEF a, b

\* What a product costs, and the columns of a row
LEMMA RowIsInt ==
    ASSUME ReportsInv, NEW paid \in SUBSET Placed, NEW page, PageOf(page, paid), NEW g \in ProductsSold(paid)
    PROVE  /\ CostOf(g) \in Nat /\ page[g].cogs = page[g].units_sold * CostOf(g)
           /\ page[g].cost_price_missing = (CostOf(g) = 0)
           /\ page[g].revenue - page[g].cogs - page[g].packaging_cost \in Int
<1>1. CostOf(g) \in Nat
  <2>1. PICK S \in SUBSET Articles : cost_price \in [S -> {0} \union CostPrices]
    BY DEF ReportsInv
  <2>2. {0} \union CostPrices \subseteq Nat
    BY ReportsAssumption
  <2> QED BY <2>1, <2>2 DEF CostOf
<1>2. page[g].units_sold \in Nat /\ page[g].revenue \in Int
  BY UnitsAddUp, RevenueAddsUp
<1>3. /\ page[g].cogs = page[g].units_sold * CostOf(g) /\ page[g].cost_price_missing = (CostOf(g) = 0)
      /\ page[g].packaging_cost = page[g].units_sold * DEFAULT_PACKAGING_COST_PER_UNIT
  BY RowFacts DEF PageOf
<1>4. page[g].cogs \in Int /\ page[g].packaging_cost \in Int
  BY <1>1, <1>2, <1>3, FeeFacts
<1> QED BY <1>1, <1>2, <1>3, <1>4

\* A row's contribution is what its columns leave, to two paise, and all rows' what the orders leave.
LEMMA ContributionsAddUp ==
    ASSUME ReportsInv, NEW paid \in SUBSET Placed, NEW page, PageOf(page, paid)
    PROVE  LET D == ProductsSold(paid)
               n == Cardinality(D)
               b == PAYMENT_GATEWAY_FEE_PERCENT[2]
               bare == [g \in D |-> page[g].revenue - page[g].cogs - page[g].packaging_cost]
               net == [g \in D |-> page[g].net_contribution]
           IN  /\ \A g \in D : page[g].net_contribution
                                - (bare[g] - page[g].gateway_cost - page[g].shipping_cost - page[g].refund_cost) \in -2..2
               /\ 2 * ((SumOver(net, D) - SumOver(bare, D)) * b + CostsOf(paid)) \in -(n * b)..(n * b)
<1> DEFINE D == ProductsSold(paid)
           n == Cardinality(D)
           fee == PAYMENT_GATEWAY_FEE_PERCENT
           common == CommonDenominator(paid)
           bare == [g \in D |-> page[g].revenue - page[g].cogs - page[g].packaging_cost]
           net == [g \in D |-> page[g].net_contribution]
           gw(g) == Falls(paid, Totals(paid), g) * fee[1]
           sh(g) == Falls(paid, Shippings(paid), g)
           re(g) == Falls(paid, Returned(paid), g)
           exact == [g \in D |-> -(gw(g) + (sh(g) + re(g)) * fee[2])]
           rounded == [g \in D |-> Quantized(-(gw(g) + (sh(g) + re(g)) * fee[2]), common * fee[2])]
<1>1. /\ common \in Nat \ {0} /\ fee[1] \in Nat /\ fee[2] \in Nat \ {0} /\ common * fee[2] \in Nat \ {0}
      /\ IsFiniteSet(D) /\ n \in Nat
  <2>1. common \in Nat \ {0} /\ fee[1] \in Nat /\ fee[2] \in Nat \ {0}
    BY DenominatorIsCommon, FeeFacts
  <2>2. common * fee[2] \in Nat \ {0}
    BY <2>1
  <2> QED BY <2>1, <2>2, SoldFacts, FS_CardinalityType
<1>2. \A g \in D : gw(g) \in Int /\ sh(g) \in Int /\ re(g) \in Int
  <2> TAKE g \in D
  <2>1. Falls(paid, Totals(paid), g) \in Int /\ sh(g) \in Int /\ re(g) \in Int
    BY SpreadAmounts
  <2> QED BY <1>1, <2>1
<1>3. \A g \in D : bare[g] \in Int /\ bare[g] = page[g].revenue - page[g].cogs - page[g].packaging_cost
  BY RowIsInt
<1>4. \A g \in D : exact[g] = -(gw(g) + (sh(g) + re(g)) * fee[2]) /\ exact[g] \in Int
  <2> TAKE g \in D
  <2>1. gw(g) \in Int /\ (sh(g) + re(g)) * fee[2] \in Int
    BY <1>1, <1>2
  <2> QED BY <2>1
<1>5. \A g \in D : rounded[g] = Quantized(exact[g], common * fee[2])
  OBVIOUS
<1>6. \A g \in D : net[g] = bare[g] + rounded[g] /\ net[g] = page[g].net_contribution
  BY RowFacts DEF PageOf
<1> HIDE DEF rounded
<1>7. \A g \in D : rounded[g] \in Int /\ 2 * ((common * fee[2]) * rounded[g] - exact[g]) \in -(common * fee[2])..(common * fee[2])
  BY <1>1, <1>4, <1>5, QuantizedIsNear
<1> HIDE DEF exact, bare, net
<1>8. ASSUME NEW g \in D
      PROVE  page[g].net_contribution
                - (bare[g] - page[g].gateway_cost - page[g].shipping_cost - page[g].refund_cost) \in -2..2
  <2>1. /\ page[g].gateway_cost \in Int /\ page[g].refund_cost \in Int /\ page[g].shipping_cost \in Int
        /\ 2 * ((common * fee[2]) * page[g].gateway_cost - gw(g)) \in -(common * fee[2])..(common * fee[2])
        /\ 2 * (common * page[g].refund_cost - re(g)) \in -common..common
        /\ 2 * (common * page[g].shipping_cost - sh(g)) \in -common..common
    BY CostsAddUp
  <2>2. 2 * ((common * fee[2]) * rounded[g] + (gw(g) + (sh(g) + re(g)) * fee[2])) \in -(common * fee[2])..(common * fee[2])
    <3>1. ASSUME NEW x \in Int, NEW y \in Int, NEW e \in Int, e = -y PROVE 2 * (x - e) = 2 * (x + y)
      BY <3>1
    <3>2. (common * fee[2]) * rounded[g] \in Int /\ gw(g) + (sh(g) + re(g)) * fee[2] \in Int
      BY <1>1, <1>2, <1>7
    <3>3. 2 * ((common * fee[2]) * rounded[g] - exact[g])
            = 2 * ((common * fee[2]) * rounded[g] + (gw(g) + (sh(g) + re(g)) * fee[2]))
      BY <1>4, <3>1, <3>2
    <3> QED BY <1>7, <3>3
  <2> HIDE DEF gw, sh, re, fee, common, D
  <2>3. rounded[g] + page[g].gateway_cost + page[g].shipping_cost + page[g].refund_cost \in -2..2
    BY <1>1, <1>2, <1>7, <2>1, <2>2, RowIsNear
  <2>4. net[g] = bare[g] + rounded[g] /\ net[g] = page[g].net_contribution /\ bare[g] \in Int /\ rounded[g] \in Int
    BY <1>3, <1>6, <1>7
  <2> QED BY <2>1, <2>3, <2>4
<1>9. 2 * ((SumOver(net, D) - SumOver(bare, D)) * fee[2] + CostsOf(paid)) \in -(n * fee[2])..(n * fee[2])
  <2> DEFINE x == -CostsOf(paid)
             b == fee[2]
  <2>1. x \in Int /\ CostsOf(paid) \in Int
    <3>1. /\ SumOver(Totals(paid), paid) \in Int /\ SumOver(Returned(paid), paid) \in Int
          /\ SumOver(Shippings(paid), paid) \in Int
      BY SpreadAmounts
    <3>2. CostsOf(paid) \in Int
      BY <1>1, <3>1 DEF CostsOf
    <3> QED BY <3>2
  <2>2. SumOver(exact, D) = common * x
    <3> DEFINE t == [g \in D |-> Falls(paid, Totals(paid), g)]
               s == [g \in D |-> Falls(paid, Shippings(paid), g)]
               r == [g \in D |-> Falls(paid, Returned(paid), g)]
               u == [g \in D |-> s[g] + r[g]]
               v == [g \in D |-> (-fee[1]) * t[g]]
               w == [g \in D |-> (-fee[2]) * u[g]]
               T == SumOver(Totals(paid), paid)
               S == SumOver(Shippings(paid), paid)
               R == SumOver(Returned(paid), paid)
    <3>1. /\ SumOver(t, D) = common * T /\ SumOver(s, D) = common * S /\ SumOver(r, D) = common * R
          /\ T \in Int /\ S \in Int /\ R \in Int
          /\ \A g \in D : t[g] \in Int /\ s[g] \in Int /\ r[g] \in Int
      BY SpreadAmounts
    <3>2. \A g \in D : u[g] \in Int /\ u[g] = s[g] + r[g]
      BY <3>1
    <3>3. \A g \in D : v[g] = (-fee[1]) * t[g] /\ w[g] = (-fee[2]) * u[g] /\ v[g] \in Int /\ w[g] \in Int
      BY <1>1, <3>1, <3>2
    <3>4. \A g \in D : exact[g] = v[g] + w[g] /\ v[g] \in Int /\ w[g] \in Int
      <4> TAKE g \in D
      <4>1. exact[g] = -(t[g] * fee[1] + (s[g] + r[g]) * fee[2])
        BY <1>4
      <4>2. v[g] = (-fee[1]) * t[g] /\ w[g] = (-fee[2]) * (s[g] + r[g])
        BY <3>2, <3>3
      <4>3. t[g] \in Int /\ s[g] \in Int /\ r[g] \in Int /\ fee[1] \in Int /\ fee[2] \in Int
        BY <1>1, <3>1
      <4> HIDE DEF t, s, r, u, v, w, fee
      <4>4. -(t[g] * fee[1] + (s[g] + r[g]) * fee[2]) = (-fee[1]) * t[g] + (-fee[2]) * (s[g] + r[g])
        BY <4>3
      <4> QED BY <3>3, <4>1, <4>2, <4>4
    <3>5. -fee[1] \in Int /\ -fee[2] \in Int
      BY <1>1
    <3> HIDE DEF t, s, r, u, v, w, T, S, R, fee, common, D
    <3>6. SumOver(v, D) = (-fee[1]) * SumOver(t, D) /\ SumOver(w, D) = (-fee[2]) * SumOver(u, D)
      <4> DEFINE j == -fee[1]
                 k == -fee[2]
      <4>1. /\ j \in Int /\ \A g \in D : t[g] \in Int /\ v[g] = j * t[g]
            /\ k \in Int /\ \A g \in D : u[g] \in Int /\ w[g] = k * u[g]
        BY <3>1, <3>2, <3>3, <3>5
      <4> HIDE DEF j, k
      <4>2. IsFiniteSet(D) /\ j \in Int /\ \A g \in D : t[g] \in Int /\ v[g] = j * t[g]
        BY <1>1, <4>1
      <4>3. IsFiniteSet(D) /\ k \in Int /\ \A g \in D : u[g] \in Int /\ w[g] = k * u[g]
        BY <1>1, <4>1
      <4>4. SumOver(v, D) = j * SumOver(t, D)
        BY ONLY <4>2, SumOfScaled
      <4>5. SumOver(w, D) = k * SumOver(u, D)
        BY ONLY <4>3, SumOfScaled
      <4> QED BY <4>4, <4>5 DEF j, k
    <3>7. SumOver(u, D) = SumOver(s, D) + SumOver(r, D)
      BY <1>1, <3>1, <3>2, SumOfBoth
    <3>8. SumOver(exact, D) = SumOver(v, D) + SumOver(w, D)
      BY <1>1, <3>4, SumOfBoth
    <3>9. x = -(T * fee[1] + (R + S) * fee[2])
      BY DEF CostsOf, T, S, R, fee
    <3>10. (-fee[1]) * (common * T) + (-fee[2]) * (common * S + common * R) = common * (-(T * fee[1] + (R + S) * fee[2]))
      BY <1>1, <3>1
    <3> HIDE DEF x
    <3> QED BY <3>1, <3>6, <3>7, <3>8, <3>9, <3>10
  <2>3. \A g \in D : rounded[g] = Quantized(exact[g], common * b) /\ exact[g] \in Int
    BY <1>4, <1>5
  <2> HIDE DEF x, b, common, gw, sh, re, D
  <2>4. SumOver(rounded, D) \in Int /\ 2 * (b * SumOver(rounded, D) - x) \in -(Cardinality(D) * b)..(Cardinality(D) * b)
    BY <1>1, <2>1, <2>2, <2>3, RoundedColumn DEF b
  <2>5. SumOver(net, D) = SumOver(bare, D) + SumOver(rounded, D) /\ SumOver(bare, D) \in Int
    BY <1>1, <1>3, <1>6, <1>7, SumOfBoth, SumIsInt
  <2>6. b * SumOver(rounded, D) - x = (SumOver(net, D) - SumOver(bare, D)) * b + CostsOf(paid)
    BY <1>1, <2>1, <2>4, <2>5 DEF x, b
  <2> QED BY <2>4, <2>6 DEF n, b
<1> QED BY <1>8, <1>9 DEF bare, net

LEMMA AmountsAreSums ==
    ASSUME ReportsInv, NEW paid \in SUBSET Placed
    PROVE  /\ MapThenSumSet(TotalAmount, paid) = SumOver(Totals(paid), paid)
           /\ MapThenSumSet(_refunded_amount, paid) = SumOver(Returned(paid), paid)
           /\ Cardinality(paid) * DEFAULT_SHIPPING_COST_PER_ORDER = SumOver(Shippings(paid), paid)
           /\ MapThenSumSet(LAMBDA o : TotalItems(sales[o].items), paid)
                = SumOver([o \in paid |-> TotalItems(sales[o].items)], paid)
           /\ SumOver(Totals(paid), paid) \in Int /\ SumOver(Returned(paid), paid) \in Int
           /\ SumOver(Shippings(paid), paid) \in Int
<1>1. IsFiniteSet(paid)
  BY SoldFacts
<1>2. MapThenSumSet(TotalAmount, paid) = SumOver(Totals(paid), paid)
  BY <1>1, TotalAmountsAreSum DEF Totals
<1>3. MapThenSumSet(_refunded_amount, paid) = SumOver(Returned(paid), paid)
  BY <1>1, RefundsAreSum DEF Returned
<1>4. Cardinality(paid) * DEFAULT_SHIPPING_COST_PER_ORDER = SumOver(Shippings(paid), paid)
  <2> DEFINE ones == [o \in paid |-> 1]
             c == DEFAULT_SHIPPING_COST_PER_ORDER
             e == Shippings(paid)
  <2>1. \A o \in paid : ones[o] = 1 /\ ones[o] \in Int /\ e[o] = c * ones[o]
    BY FeeFacts DEF Shippings
  <2>2. c \in Int /\ Cardinality(paid) \in Int
    BY <1>1, FeeFacts, FS_CardinalityType
  <2> HIDE DEF ones, c, e
  <2>3. SumOver(e, paid) = c * SumOver(ones, paid)
    BY <1>1, <2>1, <2>2, SumOfScaled
  <2>4. SumOver(ones, paid) = Cardinality(paid)
    BY <1>1, <2>1, SumOfOnes
  <2> QED BY <2>2, <2>3, <2>4 DEF c, e
<1>5. MapThenSumSet(LAMBDA o : TotalItems(sales[o].items), paid)
        = SumOver([o \in paid |-> TotalItems(sales[o].items)], paid)
  BY <1>1, ItemsAreSum
<1> QED BY <1>2, <1>3, <1>4, <1>5, SpreadAmounts

\* A page of the report: its rows and totals
LEMMA PageFacts ==
    ASSUME ReportsInv, NEW from, NEW to, NEW page, page = profitability_report(from, to)
    PROVE  LET paid == _paid_orders_queryset(from, to)
               D == ProductsSold(paid)
           IN  /\ paid \in SUBSET Placed /\ PageOf(page.rows, paid) /\ DOMAIN page.rows = D
               /\ page.total_revenue = SumOver([g \in D |-> page.rows[g].revenue], D)
               /\ page.total_net_contribution = SumOver([g \in D |-> page.rows[g].net_contribution], D)
               /\ page.any_cost_price_missing = \E g \in D : page.rows[g].cost_price_missing
<1> DEFINE paid == _paid_orders_queryset(from, to)
           D == ProductsSold(paid)
<1>1. paid \in SUBSET Placed
  BY DEF _paid_orders_queryset
<1>2. PICK list : list = product_profitability_report(from, to)
  OBVIOUS
<1>3. PageOf(list, paid) /\ DOMAIN list = D
  BY <1>2 DEF product_profitability_report, PageOf, ProductsSold
<1>4. /\ page.rows = list
      /\ page.total_revenue = MapThenSumSet(LAMBDA g : list[g].revenue, DOMAIN list)
      /\ page.total_net_contribution = MapThenSumSet(LAMBDA g : list[g].net_contribution, DOMAIN list)
      /\ page.any_cost_price_missing = \E g \in DOMAIN list : list[g].cost_price_missing
  BY <1>2 DEF profitability_report
<1>5. IsFiniteSet(D)
  BY <1>1, SoldFacts
<1>6. /\ MapThenSumSet(LAMBDA g : list[g].revenue, D) = SumOver([g \in D |-> list[g].revenue], D)
      /\ MapThenSumSet(LAMBDA g : list[g].net_contribution, D) = SumOver([g \in D |-> list[g].net_contribution], D)
  BY <1>5, ColumnsOfPage
<1> QED BY <1>1, <1>3, <1>4, <1>6

\* Whatever the window, its page adds up.
LEMMA ReportsInvReport == ReportsInv => ReportAddsUp
<1> USE DEF ReportAddsUp
<1> HAVE ReportsInv
<1> TAKE from \in {Unset} \union 1..today, to \in {Unset} \union 0..(today - 1)
<1> TAKE page \in {profitability_report(from, to)}
<1> DEFINE paid == _paid_orders_queryset(from, to)
           D == ProductsSold(paid)
<1>2. /\ paid \in SUBSET Placed /\ PageOf(page.rows, paid) /\ DOMAIN page.rows = D
      /\ page.total_net_contribution = SumOver([g \in D |-> page.rows[g].net_contribution], D)
      /\ page.any_cost_price_missing = \E g \in D : page.rows[g].cost_price_missing
  BY PageFacts
<1> HIDE DEF paid, D
<1>3. IsFiniteSet(ProductsSold(paid))
  BY <1>2, SoldFacts
<1>4. CostsOf(paid) = MapThenSumSet(TotalAmount, paid) * PAYMENT_GATEWAY_FEE_PERCENT[1]
            + (MapThenSumSet(_refunded_amount, paid) + Cardinality(paid) * DEFAULT_SHIPPING_COST_PER_ORDER)
                * PAYMENT_GATEWAY_FEE_PERCENT[2]
  BY <1>2, AmountsAreSums DEF CostsOf
<1>5. page.any_cost_price_missing <=> \E g \in D : page.rows[g].cogs = 0
  <2>1. \A g \in D : page.rows[g].cost_price_missing <=> page.rows[g].cogs = 0
    <3> SUFFICES ASSUME NEW g \in ProductsSold(paid)
                 PROVE  page.rows[g].cost_price_missing <=> page.rows[g].cogs = 0
      BY DEF D
    <3>1. /\ CostOf(g) \in Nat /\ page.rows[g].cogs = page.rows[g].units_sold * CostOf(g)
          /\ page.rows[g].cost_price_missing = (CostOf(g) = 0)
          /\ page.rows[g].units_sold \in Nat \ {0}
      BY <1>2, RowIsInt, UnitsAddUp
    <3>2. \A c \in Nat, u \in Nat \ {0} : u * c = 0 <=> c = 0
      OBVIOUS
    <3>3. page.rows[g].cogs = 0 <=> CostOf(g) = 0
      BY <3>1, <3>2
    <3> QED BY ONLY <3>1, <3>3, Zenon
  <2> QED BY <1>2, <2>1
<1>6. /\ 2 * (MapThenSumSet(LAMBDA g : page.rows[g].gateway_cost, D) * PAYMENT_GATEWAY_FEE_PERCENT[2]
                - MapThenSumSet(TotalAmount, paid) * PAYMENT_GATEWAY_FEE_PERCENT[1])
            \in -(Cardinality(D) * PAYMENT_GATEWAY_FEE_PERCENT[2])..(Cardinality(D) * PAYMENT_GATEWAY_FEE_PERCENT[2])
      /\ 2 * (MapThenSumSet(LAMBDA g : page.rows[g].refund_cost, D) - MapThenSumSet(_refunded_amount, paid))
            \in -Cardinality(D)..Cardinality(D)
      /\ 2 * (MapThenSumSet(LAMBDA g : page.rows[g].shipping_cost, D) - Cardinality(paid) * DEFAULT_SHIPPING_COST_PER_ORDER)
            \in -Cardinality(D)..Cardinality(D)
  <2>1. /\ MapThenSumSet(LAMBDA g : page.rows[g].gateway_cost, D) = SumOver([g \in D |-> page.rows[g].gateway_cost], D)
        /\ MapThenSumSet(LAMBDA g : page.rows[g].refund_cost, D) = SumOver([g \in D |-> page.rows[g].refund_cost], D)
        /\ MapThenSumSet(LAMBDA g : page.rows[g].shipping_cost, D) = SumOver([g \in D |-> page.rows[g].shipping_cost], D)
    BY <1>3, ColumnsOfPage DEF D
  <2>2. /\ MapThenSumSet(TotalAmount, paid) = SumOver(Totals(paid), paid)
        /\ MapThenSumSet(_refunded_amount, paid) = SumOver(Returned(paid), paid)
        /\ Cardinality(paid) * DEFAULT_SHIPPING_COST_PER_ORDER = SumOver(Shippings(paid), paid)
    BY <1>2, AmountsAreSums
  <2>3. /\ 2 * (SumOver([g \in D |-> page.rows[g].gateway_cost], D) * PAYMENT_GATEWAY_FEE_PERCENT[2]
                - SumOver(Totals(paid), paid) * PAYMENT_GATEWAY_FEE_PERCENT[1])
            \in -(Cardinality(D) * PAYMENT_GATEWAY_FEE_PERCENT[2])..(Cardinality(D) * PAYMENT_GATEWAY_FEE_PERCENT[2])
        /\ 2 * (SumOver([g \in D |-> page.rows[g].refund_cost], D) - SumOver(Returned(paid), paid)) \in -Cardinality(D)..Cardinality(D)
        /\ 2 * (SumOver([g \in D |-> page.rows[g].shipping_cost], D) - SumOver(Shippings(paid), paid)) \in -Cardinality(D)..Cardinality(D)
    BY <1>2, CostsAddUp DEF D
  <2> QED BY ONLY <2>1, <2>2, <2>3
<1>7. MapThenSumSet(LAMBDA g : page.rows[g].units_sold, D) = MapThenSumSet(LAMBDA o : TotalItems(sales[o].items), paid)
  <2>1. MapThenSumSet(LAMBDA g : page.rows[g].units_sold, D) = SumOver([g \in D |-> page.rows[g].units_sold], D)
    BY <1>3, ColumnsOfPage DEF D
  <2>2. MapThenSumSet(LAMBDA o : TotalItems(sales[o].items), paid)
            = SumOver([o \in paid |-> TotalItems(sales[o].items)], paid)
    BY <1>2, AmountsAreSums
  <2>3. SumOver([g \in D |-> page.rows[g].units_sold], D) = SumOver([o \in paid |-> TotalItems(sales[o].items)], paid)
    BY <1>2, UnitsAddUp DEF D
  <2> QED BY ONLY <2>1, <2>2, <2>3
<1>8. /\ \A g \in D :
            page.rows[g].net_contribution
                - ((page.rows[g].revenue - page.rows[g].cogs - page.rows[g].packaging_cost)
                    - page.rows[g].gateway_cost - page.rows[g].shipping_cost - page.rows[g].refund_cost) \in -2..2
      /\ 2 * ((page.total_net_contribution
                    - MapThenSumSet(LAMBDA g : page.rows[g].revenue - page.rows[g].cogs - page.rows[g].packaging_cost, D))
                * PAYMENT_GATEWAY_FEE_PERCENT[2] + CostsOf(paid))
            \in -(Cardinality(D) * PAYMENT_GATEWAY_FEE_PERCENT[2])..(Cardinality(D) * PAYMENT_GATEWAY_FEE_PERCENT[2])
  <2> DEFINE bare == [g \in D |-> page.rows[g].revenue - page.rows[g].cogs - page.rows[g].packaging_cost]
  <2>1. /\ \A g \in D : page.rows[g].net_contribution
                        - (bare[g] - page.rows[g].gateway_cost - page.rows[g].shipping_cost - page.rows[g].refund_cost) \in -2..2
        /\ 2 * ((SumOver([g \in D |-> page.rows[g].net_contribution], D) - SumOver(bare, D)) * PAYMENT_GATEWAY_FEE_PERCENT[2]
                + CostsOf(paid))
            \in -(Cardinality(D) * PAYMENT_GATEWAY_FEE_PERCENT[2])..(Cardinality(D) * PAYMENT_GATEWAY_FEE_PERCENT[2])
    BY <1>2, ContributionsAddUp DEF D
  <2>2. MapThenSumSet(LAMBDA g : page.rows[g].revenue - page.rows[g].cogs - page.rows[g].packaging_cost, D) = SumOver(bare, D)
    BY <1>3, ColumnsOfPage DEF D
  <2> QED BY <1>2, <2>1, <2>2
<1>9. DOMAIN page.rows = D /\ paid = _paid_orders_queryset(from, to)
  BY <1>2 DEF paid
<1> QED BY ONLY <1>4, <1>5, <1>6, <1>7, <1>8, <1>9

\* What every order is worth, and what set of orders is
Worth == [o \in Placed |-> SubtotalOf(o)]
PaidNow == {o \in Placed : sales[o].status \in PaidStatuses}

LEMMA WorthOfOrders ==
    ASSUME ReportsInv, NEW S \in SUBSET Placed
    PROVE  /\ IsFiniteSet(S) /\ \A o \in S : Worth[o] \in Int
           /\ MapThenSumSet(SubtotalOf, S) = SumOver(Worth, S) /\ SumOver(Worth, S) \in Int
<1> DEFINE f == [o \in S |-> SubtotalOf(o)]
<1>1. IsFiniteSet(S) /\ \A o \in S : Worth[o] \in Int /\ f[o] = Worth[o]
  BY SoldFacts, OrderFacts DEF Worth
<1>2. MapThenSumSet(SubtotalOf, S) = SumOver(f, S)
  BY <1>1, SubtotalsAreSum
<1> HIDE DEF f
<1> QED BY <1>1, <1>2, SumSame, SumIsInt

\* The orders that have left the paid statuses are those the report counts and the dashboard does not.
LEMMA LeftBehind ==
    ASSUME ReportsInv
    PROVE  LET all  == _paid_orders_queryset(Unset, Unset)
               left == {o \in all : sales[o].status \notin PaidStatuses}
           IN  all \in SUBSET Placed /\ left \in SUBSET all /\ all \ left = PaidNow
<1>1. \A o \in Placed : sales[o].status \in PaidStatuses => sales[o].payment \in RevenueRecognized
  BY OrderFacts
<1> QED BY <1>1 DEF _paid_orders_queryset, PaidNow

\* What is net of tax and the tax are the price.
LEMMA TaxedAndNet ==
    ASSUME ReportsInv, NEW paid \in SUBSET Placed
    PROVE  SumOver([o \in paid |-> MapThenSumSet(taxable_value, sales[o].items)], paid)
            + MapThenSumSet(LAMBDA o : MapThenSumSet(tax_amount, sales[o].items), paid)
                = SumOver(Worth, paid)
<1> DEFINE a == [o \in paid |-> MapThenSumSet(taxable_value, sales[o].items)]
           b == [o \in paid |-> MapThenSumSet(tax_amount, sales[o].items)]
<1>1. IsFiniteSet(paid)
  BY SoldFacts
<1>2. MapThenSumSet(LAMBDA o : MapThenSumSet(tax_amount, sales[o].items), paid) = SumOver(b, paid)
  BY <1>1, TaxesAreSum
<1>3. ASSUME NEW o \in paid PROVE a[o] \in Int /\ b[o] \in Int /\ Worth[o] = a[o] + b[o]
  <2> DEFINE S == sales[o].items
             t == [l \in S |-> taxable_value(l)]
             x == [l \in S |-> tax_amount(l)]
             p == [l \in S |-> LineTotal(l)]
  <2>1. IsFiniteSet(S)
    BY OrderFacts
  <2>2. \A l \in S : t[l] \in Int /\ x[l] \in Int /\ p[l] = t[l] + x[l]
    <3> TAKE l \in S
    <3>1. l.unit_price \in Nat /\ l.quantity \in Nat /\ l.gst_rate \in Nat
      BY OrderFacts
    <3> QED BY <3>1, LineAmounts
  <2>3. a[o] = SumOver(t, S) /\ b[o] = SumOver(x, S)
    BY <2>1, TaxableIsSum, TaxIsSum
  <2>4. Worth[o] = SumOver(p, S)
    BY <2>1, SubtotalIsSum DEF Worth, SubtotalOf
  <2> HIDE DEF t, x, p, S
  <2>5. SumOver(p, S) = SumOver(t, S) + SumOver(x, S)
    BY <2>1, <2>2, SumOfBoth
  <2>6. SumOver(t, S) \in Int /\ SumOver(x, S) \in Int
    BY <2>1, <2>2, SumIsInt
  <2> QED BY <2>3, <2>4, <2>5, <2>6
<1> HIDE DEF a, b
<1>4. SumOver(Worth, paid) = SumOver(a, paid) + SumOver(b, paid)
  BY <1>1, <1>3, SumOfBoth
<1> QED BY <1>2, <1>4 DEF a

LEMMA RevenueAgrees ==
    ASSUME ReportsInv
    PROVE  LET all  == _paid_orders_queryset(Unset, Unset)
               left == {o \in all : sales[o].status \notin PaidStatuses}
           IN  profitability_report(Unset, Unset).total_revenue
                    + MapThenSumSet(LAMBDA o : MapThenSumSet(tax_amount, sales[o].items), all)
                = store_confirmed_revenue + MapThenSumSet(SubtotalOf, left)
<1> DEFINE all  == _paid_orders_queryset(Unset, Unset)
           left == {o \in all : sales[o].status \notin PaidStatuses}
<1>1. PICK page : page = profitability_report(Unset, Unset)
  OBVIOUS
<1>2. /\ all \in SUBSET Placed /\ PageOf(page.rows, all)
      /\ page.total_revenue = SumOver([g \in ProductsSold(all) |-> page.rows[g].revenue], ProductsSold(all))
  BY <1>1, PageFacts
<1>3. left \in SUBSET all /\ all \ left = PaidNow
  BY LeftBehind
<1> HIDE DEF all, left
<1>4. page.total_revenue = SumOver([o \in all |-> MapThenSumSet(taxable_value, sales[o].items)], all)
  BY <1>2, RevenueAddsUp
<1>5. page.total_revenue + MapThenSumSet(LAMBDA o : MapThenSumSet(tax_amount, sales[o].items), all) = SumOver(Worth, all)
  BY <1>2, <1>4, TaxedAndNet
<1>6. /\ IsFiniteSet(all) /\ \A o \in all : Worth[o] \in Int
      /\ MapThenSumSet(SubtotalOf, left) = SumOver(Worth, left) /\ SumOver(Worth, left) \in Int
      /\ MapThenSumSet(SubtotalOf, PaidNow) = SumOver(Worth, PaidNow) /\ SumOver(Worth, PaidNow) \in Int
  BY <1>2, <1>3, WorthOfOrders DEF PaidNow
<1>7. SumOver(Worth, all) = SumOver(Worth, left) + SumOver(Worth, PaidNow)
  BY <1>3, <1>6, SumOfParts
<1>8. store_confirmed_revenue = SumOver(Worth, PaidNow)
  BY <1>6 DEF store_confirmed_revenue, PaidNow
<1>9. page.total_revenue + MapThenSumSet(LAMBDA o : MapThenSumSet(tax_amount, sales[o].items), all)
        = store_confirmed_revenue + MapThenSumSet(SubtotalOf, left)
  BY <1>5, <1>6, <1>7, <1>8
<1> QED BY <1>1, <1>9 DEF all, left

LEMMA ChartAddsUp ==
    ASSUME ReportsInv
    PROVE  MapThenSumSet(LAMBDA y : _revenue_by_day[y], DOMAIN _revenue_by_day)
            + MapThenSumSet(SubtotalOf, {o \in PaidNow : sales[o].day <= today - TrendDays})
            = store_confirmed_revenue
<1> DEFINE T == (today - TrendDays + 1)..today
           old == {o \in PaidNow : sales[o].day <= today - TrendDays}
           recent == PaidNow \ old
           class == [o \in Placed |-> sales[o].day]
           days == [y \in T |-> _revenue_by_day[y]]
           sums == [y \in T |-> SumOver(Worth, {o \in recent : class[o] = y})]
<1>1. today \in Int /\ TrendDays \in Nat
  BY ReportsAssumption DEF ReportsInv
<1>2. IsFiniteSet(T) /\ DOMAIN _revenue_by_day = T
  BY <1>1, FS_Interval DEF _revenue_by_day
<1>3. /\ PaidNow \in SUBSET Placed /\ old \in SUBSET PaidNow /\ recent \in SUBSET Placed /\ IsFiniteSet(recent)
      /\ IsFiniteSet(PaidNow) /\ \A o \in PaidNow : Worth[o] \in Int
  BY WorthOfOrders DEF PaidNow
<1>4. \A o \in recent : class[o] \in T
  BY <1>1, OrderFacts DEF PaidNow
<1>5. ASSUME NEW y \in T PROVE days[y] = sums[y]
  <2>1. {o \in Placed : sales[o].status \in PaidStatuses /\ sales[o].day = y} = {o \in recent : class[o] = y}
    BY <1>1 DEF PaidNow
  <2>2. {o \in recent : class[o] = y} \in SUBSET Placed
    BY <1>3
  <2>3. _revenue_by_day[y] = MapThenSumSet(SubtotalOf, {o \in Placed : sales[o].status \in PaidStatuses /\ sales[o].day = y})
    BY DEF _revenue_by_day
  <2> HIDE DEF recent, class
  <2> QED BY <2>1, <2>2, <2>3, WorthOfOrders
<1>6. MapThenSumSet(LAMBDA y : _revenue_by_day[y], T) = SumOver(days, T)
  BY <1>2, ColumnIsSum
<1>7. /\ MapThenSumSet(SubtotalOf, old) = SumOver(Worth, old) /\ SumOver(Worth, old) \in Int
      /\ SumOver(Worth, recent) \in Int /\ SumOver(Worth, PaidNow) \in Int
      /\ MapThenSumSet(SubtotalOf, PaidNow) = SumOver(Worth, PaidNow)
  BY <1>3, WorthOfOrders
<1>8. store_confirmed_revenue = SumOver(Worth, PaidNow)
  BY <1>7 DEF store_confirmed_revenue, PaidNow
<1>9. SumOver(Worth, PaidNow) = SumOver(Worth, old) + SumOver(Worth, recent)
  BY <1>3, SumOfParts
<1>10. SumOver(days, T) = SumOver(sums, T)
  <2> HIDE DEF days, sums, T
  <2> QED BY <1>2, <1>5, SumSame
<1>11. SumOver(Worth, recent) = SumOver(sums, T)
  <2>1. \A o \in recent : Worth[o] \in Int
    BY <1>3
  <2> HIDE DEF T, class, recent
  <2> QED BY <1>2, <1>3, <1>4, <2>1, SumByClass
<1> QED BY <1>2, <1>6, <1>7, <1>8, <1>9, <1>10, <1>11

LEMMA BreakdownAddsUp ==
    ASSUME ReportsInv
    PROVE  /\ MapThenSumSet(LAMBDA y : _order_status_breakdown[y], DOMAIN _order_status_breakdown)
                = Cardinality(store_dashboard_orders(""))
           /\ \A s \in SaleStatus :
                store_dashboard_orders(s) = {} \/ _order_status_breakdown[s] = Cardinality(store_dashboard_orders(s))
<1> DEFINE class == [o \in Placed |-> sales[o].status]
           T == {sales[o].status : o \in Placed}
           ones == [o \in Placed |-> 1]
           bars == [y \in T |-> _order_status_breakdown[y]]
           sums == [y \in T |-> SumOver(ones, {o \in Placed : class[o] = y})]
<1>1. IsFiniteSet(Placed)
  BY PlacedIsFinite
<1>2. IsFiniteSet(T) /\ \A o \in Placed : class[o] \in T
  <2>1. T = {class[o] : o \in Placed}
    OBVIOUS
  <2>2. IsFiniteSet({class[o] : o \in Placed})
    BY <1>1, ImageIsFinite
  <2> QED BY <2>1, <2>2
<1>3. DOMAIN _order_status_breakdown = T
  BY DEF _order_status_breakdown
<1>4. ASSUME NEW y \in T PROVE bars[y] = sums[y]
  <2>1. {o \in Placed : sales[o].status = y} = {o \in Placed : class[o] = y}
    OBVIOUS
  <2>2. IsFiniteSet({o \in Placed : class[o] = y})
    BY <1>1, FS_Subset
  <2>3. _order_status_breakdown[y] = Cardinality({o \in Placed : sales[o].status = y})
    BY DEF _order_status_breakdown
  <2>4. SumOver(ones, {o \in Placed : class[o] = y}) = Cardinality({o \in Placed : class[o] = y})
    BY <2>2, SumOfOnes
  <2> QED BY <2>1, <2>3, <2>4
<1>5. MapThenSumSet(LAMBDA y : _order_status_breakdown[y], T) = SumOver(bars, T)
  BY <1>2, ColumnIsSum
<1>6. SumOver(bars, T) = SumOver(sums, T)
  <2> HIDE DEF bars, sums, T
  <2> QED BY <1>2, <1>4, SumSame
<1>7. SumOver(ones, Placed) = SumOver(sums, T)
  <2>1. \A o \in Placed : ones[o] \in Int
    OBVIOUS
  <2> HIDE DEF T, class, ones
  <2> QED BY <1>1, <1>2, <2>1, SumByClass
<1>8. SumOver(ones, Placed) = Cardinality(Placed)
  BY <1>1, SumOfOnes
<1>9. store_dashboard_orders("") = Placed
  BY DEF store_dashboard_orders, SaleStatus, PaidStatuses
<1>10. ASSUME NEW s \in SaleStatus
       PROVE  store_dashboard_orders(s) = {} \/ _order_status_breakdown[s] = Cardinality(store_dashboard_orders(s))
  <2>1. store_dashboard_orders(s) = {o \in Placed : sales[o].status = s}
    BY DEF store_dashboard_orders
  <2> QED BY <2>1 DEF _order_status_breakdown
<1> QED BY <1>3, <1>5, <1>6, <1>7, <1>8, <1>9, <1>10

LEMMA ReportsInvDashboard == ReportsInv => DashboardAgreesWithReport
<1> HAVE ReportsInv
<1>1. {o \in _paid_orders_queryset(Unset, Unset) \ {o \in _paid_orders_queryset(Unset, Unset) : sales[o].status \notin PaidStatuses} :
            sales[o].day <= today - TrendDays}
        = {o \in PaidNow : sales[o].day <= today - TrendDays}
  BY LeftBehind
<1> QED BY <1>1, RevenueAgrees, ChartAddsUp, BreakdownAddsUp DEF DashboardAgreesWithReport
=============================================================================
