---------------------------- MODULE MCPaymentFlow ----------------------------
(***************************************************************************)
(* Small instances of PaymentFlow: one order for the last unit.            *)
(***************************************************************************)
EXTENDS PaymentFlow, TLC

OneUnit == [o \in Orders |-> [s \in Skus |-> 1]]
OneOnShelf == [s \in Skus |-> 1]
Sym == Permutations(Workers)
=============================================================================
