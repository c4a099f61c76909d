-------------------------- MODULE MCOrderLifecycle --------------------------
(***************************************************************************)
(* Small instances of OrderLifecycle: two orders of one unit each and one  *)
(* unit on the shelf, which can go missing and be restocked.               *)
(***************************************************************************)
EXTENDS OrderLifecycle, FiniteSetsExt, TLC

OneUnitEach == [o \in Orders |-> [s \in Skus |-> 1]]
OneOnShelf == [s \in Skus |-> 1]
TwoOnShelf == [s \in Skus |-> 2]
OneLost == {-1}
Sym == Permutations(Orders)

\* What reserve_stock promises a checkout (inventory/services.py, its docstring): its units stay
\* held for as long as the order waits for its payment.
CheckoutsHoldTheirStock ==
    \A s \in Skus :
        MapThenSumSet(LAMBDA o : Lines[o][s], {o \in Orders : status[o] = "AWAITING_PAYMENT"}) <= reserved[s]
=============================================================================
