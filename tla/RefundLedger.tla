---------------------------- MODULE RefundLedger ----------------------------
(***************************************************************************)
(* What the refunds of one payment promise, whoever applies their results  *)
(* and however often the results are reported: every refund gets one       *)
(* result for good, and refunded_amount never counts a refund twice nor    *)
(* one that did not go through.  What is NOT promised, because the code    *)
(* saves whole rows from unlocked copies, is that an amount once counted   *)
(* stays counted: MoveCounts is the lost update, and only a result that is *)
(* just being applied is sure to be in the amount.                         *)
(***************************************************************************)
CONSTANT Refunds

VARIABLES
    result,     \* of each refund: "open", "processed" or "failed"
    counted     \* how often refunded_amount contains the amount of each refund

Sound(c, res) ==
    /\ c \in [Refunds -> {0, 1}]
    /\ \A r \in Refunds : c[r] = 1 => res[r] = "processed"

Init ==
    /\ result = [r \in Refunds |-> "open"]
    /\ counted = [r \in Refunds |-> 0]

Process(r) ==
    /\ result[r] = "open"
    /\ result' = [result EXCEPT ![r] = "processed"]
    /\ \E c \in [Refunds -> {0, 1}] : counted' = c /\ c[r] = 1 /\ Sound(c, result')

Fail(r) ==
    /\ result[r] = "open"
    /\ result' = [result EXCEPT ![r] = "failed"]
    /\ UNCHANGED counted

MoveCounts ==
    /\ \E c \in [Refunds -> {0, 1}] : counted' = c /\ Sound(c, result)
    /\ UNCHANGED result

Next ==
    \/ \E r \in Refunds : Process(r) \/ Fail(r)
    \/ MoveCounts

Spec == Init /\ [][Next]_<<result, counted>>
=============================================================================
