------------------------------ MODULE MCReturns ------------------------------
(***************************************************************************)
(* One order of one unit, two return requests handled by two clerks, one   *)
(* refund at a time; a buyer may also ask for more than the order has.     *)
(***************************************************************************)
EXTENDS Returns, TLC

CONSTANTS lamp

One == lamp :> 1
OneOrTwo == {lamp :> 1, lamp :> 2}

\* requests and clerks are interchangeable, and the run checks no liveness
Interchangeable == Permutations(Requests) \union Permutations(Clerks)
=============================================================================
