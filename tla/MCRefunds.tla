------------------------------ MODULE MCRefunds ------------------------------
(***************************************************************************)
(* Two standalone refunds of a payment of two, on two workers, one call of *)
(* which may be lost.                                                      *)
(***************************************************************************)
EXTENDS Refunds, TLC
=============================================================================
