----------------------------- MODULE MCOrderSaga -----------------------------
(* Instances of OrderSaga for TLC.                                          *)
EXTENDS OrderSaga, TLC

CONSTANTS o1, o2

\* Two orders that together ask for more than there is.
QuantityOneTwo == o1 :> 1 @@ o2 :> 2
OneWrite == {[status |-> "cancelled", internal |-> "other"]}
=============================================================================
