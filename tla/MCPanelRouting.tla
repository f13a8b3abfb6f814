--------------------------- MODULE MCPanelRouting ---------------------------
(* Instances of PanelRouting for TLC.                                       *)
EXTENDS PanelRouting, TLC

CONSTANTS order, payment, o1, p1, p2, r1, r2

\* A pod of order-service and two replicas of payment-service.
OneOrderTwoPayments == o1 :> order @@ p1 :> payment @@ p2 :> payment
Priorities == order :> 100 @@ payment :> 80
Symmetry == Permutations(Requests) \cup Permutations({p1, p2})
=============================================================================
