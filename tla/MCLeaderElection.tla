-------------------------- MODULE MCLeaderElection --------------------------
(* Instances of LeaderElection for TLC.                                     *)
EXTENDS LeaderElection, TLC

CONSTANTS order, payment

\* Two replicas of order-service and one process of payment-service; the payment
\* process has the smallest node_id.
TwoOrdersOnePayment == 1 :> payment @@ 2 :> order @@ 3 :> order
Priorities == order :> 100 @@ payment :> 80
=============================================================================
