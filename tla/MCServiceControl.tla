-------------------------- MODULE MCServiceControl --------------------------
(* Instances of ServiceControl for TLC.                                     *)
EXTENDS ServiceControl, TLC

CONSTANTS order, payment, x1, x2, x3

Containers == <<order, payment>>
=============================================================================
