---------------------------- MODULE MCResilience ----------------------------
(* Instances of Resilience for TLC.                                         *)
EXTENDS Resilience, TLC

CONSTANTS e1, e2, c1, c2

Symmetry == Permutations(Editors) \union Permutations(Callers)
=============================================================================
