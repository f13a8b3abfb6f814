------------------------------ MODULE MCCatalog ------------------------------
(* Instances of Catalog for TLC.                                            *)
EXTENDS Catalog, TLC

CONSTANTS s1, s2, f1, f2

Targets == "users" :> 2 @@ "products" :> 1
Symmetry == Permutations(Sessions) \cup Permutations(Fields)
=============================================================================
