------------------------------ MODULE MCCatalog ------------------------------
(* Catalog for TLC: a directory with a group in it, where the outer one may  *)
(* be a group too, and a third beside them.                                  *)
EXTENDS Catalog
CONSTANTS a, ab, c
WithinValue == (a :> {}) @@ (ab :> {a}) @@ (c :> {})
=============================================================================
