----------------------------- MODULE MCCatalog ------------------------------
(***************************************************************************)
(* TLC instance of Catalog: writers are alike.                             *)
(***************************************************************************)
EXTENDS Catalog, TLC

Symmetry == Permutations(Writers)
=============================================================================
