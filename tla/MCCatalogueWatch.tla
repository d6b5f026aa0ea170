-------------------------- MODULE MCCatalogueWatch --------------------------
(***************************************************************************)
(* Small instances of CatalogueWatch for TLC.                              *)
(***************************************************************************)
EXTENDS CatalogueWatch, TLC

AnyHandle == Permutations(Handles)

NoSearch  == {Everything}
BuyableOrAny == {Everything, [names |-> Handles, in_stock |-> TRUE]}
Named     == {[names |-> Handles, in_stock |-> FALSE]}
=============================================================================
