---------------------------- MODULE MCStoreOffers ----------------------------
(***************************************************************************)
(* StoreOffers with two persists that may overlap, again and again.        *)
(***************************************************************************)
EXTENDS StoreOffers, TLC

Symmetric == Permutations(Sku) \cup Permutations(Bottling)
               \cup Permutations(Persist)

=============================================================================
