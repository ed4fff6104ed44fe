----------------------------- MODULE MCBottlings -----------------------------
(* Three bottlings: the second has no key, and the third is an old twin of it. *)
(* The first has an offer.  Two collections of one store overlap, each with a  *)
(* listing that is new to it; two edits.                                       *)
EXTENDS Bottlings, TLC

CONSTANTS k1, k2, k3, n1, n2, n3, x1, x2, p1, p2, e1, e2, u1

MCKeyOf      == x1 :> k1 @@ x2 :> k3
MCNameOf     == x1 :> n1 @@ x2 :> n3
MCBatch      == [p \in Persist |-> Sku]
MCStartKey   == [b \in Id |-> CASE b = 1 -> k1 [] b = 3 -> k2 [] OTHER -> NoKey]
MCStartName  == [b \in Id |-> IF b \in {2, 3} THEN n2 ELSE n1]
MCStartOffer == [x \in Sku |-> IF x = x1 THEN 1 ELSE 0]
MCPicks      == {<<u1, 2>>}

Symmetry == Permutations(Editor) \cup Permutations(Persist)
=============================================================================
