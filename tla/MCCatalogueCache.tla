--------------------------- MODULE MCCatalogueCache ---------------------------
(***************************************************************************)
(* CatalogueCache with two processes, one request at each, and a set whose *)
(* entries fit one HSET.                                                   *)
(***************************************************************************)
EXTENDS CatalogueCache, TLC

CONSTANTS p1, p2, r1, r2

MCProcess == {p1, p2}
MCRequest == {r1, r2}
MCHomeOf == (r1 :> p1) @@ (r2 :> p2)

\* The two processes are alike as long as their requests swap with them.
Symmetric == {(p1 :> p2) @@ (p2 :> p1) @@ (r1 :> r2) @@ (r2 :> r1)}

=============================================================================
