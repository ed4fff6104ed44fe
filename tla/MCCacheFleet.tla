--------------------------- MODULE MCCacheFleet ---------------------------
(***************************************************************************)
(* CatalogueCache and CacheFleet with two processes, one request at each.  *)
(***************************************************************************)
EXTENDS CacheFleet

CONSTANTS p1, p2, r1, r2

MCProcess == {p1, p2}
MCRequest == {r1, r2}
MCHomeOf == [r \in MCRequest |-> IF r = r1 THEN p1 ELSE p2]

=============================================================================
