------------------------------ MODULE CacheFleet ------------------------------
(***************************************************************************)
(* CatalogueCache, with a history of what the whole fleet knew when each   *)
(* request began: what versioned-cache.service.ts says of failed bumps is  *)
(* said of "the cache", not of one process.                                *)
(***************************************************************************)
EXTENDS CatalogueCache

VARIABLE heard  \* the newest version any process had tried to bump for

FleetInit == Init /\ heard = [r \in Request |-> 0]

\* The newest version any process has tried to bump for.
LastTold ==
  CHOOSE v \in 0..MaxWrite :
    /\ \A p \in Process : told[p] <= v
    /\ v = 0 \/ \E p \in Process : told[p] = v

FleetNext ==
  /\ Next
  /\ heard' = [r \in Request |->
                 IF At(r, "idle") /\ ~At(r, "idle")' THEN LastTold ELSE heard[r]]

FleetSpec == FleetInit /\ [][FleetNext]_<<vars, heard>>

\* versioned-cache.service.ts: "until a bump succeeds the cache is bypassed
\* altogether": no answer is older than a write whose bump was attempted,
\* successfully or not, before the request began.
BypassedWhileDirty == \A r \in Request : \A v \in page[r] : v >= heard[r]

=============================================================================
