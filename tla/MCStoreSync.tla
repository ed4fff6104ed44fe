----------------------------- MODULE MCStoreSync -----------------------------
(***************************************************************************)
(* StoreSync on small instances.                                           *)
(***************************************************************************)
EXTENDS StoreSync, TLC

CONSTANTS plain, browser, lone, group, alone

MCDomain == {group, alone}
MCBrowserStore == {browser}

\* The group alone: both stores compete for one lock.
MCGroupStore == {plain, browser}
MCGroupDomain == {group}
MCGroupDomainOf == [s \in MCGroupStore |-> group]

\* One store of each tier, each its own domain: one sweep may free two locks.
MCPairStore == {browser, lone}
MCPairDomainOf == [s \in MCPairStore |-> IF s = lone THEN alone ELSE group]

\* Processes and rows are interchangeable to every safety property.
Symmetric == Permutations(Instance) \cup Permutations(Run)

=============================================================================
