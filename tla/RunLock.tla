------------------------------- MODULE RunLock -------------------------------
(***************************************************************************)
(* What the `sync_log` lock promises, apart from how it is kept: for every *)
(* exclusivity domain (a store's group, or the store itself) at most one   *)
(* run holds the lock, a run takes it only while nobody holds it, and a    *)
(* run takes it at most once in its life.  Releases may come in bulk,      *)
(* because the boot sweep closes every orphaned row in one statement.      *)
(***************************************************************************)

CONSTANTS
  Run,      \* every run that may ever be started
  Domain,   \* exclusivity domains
  Nobody    \* the holder of a lock that is free

VARIABLES
  holder,   \* [Domain -> Run \cup {Nobody}]
  spent     \* the runs that have already held their lock

lockVars == <<holder, spent>>

LockInit ==
  /\ holder = [d \in Domain |-> Nobody]
  /\ spent = {}

Acquire(d, r) ==
  /\ holder[d] = Nobody
  /\ r \notin spent
  /\ holder' = [holder EXCEPT ![d] = r]
  /\ spent' = spent \cup {r}

Release(D) ==
  /\ D # {}
  /\ \A d \in D : holder[d] # Nobody
  /\ holder' = [d \in Domain |-> IF d \in D THEN Nobody ELSE holder[d]]
  /\ UNCHANGED spent

LockNext ==
  \/ \E d \in Domain, r \in Run : Acquire(d, r)
  \/ \E D \in SUBSET Domain : Release(D)

LockSpec == LockInit /\ [][LockNext]_lockVars

=============================================================================
