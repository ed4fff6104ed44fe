---------------------------- MODULE PersistLocks ----------------------------
(***************************************************************************)
(* The canonical rows a persist locks.  Stores of different tracks persist *)
(* at the same time against the same bottlings; an UPDATE or INSERT of a   *)
(* bottling holds its row until the whole transaction commits.             *)
(*                                                                         *)
(* A bottling is named by its match key.  Every statement that writes      *)
(* several bottlings is taken to lock them in ascending order, the order   *)
(* its caller sorts them in, and every offer to be linked to the bottling  *)
(* of its key: the best case for the order the code relies on.             *)
(***************************************************************************)
EXTENDS Naturals, Sequences, FiniteSetsExt

CONSTANTS
  Key,     \* match keys, numbers in the order localeCompare() puts them
  Persist  \* persists of different stores

VARIABLES
  catalogue,  \* the keys of committed bottlings
  stage,      \* the pass each persist is in, 0 before it begins
  listing,    \* the keys of the bottlings its listing names
  todo,       \* the rows the pass has still to write
  held        \* the rows it has written

vars == <<catalogue, stage, listing, todo, held>>

Stages == <<
  "create",     \* findOrCreateByMatchKeys(): the keys nobody holds
  "llm",        \* writeLlmFlavors() in the write loop: where the model answered
  "fill",       \* fillMissing(): where the store's fact wins
  "producers",  \* setProducers()
  "facts"       \* applyKbFacts()
>>

Init ==
  /\ catalogue \in SUBSET Key
  /\ stage = [t \in Persist |-> 0]
  /\ listing = [t \in Persist |-> {}]
  /\ todo = [t \in Persist |-> {}]
  /\ held = [t \in Persist |-> {}]

\* resolveCanonical(): what no committed bottling answers for is created.
Begin(t, keys) ==
  /\ stage[t] = 0
  /\ stage' = [stage EXCEPT ![t] = 1]
  /\ listing' = [listing EXCEPT ![t] = keys]
  /\ todo' = [todo EXCEPT ![t] = keys \ catalogue]
  /\ UNCHANGED <<catalogue, held>>

\* The next row a persist needs, and whom it waits for.
NextRow(t) == Min(todo[t])

WaitsFor(t, u) == todo[t] # {} /\ NextRow(t) \in held[u]

Write(t) ==
  /\ todo[t] # {}
  /\ \A u \in Persist \ {t} : ~WaitsFor(t, u)
  /\ held' = [held EXCEPT ![t] = @ \cup {NextRow(t)}]
  /\ todo' = [todo EXCEPT ![t] = @ \ {NextRow(t)}]
  /\ UNCHANGED <<catalogue, stage, listing>>

\* Each later pass rewrites those of the run's bottlings it has news for.
NextPass(t, rows) ==
  /\ stage[t] \in 1..(Len(Stages) - 1)
  /\ todo[t] = {}
  /\ rows \subseteq listing[t]
  /\ stage' = [stage EXCEPT ![t] = @ + 1]
  /\ todo' = [todo EXCEPT ![t] = rows]
  /\ UNCHANGED <<catalogue, listing, held>>

Commit(t) ==
  /\ stage[t] = Len(Stages)
  /\ todo[t] = {}
  /\ catalogue' = catalogue \cup held[t]
  /\ stage' = [stage EXCEPT ![t] = 0]
  /\ listing' = [listing EXCEPT ![t] = {}]
  /\ held' = [held EXCEPT ![t] = {}]
  /\ UNCHANGED todo

Next ==
  \E t \in Persist :
    \/ \E keys \in SUBSET Key : Begin(t, keys)
    \/ \E rows \in SUBSET Key : NextPass(t, rows)
    \/ Write(t)
    \/ Commit(t)

Spec == Init /\ [][Next]_vars

-----------------------------------------------------------------------------
(* What the comments say and the code does not do *)

\* ScrapePersistService: "every canonical row is acquired in ascending
\* match-key order", so that two persists never deadlock.
NoTwoWaitForEachOther ==
  \A t, u \in Persist : t # u => ~(WaitsFor(t, u) /\ WaitsFor(u, t))

=============================================================================
