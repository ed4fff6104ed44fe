------------------------------ MODULE StoreSync ------------------------------
(***************************************************************************)
(* The life of a store sync run.  Opening a `sync_log` row takes the       *)
(* store's (or its group's) lock, closing the row gives it back.  Several  *)
(* API processes share the table; each announces itself with a heartbeat   *)
(* key in Valkey, and each, when it boots, sweeps the rows nobody is       *)
(* driving any more.                                                       *)
(*                                                                         *)
(* A run is two activities: the orchestrator's wait (`wait`), which ends   *)
(* with the collection or with its timeout, whichever is first, and the    *)
(* collection itself (`coll`), which a timeout does not stop.              *)
(*                                                                         *)
(* Time passes in ticks (Tick).  A tick is long against a database         *)
(* statement, a due timer and the heartbeat's period, and short against    *)
(* the timeouts.                                                           *)
(***************************************************************************)
EXTENDS Naturals, FiniteSets

CONSTANTS
  Instance,        \* process identities
  Store,           \* store ids
  Run,             \* ids of the rows `sync_log` may ever hold
  Domain,          \* exclusivity domains
  DomainOf,        \* [Store -> Domain]: the group, or the store itself
  BrowserStore,    \* the stores that drive a headless browser
  StoreTimeout,    \* ticks a plain store's collection may take
  BrowserTimeout,  \* ticks a browser-tier store's collection may take
  Margin,          \* SYNC_ORPHAN_AGE_MARGIN_MS, in ticks
  Faults,          \* which of FaultKinds may happen
  Nobody           \* the owner or store of a row that does not exist

FaultKinds == {
  "valkey",  \* a liveness question or the removal of a key may fail
  "lapse",   \* a serving process may be without its key: its beats failed
  "db"       \* the statement that closes a row may fail
}

ASSUME StoreSyncAssumptions ==
  /\ DomainOf \in [Store -> Domain]
  /\ BrowserStore \subseteq Store
  /\ StoreTimeout \in Nat \ {0}
  /\ BrowserTimeout \in Nat \ {0}
  /\ Margin \in Nat \ {0}
  /\ Faults \subseteq FaultKinds
  /\ Nobody \notin Instance \cup Store \cup Run

VARIABLES
  inst,     \* where each process is in its life, see Phase
  key,      \* the processes whose liveness key Valkey holds
  seen,     \* the owners of open rows a booting process has read
  alive,    \* the ones a booting process takes to be up
  status,   \* each row's `success`: null while "open", then "ok" or "failed"
  store,    \* each row's `storeId`
  owner,    \* each row's `ownerId`
  age,      \* ticks since an open row's `updatedAt`
  wait,     \* where the orchestrator is with each run, see WaitPhase
  elapsed,  \* ticks since the run's collection began
  coll,     \* where each run's collection is
  swept     \* history: the rows a boot sweep closed

vars == <<inst, key, seen, alive, status, store, owner, age, wait, elapsed,
          coll, swept>>

instVars == <<inst, key, seen, alive>>
rowVars  == <<status, store, owner, age>>
runVars  == <<wait, elapsed, coll>>

Phase == {
  "down",      \* not running
  "init",      \* onModuleInit: about to read the owners of open rows
  "asking",    \* owners read, about to ask Valkey which are up
  "answered",  \* Valkey answered
  "blind",     \* Valkey did not
  "swept",     \* rows swept, about to write the first heartbeat
  "up",        \* serving; timers and requests may start runs
  "stopping"   \* key dropped by onModuleDestroy, still finishing
}

WaitPhase == {
  "none", "waiting",
  "ok", "failed",   \* decided, about to close the row with that outcome
  "done",           \* row closed
  "lost"            \* the statement that closes the row failed
}

\* Between its bootstrap and its exit a process can start runs.
Running == {"up", "stopping"}

Live(r)   == wait[r] \in {"waiting", "ok", "failed"}
Open(r)   == status[r] = "open"
Closed(r) == status[r] \in {"ok", "failed"}
Collecting(r) == coll[r] \in {"walking", "persisting"}

\* The larger of two numbers.
Larger(a, b) == IF a >= b THEN a ELSE b

\* collect(): the browser tier has a budget of its own.
TimeoutOf(s) == IF s \in BrowserStore THEN BrowserTimeout ELSE StoreTimeout

\* Mutant: only the plain stores' timeout.
OrphanAgeOfPlainStores == StoreTimeout

\* orphanAgeMs()
OrphanAge == Larger(StoreTimeout, BrowserTimeout) + Margin

\* Ages beyond this one are all the same to the sweep.
AgeCap == OrphanAge + 1

\* Mutant: the index on the store alone.
LockFreePerStore(s) == \A r \in Run : Open(r) => store[r] # s

\* Mutant: a row past the age floor does not count.
LockFreeOfTheYoung(s) ==
  \A r \in Run : Open(r) /\ age[r] <= OrphanAge
                   => DomainOf[store[r]] # DomainOf[s]

\* sync_log_running_uindex: no open row of the store's domain.
LockFree(s) == \A r \in Run : Open(r) => DomainOf[store[r]] # DomainOf[s]

-----------------------------------------------------------------------------
\* No process, no row.
Init ==
  /\ inst = [i \in Instance |-> "down"]
  /\ key = {}
  /\ seen = [i \in Instance |-> {}]
  /\ alive = [i \in Instance |-> {}]
  /\ status = [r \in Run |-> "none"]
  /\ store = [r \in Run |-> Nobody]
  /\ owner = [r \in Run |-> Nobody]
  /\ age = [r \in Run |-> 0]
  /\ wait = [r \in Run |-> "none"]
  /\ elapsed = [r \in Run |-> 0]
  /\ coll = [r \in Run |-> "none"]
  /\ swept = {}

-----------------------------------------------------------------------------
(* Processes *)

\* identify(): a process never takes a name that anything still remembers.
\* Reusing a name nothing refers to stands for drawing a fresh one.
FreshName(i) ==
  /\ i \notin key
  /\ \A r \in Run : owner[r] = i => ~Open(r)
  /\ \A j \in Instance : i \notin seen[j] \cup alive[j]

Boot(i) ==
  /\ inst[i] = "down"
  /\ FreshName(i)
  /\ inst' = [inst EXCEPT ![i] = "init"]
  /\ UNCHANGED <<key, seen, alive, rowVars, runVars, swept>>

\* openOwners()
ReadOwners(i) ==
  /\ inst[i] = "init"
  /\ inst' = [inst EXCEPT ![i] = "asking"]
  /\ seen' = [seen EXCEPT ![i] = {owner[r] : r \in {q \in Run : Open(q)}}]
  /\ UNCHANGED <<key, alive, rowVars, runVars, swept>>

\* aliveAmong(): an MGET of the owners' keys, not even sent when there are
\* none; the process adds itself.
AskLiveness(i) ==
  /\ inst[i] = "asking"
  /\ inst' = [inst EXCEPT ![i] = "answered"]
  /\ alive' = [alive EXCEPT ![i] = (seen[i] \cap key) \cup {i}]
  /\ UNCHANGED <<key, seen, rowVars, runVars, swept>>

\* Mutant: a failed MGET taken for one that found no key.
LivenessUnknownIsNobody(i) ==
  /\ "valkey" \in Faults
  /\ inst[i] = "asking"
  /\ seen[i] # {}
  /\ inst' = [inst EXCEPT ![i] = "answered"]
  /\ alive' = [alive EXCEPT ![i] = {i}]
  /\ UNCHANGED <<key, seen, rowVars, runVars, swept>>

\* aliveAmong() answering null: nothing may be swept for want of an owner.
LivenessUnknown(i) ==
  /\ "valkey" \in Faults
  /\ inst[i] = "asking"
  /\ seen[i] # {}
  /\ inst' = [inst EXCEPT ![i] = "blind"]
  /\ UNCHANGED <<key, seen, alive, rowVars, runVars, swept>>

\* Mutant: without `success IS NULL`.
OrphansOfAnyStatus(i) ==
  {r \in Run : /\ status[r] # "none"
               /\ \/ inst[i] = "answered" /\ owner[r] \notin alive[i]
                  \/ age[r] > OrphanAge}

\* The rows sweepOrphaned() closes on behalf of process i.
Orphans(i) ==
  {r \in Run : /\ Open(r)
               /\ \/ inst[i] = "answered" /\ owner[r] \notin alive[i]
                  \/ age[r] > OrphanAge}

Sweep(i) ==
  /\ inst[i] \in {"answered", "blind"}
  /\ inst' = [inst EXCEPT ![i] = "swept"]
  /\ seen' = [seen EXCEPT ![i] = {}]
  /\ alive' = [alive EXCEPT ![i] = {}]
  /\ status' = [r \in Run |-> IF r \in Orphans(i) THEN "failed" ELSE status[r]]
  /\ age' = [r \in Run |-> IF r \in Orphans(i) THEN 0 ELSE age[r]]
  /\ swept' = swept \cup Orphans(i)
  /\ UNCHANGED <<key, store, owner, runVars>>

\* onApplicationBootstrap(): the first beat, then the process serves.  A beat
\* that fails is only logged.
Bootstrap(i) ==
  /\ inst[i] = "swept"
  /\ inst' = [inst EXCEPT ![i] = "up"]
  /\ \/ key' = key \cup {i}
     \/ "lapse" \in Faults /\ UNCHANGED key
  /\ UNCHANGED <<seen, alive, rowVars, runVars, swept>>

\* A later beat, which matters only when the key is gone.
Beat(i) ==
  /\ inst[i] = "up"
  /\ i \notin key
  /\ key' = key \cup {i}
  /\ UNCHANGED <<inst, seen, alive, rowVars, runVars, swept>>

\* The key outlives its last refresh by its time to live.  Three beats fit in
\* it, so a live process's key expires only when they all fail.
KeyExpires(i) ==
  /\ i \in key
  /\ inst[i] = "up" => "lapse" \in Faults
  /\ key' = key \ {i}
  /\ UNCHANGED <<inst, seen, alive, rowVars, runVars, swept>>

\* Everything process i was doing ends with it; rows and keys stay.
Halt(i) ==
  /\ inst' = [inst EXCEPT ![i] = "down"]
  /\ seen' = [seen EXCEPT ![i] = {}]
  /\ alive' = [alive EXCEPT ![i] = {}]
  /\ wait' = [r \in Run |-> IF owner[r] = i /\ Live(r) THEN "lost" ELSE wait[r]]
  /\ coll' = [r \in Run |->
                IF owner[r] = i /\ Collecting(r) THEN "ended" ELSE coll[r]]
  /\ elapsed' = [r \in Run |-> IF owner[r] = i THEN 0 ELSE elapsed[r]]
  /\ UNCHANGED <<key, rowVars, swept>>

Crash(i) ==
  /\ inst[i] # "down"
  /\ Halt(i)

\* onModuleDestroy() drops the key; the server still answers requests, and
\* runs go on, until the later shutdown phases end the process.
Stop(i) ==
  /\ inst[i] = "up"
  /\ inst' = [inst EXCEPT ![i] = "stopping"]
  /\ \/ key' = key \ {i}
     \/ "valkey" \in Faults /\ UNCHANGED key
  /\ UNCHANGED <<seen, alive, rowVars, runVars, swept>>

-----------------------------------------------------------------------------
(* Runs *)

\* startStoreSync() / runScheduledStore(): tryStart() inserts the row, unless
\* the index refuses it, and the collection begins.
Start(i, s, r) ==
  /\ inst[i] \in Running
  /\ status[r] = "none"
  /\ LockFree(s)
  /\ status' = [status EXCEPT ![r] = "open"]
  /\ store' = [store EXCEPT ![r] = s]
  /\ owner' = [owner EXCEPT ![r] = i]
  /\ age' = [age EXCEPT ![r] = 0]
  /\ wait' = [wait EXCEPT ![r] = "waiting"]
  /\ elapsed' = [elapsed EXCEPT ![r] = 0]
  /\ coll' = [coll EXCEPT ![r] = "walking"]
  /\ UNCHANGED <<instVars, swept>>

\* The progress reporter's touch(): unguarded, whatever became of the row.
Touch(r) ==
  /\ coll[r] = "walking"
  /\ age[r] # 0
  /\ age' = [age EXCEPT ![r] = 0]
  /\ UNCHANGED <<instVars, status, store, owner, runVars, swept>>

BeginPersist(r) ==
  /\ coll[r] = "walking"
  /\ coll' = [coll EXCEPT ![r] = "persisting"]
  /\ UNCHANGED <<instVars, rowVars, wait, elapsed, swept>>

\* Mutant: the collection's state takes the outcome.
CollectionEndsInOutcome(r, outcome) ==
  /\ Collecting(r)
  /\ outcome = "ok" => coll[r] = "persisting"
  /\ coll' = [coll EXCEPT ![r] = outcome]
  /\ wait' = [wait EXCEPT ![r] = IF @ = "waiting" THEN outcome ELSE @]
  /\ elapsed' = [elapsed EXCEPT ![r] = 0]
  /\ UNCHANGED <<instVars, rowVars, swept>>

\* The collection settles.  Only a wait the timeout has not ended hears of it;
\* an outcome is "ok" when everything persisted and the listing was complete.
CollectionEnds(r, outcome) ==
  /\ Collecting(r)
  /\ outcome = "ok" => coll[r] = "persisting"
  /\ coll' = [coll EXCEPT ![r] = "ended"]
  /\ wait' = [wait EXCEPT ![r] = IF @ = "waiting" THEN outcome ELSE @]
  /\ elapsed' = [elapsed EXCEPT ![r] = 0]
  /\ UNCHANGED <<instVars, rowVars, swept>>

\* Mutant: the timer is cleared once the catalogue is walked.
TimerFiresWhileWalking(r) ==
  /\ wait[r] = "waiting"
  /\ coll[r] = "walking"
  /\ elapsed[r] >= TimeoutOf(store[r])
  /\ wait' = [wait EXCEPT ![r] = "failed"]
  /\ elapsed' = [elapsed EXCEPT ![r] = 0]
  /\ UNCHANGED <<instVars, rowVars, coll, swept>>

\* Promise.race() lost to the timeout: the collection is abandoned, not ended.
TimerFires(r) ==
  /\ wait[r] = "waiting"
  /\ elapsed[r] >= TimeoutOf(store[r])
  /\ wait' = [wait EXCEPT ![r] = "failed"]
  /\ elapsed' = [elapsed EXCEPT ![r] = 0]
  /\ UNCHANGED <<instVars, rowVars, coll, swept>>

\* finish(): UPDATE by id alone, so it also rewrites a row a sweep closed.
Finish(r) ==
  /\ wait[r] \in {"ok", "failed"}
  /\ status' = [status EXCEPT ![r] = wait[r]]
  /\ age' = [age EXCEPT ![r] = 0]
  /\ wait' = [wait EXCEPT ![r] = "done"]
  /\ UNCHANGED <<instVars, store, owner, elapsed, coll, swept>>

FinishFails(r) ==
  /\ "db" \in Faults
  /\ wait[r] \in {"ok", "failed"}
  /\ wait' = [wait EXCEPT ![r] = "lost"]
  /\ UNCHANGED <<instVars, rowVars, elapsed, coll, swept>>

\* Time passes once every due timer has fired and every decided run has
\* spoken to the database.
Tick ==
  /\ \A r \in Run :
       /\ wait[r] \notin {"ok", "failed"}
       /\ wait[r] = "waiting" => elapsed[r] < TimeoutOf(store[r])
  /\ \E r \in Run : \/ wait[r] = "waiting"
                    \/ Open(r) /\ age[r] < AgeCap
  /\ age' = [r \in Run |-> IF Open(r) /\ age[r] < AgeCap THEN age[r] + 1
                                                         ELSE age[r]]
  /\ elapsed' = [r \in Run |-> IF wait[r] = "waiting" THEN elapsed[r] + 1
                                                      ELSE elapsed[r]]
  /\ UNCHANGED <<instVars, status, store, owner, wait, coll, swept>>

-----------------------------------------------------------------------------
ProcessStep(i) ==
  \/ Boot(i) \/ ReadOwners(i) \/ AskLiveness(i) \/ LivenessUnknown(i)
  \/ Sweep(i) \/ Bootstrap(i) \/ Beat(i) \/ KeyExpires(i)
  \/ Crash(i) \/ Stop(i)

RunStep(r) ==
  \/ \E i \in Instance, s \in Store : Start(i, s, r)
  \/ Touch(r) \/ BeginPersist(r)
  \/ \E outcome \in {"ok", "failed"} : CollectionEnds(r, outcome)
  \/ TimerFires(r) \/ Finish(r) \/ FinishFails(r)

Next ==
  \/ \E i \in Instance : ProcessStep(i)
  \/ \E r \in Run : RunStep(r)
  \/ Tick

\* Node fires due timers and Postgres answers; nothing else is promised: not
\* that a collection ever ends, nor that a process ever boots or stays up.
Fairness ==
  /\ WF_vars(Tick)
  /\ \A r \in Run : WF_vars(TimerFires(r))
  /\ \A r \in Run : WF_vars(Finish(r) \/ FinishFails(r))

Spec == Init /\ [][Next]_vars /\ Fairness

-----------------------------------------------------------------------------
(* Properties *)

\* Type correctness.
TypeOK ==
  /\ inst \in [Instance -> Phase]
  /\ key \subseteq Instance
  /\ seen \in [Instance -> SUBSET Instance]
  /\ alive \in [Instance -> SUBSET Instance]
  /\ status \in [Run -> {"none", "open", "ok", "failed"}]
  /\ store \in [Run -> Store \cup {Nobody}]
  /\ owner \in [Run -> Instance \cup {Nobody}]
  /\ age \in [Run -> 0..AgeCap]
  /\ wait \in [Run -> WaitPhase]
  /\ elapsed \in [Run -> Nat]
  /\ coll \in [Run -> {"none", "walking", "persisting", "ended"}]
  /\ swept \subseteq Run

\* Two runs of one domain are driven at the same time only if a boot sweep
\* took the lock from one of them: neither a timeout, a late touch, an
\* abandoned collection nor an unguarded finish() can bring that about.
LiveRunsExcludeEachOther ==
  \A q, r \in Run :
    /\ q # r
    /\ Live(q) /\ Live(r)
    /\ DomainOf[store[q]] = DomainOf[store[r]]
    => q \in swept \/ r \in swept

\* "a row untouched past that plus a margin cannot be live whoever asks": the
\* age floor of the sweep never reaches a run some process still drives.
OverAgeRowsAreNotLive ==
  \A r \in Run : Open(r) /\ age[r] > OrphanAge => ~Live(r)

\* A run that is still driven by a serving process is closed by a sweep only
\* if the sweeping process read the owners of open rows before the row was
\* there: what it did see, it spares, also when Valkey does not answer.
SweepSparesTheSeen ==
  [][\A i \in Instance, r \in Run :
       /\ inst[i] # "swept" /\ inst'[i] = "swept"
       /\ Live(r) /\ inst[owner[r]] = "up"
       /\ owner[r] \in seen[i]
       => status'[r] = status[r]]_vars

\* A closed row never opens again, and only a row a sweep closed behind its
\* run's back ever has its recorded outcome rewritten.
ClosedForGood ==
  [][\A r \in Run :
       Closed(r) => /\ status'[r] \in {"ok", "failed"}
                    /\ r \notin swept => status'[r] = status[r]]_vars

\* The wait for a run ends, even if its collection never does (collect() races
\* it against a timer).  Its lock may stay until a later boot, see FinishFails.
RunsEnd == \A r \in Run : Live(r) ~> ~Live(r)

\* The table implements the abstract lock: the holder is the open row.
HolderOf(d) ==
  IF \E r \in Run : Open(r) /\ DomainOf[store[r]] = d
  THEN CHOOSE r \in Run : Open(r) /\ DomainOf[store[r]] = d
  ELSE Nobody

Lock == INSTANCE RunLock WITH
          holder <- [d \in Domain |-> HolderOf(d)],
          spent <- {r \in Run : status[r] # "none"}

ImplementsRunLock == Lock!LockSpec

-----------------------------------------------------------------------------
(* What the code's comments say and the code does not do *)

\* sync-log.repository.ts: the owner test "is what keeps a restart from
\* closing a sibling's live run".
SweepSparesLiveRuns ==
  [][\A i \in Instance, r \in Run :
       /\ inst[i] # "swept" /\ inst'[i] = "swept"
       /\ Live(r) /\ inst[owner[r]] = "up"
       => status'[r] = status[r]]_vars

\* sync-orchestrator.service.ts: onModuleInit "Closes the sync runs nobody is
\* driving any more and frees their locks".
BootSweepFreesOrphans ==
  [][\A i \in Instance, r \in Run :
       /\ inst[i] # "swept" /\ inst'[i] = "swept"
       /\ Open(r) /\ inst[owner[r]] = "down"
       /\ owner[r] \in seen[i]
       => status'[r] # "open"]_vars

=============================================================================
