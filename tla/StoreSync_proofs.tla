--------------------------- MODULE StoreSync_proofs ---------------------------
(***************************************************************************)
(* What StoreSync promises for any number of processes, stores and runs.   *)
(***************************************************************************)
EXTENDS StoreSync, TLAPS

\* OrphanAge is a number, and no run may take as long.
LEMMA OrphanAgeBounds ==
  /\ OrphanAge \in Nat
  /\ AgeCap \in Nat
  /\ \A s \in Store : TimeoutOf(s) \in Nat /\ TimeoutOf(s) < OrphanAge
BY StoreSyncAssumptions DEF OrphanAge, AgeCap, TimeoutOf, Larger

-----------------------------------------------------------------------------
(* Type correctness *)

\* A row that was never inserted has no run, and every run has its row.
RowsOfRuns ==
  \A r \in Run :
    /\ status[r] = "none" => wait[r] = "none" /\ coll[r] = "none"
    /\ status[r] # "none" => store[r] \in Store /\ owner[r] \in Instance

TypeInv == TypeOK /\ RowsOfRuns

LEMMA TypeInit == Init => TypeInv
BY OrphanAgeBounds DEF Init, TypeInv, TypeOK, RowsOfRuns, Phase, WaitPhase

LEMMA TypeNext == TypeInv /\ [Next]_vars => TypeInv'
<1> SUFFICES ASSUME TypeInv, [Next]_vars PROVE TypeInv'
  OBVIOUS
<1> USE OrphanAgeBounds
<1> USE DEF TypeInv, TypeOK, RowsOfRuns
<1>1. ASSUME NEW i \in Instance, ProcessStep(i) PROVE TypeInv'
  <2>1. CASE Boot(i)
    BY <2>1 DEF Boot, Phase, rowVars, runVars
  <2>2. CASE ReadOwners(i)
    BY <2>2 DEF ReadOwners, Phase, rowVars, runVars, Open
  <2>3. CASE AskLiveness(i)
    BY <2>3 DEF AskLiveness, Phase, rowVars, runVars
  <2>4. CASE LivenessUnknown(i)
    BY <2>4 DEF LivenessUnknown, Phase, rowVars, runVars
  <2>5. CASE Sweep(i)
    BY <2>5 DEF Sweep, Orphans, Open, Phase, runVars
  <2>6. CASE Bootstrap(i)
    BY <2>6 DEF Bootstrap, Phase, rowVars, runVars
  <2>7. CASE Beat(i)
    BY <2>7 DEF Beat, rowVars, runVars
  <2>8. CASE KeyExpires(i)
    BY <2>8 DEF KeyExpires, rowVars, runVars
  <2>9. CASE Crash(i)
    BY <2>9 DEF Crash, Halt, Live, Collecting, Phase, WaitPhase, rowVars
  <2>10. CASE Stop(i)
    BY <2>10 DEF Stop, Phase, rowVars, runVars
  <2> QED
    BY <1>1, <2>1, <2>2, <2>3, <2>4, <2>5, <2>6, <2>7, <2>8, <2>9, <2>10
    DEF ProcessStep
<1>2. ASSUME NEW r \in Run, RunStep(r) PROVE TypeInv'
  <2>1. ASSUME NEW i \in Instance, NEW s \in Store, Start(i, s, r)
        PROVE TypeInv'
    BY <2>1 DEF Start, WaitPhase, instVars
  <2>2. CASE Touch(r)
    BY <2>2 DEF Touch, instVars, runVars
  <2>3. CASE BeginPersist(r)
    BY <2>3 DEF BeginPersist, instVars, rowVars
  <2>4. ASSUME NEW o \in {"ok", "failed"}, CollectionEnds(r, o)
        PROVE TypeInv'
    BY <2>4 DEF CollectionEnds, Collecting, WaitPhase, instVars, rowVars
  <2>5. CASE TimerFires(r)
    BY <2>5 DEF TimerFires, WaitPhase, instVars, rowVars
  <2>6. CASE Finish(r)
    BY <2>6 DEF Finish, WaitPhase, instVars
  <2>7. CASE FinishFails(r)
    BY <2>7 DEF FinishFails, WaitPhase, instVars, rowVars
  <2> QED
    BY <1>2, <2>1, <2>2, <2>3, <2>4, <2>5, <2>6, <2>7 DEF RunStep
<1>3. CASE Tick
  BY <1>3 DEF Tick, AgeCap, instVars
<1>4. CASE UNCHANGED vars
  BY <1>4 DEF vars
<1> QED
  BY <1>1, <1>2, <1>3, <1>4 DEF Next

\* Every variable keeps its type, whatever the interleaving and the faults.
THEOREM TypeCorrect == Spec => []TypeOK
<1>1. TypeInv => TypeOK
  BY DEF TypeInv
<1> QED
  BY TypeInit, TypeNext, <1>1, PTL DEF Spec

-----------------------------------------------------------------------------
(* Exclusion *)

\* sync_log_running_uindex, as the rows show it.
OneOpenRowPerDomain ==
  \A q, r \in Run :
    q # r /\ Open(q) /\ Open(r) => DomainOf[store[q]] # DomainOf[store[r]]

\* Nothing but a sweep closes the row of a run that is still driven.
LiveRunsHoldTheirRow == \A r \in Run : Live(r) => Open(r) \/ r \in swept

LockInv == OneOpenRowPerDomain /\ LiveRunsHoldTheirRow

LEMMA LockInvInit == Init => LockInv
BY DEF Init, LockInv, OneOpenRowPerDomain, LiveRunsHoldTheirRow, Open, Live

LEMMA LockInvNext == TypeInv /\ LockInv /\ [Next]_vars => LockInv'
<1> SUFFICES ASSUME TypeInv, LockInv, [Next]_vars PROVE LockInv'
  OBVIOUS
<1> USE DEF LockInv, OneOpenRowPerDomain, LiveRunsHoldTheirRow, Open, Live
<1>1. ASSUME NEW i \in Instance, ProcessStep(i) PROVE LockInv'
  <2>1. CASE Sweep(i)
    <3>1. \A r \in Run : status'[r] = "open" => status[r] = "open"
      BY <2>1 DEF Sweep, TypeInv, TypeOK
    <3>2. \A r \in Run : status[r] = "open" /\ status'[r] # "open"
                           => r \in swept'
      BY <2>1 DEF Sweep, TypeInv, TypeOK
    <3>3. /\ UNCHANGED <<store, wait>>
          /\ swept \subseteq swept'
      BY <2>1 DEF Sweep, runVars
    <3> QED
      BY <3>1, <3>2, <3>3
  <2>2. CASE Crash(i)
    BY <2>2 DEF Crash, Halt, rowVars, TypeInv, TypeOK
  <2>3. ASSUME UNCHANGED <<rowVars, runVars, swept>> PROVE LockInv'
    BY <2>3 DEF rowVars, runVars
  <2> QED
    BY <1>1, <2>1, <2>2, <2>3
    DEF ProcessStep, Boot, ReadOwners, AskLiveness, LivenessUnknown, Bootstrap,
        Beat, KeyExpires, Stop
<1>2. ASSUME NEW r \in Run, RunStep(r) PROVE LockInv'
  <2>1. ASSUME NEW i \in Instance, NEW s \in Store, Start(i, s, r)
        PROVE LockInv'
    BY <2>1 DEF Start, LockFree, TypeInv, TypeOK
  <2>2. CASE Touch(r)
    BY <2>2 DEF Touch, runVars
  <2>3. CASE BeginPersist(r)
    BY <2>3 DEF BeginPersist, rowVars
  <2>4. ASSUME NEW o \in {"ok", "failed"}, CollectionEnds(r, o)
        PROVE LockInv'
    BY <2>4 DEF CollectionEnds, rowVars, TypeInv, TypeOK
  <2>5. CASE TimerFires(r)
    BY <2>5 DEF TimerFires, rowVars, TypeInv, TypeOK
  <2>6. CASE Finish(r)
    BY <2>6 DEF Finish, TypeInv, TypeOK
  <2>7. CASE FinishFails(r)
    BY <2>7 DEF FinishFails, rowVars, TypeInv, TypeOK
  <2> QED
    BY <1>2, <2>1, <2>2, <2>3, <2>4, <2>5, <2>6, <2>7 DEF RunStep
<1>3. CASE Tick
  BY <1>3 DEF Tick
<1>4. CASE UNCHANGED vars
  BY <1>4 DEF vars, rowVars, runVars
<1> QED
  BY <1>1, <1>2, <1>3, <1>4 DEF Next

LEMMA LockInvariant == Spec => [](TypeInv /\ LockInv)
BY TypeInit, TypeNext, LockInvInit, LockInvNext, PTL DEF Spec

\* Two runs of one group are driven at once only if a boot sweep closed the
\* row of one of them: sync_log's partial unique index is the only lock the
\* orchestrator has, and no order of timeouts, crashes and finish() loses it.
THEOREM Exclusion == Spec => []LiveRunsExcludeEachOther
<1>1. LockInv => LiveRunsExcludeEachOther
  BY DEF LockInv, OneOpenRowPerDomain, LiveRunsHoldTheirRow,
         LiveRunsExcludeEachOther
<1> QED
  BY LockInvariant, <1>1, PTL

\* The outcome recorded for a run stands: only the run itself, and only after
\* a sweep closed its row first, may rewrite it, and never to "running".
THEOREM OutcomesStand == Spec => ClosedForGood
<1> DEFINE Keeps(r) ==
      Closed(r) => /\ status'[r] \in {"ok", "failed"}
                   /\ r \notin swept => status'[r] = status[r]
<1>1. TypeInv /\ LockInv /\ [Next]_vars
        => [\A r \in Run : Keeps(r)]_vars
  <2> SUFFICES ASSUME TypeInv, LockInv, Next, NEW r \in Run PROVE Keeps(r)
    BY DEF vars
  <2> USE DEF Closed
  <2>1. CASE status' = status
    BY <2>1
  <2>2. ASSUME NEW i \in Instance, Sweep(i) PROVE Keeps(r)
    BY <2>2 DEF Sweep, Orphans, Open
  <2>3. ASSUME NEW i \in Instance, NEW s \in Store, NEW q \in Run,
               Start(i, s, q)
        PROVE Keeps(r)
    BY <2>3 DEF Start, TypeInv, TypeOK
  <2>4. ASSUME NEW q \in Run, Finish(q) PROVE Keeps(r)
    BY <2>4 DEF Finish, LockInv, LiveRunsHoldTheirRow, Live, Open, TypeInv,
                TypeOK
  <2> QED
    BY <2>1, <2>2, <2>3, <2>4
    DEF Next, ProcessStep, RunStep, Boot, ReadOwners, AskLiveness,
        LivenessUnknown, Bootstrap, Beat, KeyExpires, Crash, Halt, Stop, Touch,
        BeginPersist, CollectionEnds, TimerFires, FinishFails, Tick, rowVars
<1>2. [\A r \in Run : Keeps(r)]_vars
        <=> [\A r \in Run :
               Closed(r) => /\ status'[r] \in {"ok", "failed"}
                            /\ r \notin swept => status'[r] = status[r]]_vars
  OBVIOUS
<1> QED
  BY LockInvariant, <1>1, <1>2, PTL DEF Spec, ClosedForGood

-----------------------------------------------------------------------------
(* The age floor *)

\* A row is never older than its run's collection, which its timeout bounds.
AgeInv ==
  \A r \in Run :
    /\ wait[r] = "waiting" => /\ elapsed[r] <= TimeoutOf(store[r])
                              /\ Open(r) => age[r] <= elapsed[r]
    /\ Live(r) /\ Open(r) => age[r] <= TimeoutOf(store[r])

LEMMA AgeInit == Init => AgeInv
BY DEF Init, AgeInv, Live, Open

LEMMA AgeNext == TypeInv /\ AgeInv /\ [Next]_vars => AgeInv'
<1> SUFFICES ASSUME TypeInv, AgeInv, [Next]_vars PROVE AgeInv'
  OBVIOUS
<1> USE OrphanAgeBounds
<1> USE DEF AgeInv, Live, Open, TypeInv, TypeOK, RowsOfRuns
<1>1. ASSUME NEW i \in Instance, ProcessStep(i) PROVE AgeInv'
  <2>1. CASE Sweep(i)
    BY <2>1 DEF Sweep, Orphans, runVars
  <2>2. CASE Crash(i)
    BY <2>2 DEF Crash, Halt, rowVars
  <2>3. ASSUME UNCHANGED <<rowVars, runVars>> PROVE AgeInv'
    BY <2>3 DEF rowVars, runVars
  <2> QED
    BY <1>1, <2>1, <2>2, <2>3
    DEF ProcessStep, Boot, ReadOwners, AskLiveness, LivenessUnknown, Bootstrap,
        Beat, KeyExpires, Stop
<1>2. ASSUME NEW r \in Run, RunStep(r) PROVE AgeInv'
  <2>1. ASSUME NEW i \in Instance, NEW s \in Store, Start(i, s, r)
        PROVE AgeInv'
    BY <2>1 DEF Start
  <2>2. CASE Touch(r)
    BY <2>2 DEF Touch, runVars
  <2>3. CASE BeginPersist(r)
    BY <2>3 DEF BeginPersist, rowVars
  <2>4. ASSUME NEW o \in {"ok", "failed"}, CollectionEnds(r, o)
        PROVE AgeInv'
    BY <2>4 DEF CollectionEnds, Collecting, rowVars
  <2>5. CASE TimerFires(r)
    BY <2>5 DEF TimerFires, rowVars
  <2>6. CASE Finish(r)
    BY <2>6 DEF Finish
  <2>7. CASE FinishFails(r)
    BY <2>7 DEF FinishFails, rowVars
  <2> QED
    BY <1>2, <2>1, <2>2, <2>3, <2>4, <2>5, <2>6, <2>7 DEF RunStep
<1>3. CASE Tick
  BY <1>3 DEF Tick
<1>4. CASE UNCHANGED vars
  BY <1>4 DEF vars, rowVars, runVars
<1> QED
  BY <1>1, <1>2, <1>3, <1>4 DEF Next

LEMMA AgeInvariant == Spec => [](TypeInv /\ AgeInv)
BY TypeInit, TypeNext, AgeInit, AgeNext, PTL DEF Spec

LEMMA AgeInvIsEnough == TypeInv /\ AgeInv => OverAgeRowsAreNotLive
BY OrphanAgeBounds
DEF AgeInv, OverAgeRowsAreNotLive, TypeInv, TypeOK, RowsOfRuns, Live, Open

\* What the sweep's age test closes has no run any more, for any timeouts and
\* any positive margin.
THEOREM AgeFloor == Spec => []OverAgeRowsAreNotLive
BY AgeInvariant, AgeInvIsEnough, PTL

-----------------------------------------------------------------------------
(* The owner test *)

Started == {"up", "stopping", "down"}

\* A process whose row was ever read by a sweeper has served; as long as it
\* serves it has its key, so an answer about it says that it is up.
OwnerInv ==
  /\ \A r \in Run : Open(r) => inst[owner[r]] \in Started
  /\ \A i \in Instance : \A o \in seen[i] : inst[o] \in Started
  /\ \A i \in Instance : inst[i] = "up" => i \in key
  /\ \A i \in Instance : inst[i] = "answered"
       => \A o \in seen[i] : inst[o] = "up" => o \in alive[i]

LEMMA OwnerInit == Init => OwnerInv
BY DEF Init, OwnerInv, Open, Started

LEMMA OwnerNext ==
  ASSUME "lapse" \notin Faults
  PROVE  TypeInv /\ OwnerInv /\ [Next]_vars => OwnerInv'
<1> SUFFICES ASSUME TypeInv, OwnerInv, [Next]_vars PROVE OwnerInv'
  OBVIOUS
<1> USE DEF OwnerInv, Open, Started, TypeInv, TypeOK, RowsOfRuns
<1>1. ASSUME NEW i \in Instance, ProcessStep(i) PROVE OwnerInv'
  <2>1. CASE Boot(i)
    BY <2>1 DEF Boot, FreshName, rowVars
  <2>2. CASE ReadOwners(i)
    BY <2>2 DEF ReadOwners, rowVars
  <2>3. CASE AskLiveness(i)
    BY <2>3 DEF AskLiveness, rowVars
  <2>4. CASE LivenessUnknown(i)
    BY <2>4 DEF LivenessUnknown, rowVars
  <2>5. CASE Sweep(i)
    BY <2>5 DEF Sweep, Orphans
  <2>6. CASE Bootstrap(i)
    BY <2>6 DEF Bootstrap, rowVars
  <2>7. CASE Beat(i)
    BY <2>7 DEF Beat, rowVars
  <2>8. CASE KeyExpires(i)
    BY <2>8 DEF KeyExpires, rowVars
  <2>9. CASE Crash(i)
    BY <2>9 DEF Crash, Halt, rowVars
  <2>10. CASE Stop(i)
    BY <2>10 DEF Stop, rowVars
  <2> QED
    BY <1>1, <2>1, <2>2, <2>3, <2>4, <2>5, <2>6, <2>7, <2>8, <2>9, <2>10
    DEF ProcessStep
<1>2. ASSUME NEW r \in Run, RunStep(r) PROVE OwnerInv'
  <2>1. ASSUME NEW i \in Instance, NEW s \in Store, Start(i, s, r)
        PROVE OwnerInv'
    BY <2>1 DEF Start, Running, instVars
  <2>2. CASE Finish(r)
    BY <2>2 DEF Finish, instVars
  <2>3. ASSUME UNCHANGED <<instVars, status, owner>> PROVE OwnerInv'
    BY <2>3 DEF instVars
  <2> QED
    BY <1>2, <2>1, <2>2, <2>3
    DEF RunStep, Touch, BeginPersist, CollectionEnds, TimerFires, FinishFails,
        rowVars
<1>3. CASE Tick
  BY <1>3 DEF Tick, instVars
<1>4. CASE UNCHANGED vars
  BY <1>4 DEF vars
<1> QED
  BY <1>1, <1>2, <1>3, <1>4 DEF Next

\* While serving processes keep their keys, a boot sweep never closes the row
\* of a live run it knew about, even when Valkey does not answer it.
THEOREM SparesTheSeen ==
  ASSUME "lapse" \notin Faults
  PROVE  Spec => SweepSparesTheSeen
<1> DEFINE Spares ==
      \A i \in Instance, r \in Run :
        /\ inst[i] # "swept" /\ inst'[i] = "swept"
        /\ Live(r) /\ inst[owner[r]] = "up"
        /\ owner[r] \in seen[i]
        => status'[r] = status[r]
<1>1. TypeInv /\ AgeInv /\ OwnerInv /\ [Next]_vars => [Spares]_vars
  <2> SUFFICES ASSUME TypeInv, AgeInv, OwnerInv, Next,
                      NEW i \in Instance, NEW r \in Run,
                      inst[i] # "swept", inst'[i] = "swept",
                      Live(r), inst[owner[r]] = "up", owner[r] \in seen[i]
               PROVE  status'[r] = status[r]
    OBVIOUS
  <2>1. Sweep(i)
    BY DEF Next, ProcessStep, RunStep, Boot, ReadOwners, AskLiveness,
           LivenessUnknown, Bootstrap, Beat, KeyExpires, Crash, Halt, Stop,
           Start, Touch, BeginPersist, CollectionEnds, TimerFires, Finish,
           FinishFails, Tick, Sweep, instVars, TypeInv, TypeOK
  <2>2. inst[i] = "answered" => owner[r] \in alive[i]
    BY DEF OwnerInv
  <2>3. ~(Open(r) /\ age[r] > OrphanAge)
    BY AgeInvIsEnough DEF OverAgeRowsAreNotLive
  <2>4. r \notin Orphans(i)
    BY <2>2, <2>3 DEF Orphans
  <2> QED
    BY <2>1, <2>4 DEF Sweep
<1>2. Spec => []OwnerInv
  BY OwnerInit, OwnerNext, TypeInit, TypeNext, PTL DEF Spec
<1> QED
  BY AgeInvariant, <1>1, <1>2, PTL DEF Spec, SweepSparesTheSeen

-----------------------------------------------------------------------------
(* The table implements the lock *)

\* With one open row per domain, CHOOSE has nothing to choose.
LEMMA HolderIsTheOpenRow ==
  ASSUME TypeInv, OneOpenRowPerDomain, NEW d \in Domain
  PROVE  /\ HolderOf(d) \in Run \cup {Nobody}
         /\ \A r \in Run :
              HolderOf(d) = r <=> Open(r) /\ DomainOf[store[r]] = d
<1>1. CASE \E r \in Run : Open(r) /\ DomainOf[store[r]] = d
  <2> PICK q \in Run : Open(q) /\ DomainOf[store[q]] = d
    BY <1>1
  <2>1. /\ HolderOf(d) \in Run
        /\ Open(HolderOf(d)) /\ DomainOf[store[HolderOf(d)]] = d
    BY DEF HolderOf
  <2> QED
    BY <2>1 DEF OneOpenRowPerDomain
<1>2. CASE ~\E r \in Run : Open(r) /\ DomainOf[store[r]] = d
  BY <1>2, StoreSyncAssumptions DEF HolderOf
<1> QED
  BY <1>1, <1>2

LEMMA HolderIsTheOpenRowNext ==
  ASSUME TypeInv', OneOpenRowPerDomain', NEW d \in Domain
  PROVE  /\ HolderOf(d)' \in Run \cup {Nobody}
         /\ \A r \in Run :
              HolderOf(d)' = r <=> Open(r)' /\ DomainOf[store'[r]] = d
<1>1. CASE \E r \in Run : Open(r)' /\ DomainOf[store'[r]] = d
  <2> PICK q \in Run : Open(q)' /\ DomainOf[store'[q]] = d
    BY <1>1
  <2>1. /\ HolderOf(d)' \in Run
        /\ status'[HolderOf(d)'] = "open"
        /\ DomainOf[store'[HolderOf(d)']] = d
    BY DEF HolderOf, Open
  <2> QED
    BY <2>1 DEF OneOpenRowPerDomain, Open
<1>2. CASE ~\E r \in Run : Open(r)' /\ DomainOf[store'[r]] = d
  BY <1>2, StoreSyncAssumptions DEF HolderOf, Open
<1> QED
  BY <1>1, <1>2

\* A step that only closes rows gives locks back, or changes no lock.
LEMMA ClosingReleases ==
  ASSUME TypeInv, TypeInv', OneOpenRowPerDomain, OneOpenRowPerDomain',
         store' = store,
         \A r \in Run : /\ status'[r] = "open" => status[r] = "open"
                        /\ status'[r] = "none" <=> status[r] = "none"
  PROVE  [Lock!LockNext]_(Lock!lockVars)
<1> DEFINE freed == {d \in Domain : HolderOf(d)' # HolderOf(d)}
<1>1. \A d \in Domain : /\ HolderOf(d)' # HolderOf(d)
                          => HolderOf(d) # Nobody /\ HolderOf(d)' = Nobody
  BY HolderIsTheOpenRow, HolderIsTheOpenRowNext, StoreSyncAssumptions DEF Open
<1>2. {r \in Run : status'[r] # "none"} = {r \in Run : status[r] # "none"}
  OBVIOUS
<1>3. CASE freed = {}
  <2>1. [d \in Domain |-> HolderOf(d)'] = [d \in Domain |-> HolderOf(d)]
    BY <1>3
  <2> QED
    BY <2>1, <1>2 DEF Lock!lockVars
<1>4. CASE freed # {}
  <2>1. freed \in SUBSET Domain
    OBVIOUS
  <2>2. \A d \in freed : [e \in Domain |-> HolderOf(e)][d] # Nobody
    BY <1>1
  <2>3. [d \in Domain |-> HolderOf(d)']
          = [d \in Domain |-> IF d \in freed
                              THEN Nobody
                              ELSE [e \in Domain |-> HolderOf(e)][d]]
    BY <1>1
  <2>4. Lock!Release(freed)
    BY <1>4, <2>2, <2>3, <1>2 DEF Lock!Release
  <2> QED
    BY <2>1, <2>4 DEF Lock!LockNext
<1> QED
  BY <1>3, <1>4

\* Inserting a row the index accepts acquires its domain's lock.
LEMMA StartAcquires ==
  ASSUME TypeInv, TypeInv', OneOpenRowPerDomain, OneOpenRowPerDomain',
         NEW i \in Instance, NEW s \in Store, NEW r \in Run, Start(i, s, r)
  PROVE  Lock!LockNext
<1> DEFINE d == DomainOf[s]
<1>1. /\ d \in Domain
      /\ status[r] = "none" /\ status' = [status EXCEPT ![r] = "open"]
      /\ store' = [store EXCEPT ![r] = s]
  BY StoreSyncAssumptions DEF Start
<1>2. HolderOf(d) = Nobody
  BY <1>1, HolderIsTheOpenRow DEF Start, LockFree
<1>3. HolderOf(d)' = r
  BY <1>1, HolderIsTheOpenRowNext DEF Open, TypeInv, TypeOK
<1>4. ASSUME NEW e \in Domain, e # d PROVE HolderOf(e)' = HolderOf(e)
  <2>1. \A q \in Run : (Open(q)' /\ DomainOf[store'[q]] = e)
                         <=> (Open(q) /\ DomainOf[store[q]] = e)
    BY <1>1, <1>4 DEF Open, TypeInv, TypeOK
  <2> QED
    BY <2>1, HolderIsTheOpenRow, HolderIsTheOpenRowNext, StoreSyncAssumptions
<1>5. [e \in Domain |-> HolderOf(e)']
        = [[e \in Domain |-> HolderOf(e)] EXCEPT ![d] = r]
  BY <1>1, <1>3, <1>4
<1>6. {q \in Run : status'[q] # "none"}
        = {q \in Run : status[q] # "none"} \cup {r}
  BY <1>1 DEF TypeInv, TypeOK
<1>7. Lock!Acquire(d, r)
  BY <1>1, <1>2, <1>5, <1>6 DEF Lock!Acquire
<1> QED
  BY <1>1, <1>7 DEF Lock!LockNext

\* Every behaviour of the sync is a behaviour of the abstract lock.
THEOREM Refinement == Spec => ImplementsRunLock
<1>1. Init => Lock!LockInit
  BY DEF Init, Lock!LockInit, HolderOf, Open
<1>2. TypeInv /\ TypeInv' /\ LockInv /\ LockInv' /\ [Next]_vars
        => [Lock!LockNext]_(Lock!lockVars)
  <2> SUFFICES ASSUME TypeInv, TypeInv', OneOpenRowPerDomain,
                      OneOpenRowPerDomain', [Next]_vars
               PROVE  [Lock!LockNext]_(Lock!lockVars)
    BY DEF LockInv
  <2>1. CASE UNCHANGED <<status, store>>
    BY <2>1, ClosingReleases
  <2>2. ASSUME NEW i \in Instance, Sweep(i)
        PROVE  [Lock!LockNext]_(Lock!lockVars)
    BY <2>2, ClosingReleases DEF Sweep, Orphans, Open, TypeInv, TypeOK
  <2>3. ASSUME NEW i \in Instance, NEW s \in Store, NEW r \in Run,
               Start(i, s, r)
        PROVE  [Lock!LockNext]_(Lock!lockVars)
    BY <2>3, StartAcquires
  <2>4. ASSUME NEW r \in Run, Finish(r)
        PROVE  [Lock!LockNext]_(Lock!lockVars)
    BY <2>4, ClosingReleases
    DEF Finish, TypeInv, TypeOK, RowsOfRuns
  <2> QED
    BY <2>1, <2>2, <2>3, <2>4
    DEF Next, ProcessStep, RunStep, Boot, ReadOwners, AskLiveness,
        LivenessUnknown, Bootstrap, Beat, KeyExpires, Crash, Halt, Stop, Touch,
        BeginPersist, CollectionEnds, TimerFires, FinishFails, Tick, vars,
        rowVars
<1> QED
  BY LockInvariant, <1>1, <1>2, PTL DEF Spec, ImplementsRunLock, Lock!LockSpec

=============================================================================
