------------------------ MODULE CatalogueCache_proofs ------------------------
(***************************************************************************)
(* What CatalogueCache promises for any number of processes, requests,     *)
(* chunks, writes and generations.                                         *)
(***************************************************************************)
EXTENDS CatalogueCache, TLAPS

-----------------------------------------------------------------------------
(* Type correctness *)

\* What a request's step says of the rest of its record.
JobsInOrder ==
  \A r \in Request :
    /\ req[r].pc \in {"read", "pick", "drop"} \cup Writing
         => req[r].version \in Gen
    /\ req[r].pc = "pick" => req[r].picked \in Version
    /\ req[r].pc \in Writing => req[r].set \in Version

TypeInv == TypeOK /\ JobsInOrder

Job == [pc : Step,
        version : {0} \cup Gen,
        picked : {0} \cup Version,
        set : {0} \cup Version,
        wrote : 0..(NChunk - 1)]

LEMMA IdleIsAJob == Idle \in Job /\ Idle.pc = "idle"
<1>1. 0 \in 0..(NChunk - 1)
  BY CatalogueCacheAssumptions
<1>2. "idle" \in Step
  BY DEF Step
<1> QED
  BY <1>1, <1>2 DEF Idle, Job

LEMMA TypeInit == Init => TypeInv
<1> SUFFICES ASSUME Init PROVE TypeInv
  OBVIOUS
<1>1. 1 \in Version
  BY CatalogueCacheAssumptions DEF Version
<1>2. req \in [Request -> Job] /\ \A r \in Request : req[r] = Idle
  BY IdleIsAJob DEF Init
<1>3. TypeOK
  BY <1>1, <1>2 DEF Init, TypeOK, Job
<1>4. JobsInOrder
  BY <1>2, IdleIsAJob DEF JobsInOrder, Writing
<1> QED
  BY <1>3, <1>4 DEF TypeInv

\* The edits a step makes to a record leave it a record of a request.
LEMMA JobEdited ==
  ASSUME NEW j \in Job, NEW s \in Step, NEW v \in Version, NEW g \in Gen,
         NEW c \in 0..(NChunk - 1)
  PROVE  /\ [j EXCEPT !.pc = s] \in Job
         /\ [j EXCEPT !.version = g, !.pc = s] \in Job
         /\ [j EXCEPT !.picked = v, !.pc = s] \in Job
         /\ [j EXCEPT !.set = v, !.pc = s] \in Job
         /\ [j EXCEPT !.wrote = c] \in Job
<1>1. [j EXCEPT !.pc = s] \in Job
  BY DEF Job
<1>2. [j EXCEPT !.version = g, !.pc = s] \in Job
  BY DEF Job
<1>3. [j EXCEPT !.picked = v, !.pc = s] \in Job
  BY DEF Job
<1>4. [j EXCEPT !.set = v, !.pc = s] \in Job
  BY DEF Job
<1>5. [j EXCEPT !.wrote = c] \in Job
  BY DEF Job
<1> QED
  BY <1>1, <1>2, <1>3, <1>4, <1>5

LEMMA SomeValues ==
  1 \in Version /\ 1 \in Gen /\ 0 \in 0..(NChunk - 1) /\ "idle" \in Step
BY CatalogueCacheAssumptions DEF Version, Gen, Step

\* Each change a step makes to a request's record.
LEMMA GotoKept ==
  ASSUME TypeOK, NEW r \in Request, NEW s \in Step, Goto(r, s)
  PROVE  req' \in [Request -> Job] /\ req' = [req EXCEPT ![r].pc = s]
<1>1. req \in [Request -> Job] /\ req' = [req EXCEPT ![r].pc = s]
  BY DEF TypeOK, Job, Goto
<1>2. [req[r] EXCEPT !.pc = s] \in Job
  BY <1>1, JobEdited, SomeValues
<1> QED
  BY <1>1, <1>2

LEMMA LeaveKept ==
  ASSUME TypeOK, NEW r \in Request, Leave(r)
  PROVE  req' \in [Request -> Job] /\ req' = [req EXCEPT ![r] = Idle]
<1>1. req \in [Request -> Job] /\ req' = [req EXCEPT ![r] = Idle]
  BY DEF TypeOK, Job, Leave
<1> QED
  BY <1>1, IdleIsAJob

LEMMA AddressKept ==
  ASSUME TypeOK, NEW r \in Request, Address(r)
  PROVE  /\ req' \in [Request -> Job]
         /\ req'[r].pc = "read" /\ req'[r].version \in Gen
         /\ \A q \in Request \ {r} : req'[q] = req[q]
<1> DEFINE j == [req[r] EXCEPT !.version = gen, !.pc = "read"]
<1>1. req \in [Request -> Job] /\ req' = [req EXCEPT ![r] = j]
  BY DEF TypeOK, Job, Address
<1>2. gen \in Gen
  BY DEF TypeOK, Address
<1>3. "read" \in Step
  BY DEF Step
<1>4. req[r] \in Job
  BY <1>1
<1>5. j \in Job
  BY <1>2, <1>3, <1>4, JobEdited, SomeValues
<1>6. j.pc = "read" /\ j.version = gen
  BY <1>4 DEF Job
<1> HIDE DEF j
<1> QED
  BY <1>1, <1>2, <1>5, <1>6

LEMMA SetKept ==
  ASSUME TypeOK, NEW r \in Request, NEW v \in Version, NEW s \in Step
  PROVE  /\ req' = [req EXCEPT ![r] = [@ EXCEPT !.picked = v, !.pc = s]]
              => req' \in [Request -> Job]
         /\ req' = [req EXCEPT ![r] = [@ EXCEPT !.set = v, !.pc = s]]
              => req' \in [Request -> Job]
<1>1. req \in [Request -> Job] /\ req[r] \in Job
  BY DEF TypeOK, Job
<1>2. /\ [req[r] EXCEPT !.picked = v, !.pc = s] \in Job
      /\ [req[r] EXCEPT !.set = v, !.pc = s] \in Job
  BY <1>1, JobEdited, SomeValues
<1> QED
  BY <1>1, <1>2

LEMMA ChunkKept ==
  ASSUME TypeOK, NEW r \in Request, NEW c \in 0..(NChunk - 1),
         req' = [req EXCEPT ![r].wrote = c]
  PROVE  req' \in [Request -> Job]
<1>1. req \in [Request -> Job] /\ req[r] \in Job
  BY DEF TypeOK, Job
<1>2. [req[r] EXCEPT !.wrote = c] \in Job
  BY <1>1, JobEdited, SomeValues
<1> QED
  BY <1>1, <1>2

\* A step to a place that says nothing of the rest of the record.
LEMMA PlainGoto ==
  ASSUME TypeInv, NEW r \in Request, NEW s \in Step, Goto(r, s),
         \/ s \in Step \ ({"read", "pick", "drop"} \cup Writing)
         \/ s = "drop" /\ req[r].pc \in {"read", "pick", "drop"} \cup Writing
         \/ /\ s \in {"del", "chunk"} /\ req[r].pc \in Writing
  PROVE  req' \in [Request -> Job] /\ JobsInOrder'
<1>1. /\ req \in [Request -> Job] /\ req' \in [Request -> Job]
      /\ req' = [req EXCEPT ![r].pc = s]
  BY GotoKept DEF TypeInv, TypeOK, Job
<1>2. req[r] \in Job
  BY <1>1
<1>3. /\ req'[r].pc = s /\ req'[r].version = req[r].version
      /\ req'[r].picked = req[r].picked /\ req'[r].set = req[r].set
      /\ \A q \in Request \ {r} : req'[q] = req[q]
  BY <1>1, <1>2 DEF Job
<1>4. "drop" \notin Writing /\ "pick" \notin Writing /\ s # "pick"
  BY DEF Writing
<1>5. ASSUME NEW q \in Request
      PROVE  /\ req'[q].pc \in {"read", "pick", "drop"} \cup Writing
                  => req'[q].version \in Gen
             /\ req'[q].pc = "pick" => req'[q].picked \in Version
             /\ req'[q].pc \in Writing => req'[q].set \in Version
  <2>1. CASE q # r
    BY <1>3, <2>1 DEF TypeInv, JobsInOrder
  <2>2. CASE q = r
    BY <1>3, <1>4, <2>2 DEF TypeInv, JobsInOrder
  <2> QED
    BY <2>1, <2>2
<1> QED
  BY <1>1, <1>5 DEF JobsInOrder

LEMMA PlainLeave ==
  ASSUME TypeInv, NEW r \in Request, Leave(r)
  PROVE  req' \in [Request -> Job] /\ JobsInOrder'
<1>1. /\ req \in [Request -> Job] /\ req' \in [Request -> Job]
      /\ req' = [req EXCEPT ![r] = Idle]
  BY LeaveKept DEF TypeInv, TypeOK, Job
<1>2. req'[r].pc = "idle" /\ \A q \in Request \ {r} : req'[q] = req[q]
  BY <1>1, IdleIsAJob
<1> QED
  BY <1>1, <1>2 DEF TypeInv, JobsInOrder, Writing

\* A move of the counter keeps the types of what it touches.
LEMMA MoveKept ==
  ASSUME TypeOK, NEW g, Move(g)
  PROVE  /\ gen' \in {0} \cup Gen
         /\ top' \in {0} \cup Gen
         /\ base' \in [Gen -> {0} \cup Version]
BY DEF TypeOK, Move

LEMMA BumpKept ==
  ASSUME TypeOK, NEW p \in Process, Bump(p)
  PROVE  /\ gen' \in {0} \cup Gen
         /\ top' \in {0} \cup Gen
         /\ base' \in [Gen -> {0} \cup Version]
         /\ late' \in BOOLEAN
         /\ pending' \subseteq Process
         /\ told' \in [Process -> {0} \cup Version]
<1>1. CASE BumpSucceeds(p)
  BY <1>1, MoveKept DEF BumpSucceeds, Increment, TypeOK
<1>2. CASE BumpFails(p)
  BY <1>2 DEF BumpFails, TypeOK
<1> QED
  BY <1>1, <1>2 DEF Bump

LEMMA TypeNext == TypeInv /\ [Next]_vars => TypeInv'
<1> SUFFICES ASSUME TypeInv, [Next]_vars PROVE TypeInv'
  OBVIOUS
<1> USE DEF TypeInv, dbVars, procVars, genVars, storeVars, reqVars
<1>1. ASSUME NEW p \in Process, ProcessStep(p) PROVE TypeInv'
  <2>1. CASE Boot(p)
    BY <2>1, BumpKept DEF Boot, TypeOK, JobsInOrder
  <2>2. CASE Crash(p)
    BY <2>2, CatalogueCacheAssumptions
    DEF Crash, Idle, Step, Writing, TypeOK, JobsInOrder
  <2>3. CASE Commit(p)
    BY <2>3, CatalogueCacheAssumptions
    DEF Commit, Version, TypeOK, JobsInOrder
  <2>4. CASE AfterCommit(p)
    <3>1. hooks' \in [Process -> Nat]
      BY <2>4 DEF AfterCommit, TypeOK
    <3> QED
      BY <2>4, <3>1, BumpKept DEF AfterCommit, TypeOK, JobsInOrder
  <2> QED
    BY <1>1, <2>1, <2>2, <2>3, <2>4 DEF ProcessStep
<1>2. ASSUME NEW r \in Request, RequestStep(r) PROVE TypeInv'
  <2> USE DEF JobsInOrder
  <2>0. TypeOK /\ req \in [Request -> Job]
    BY DEF TypeOK, Job
  <2>1. CASE Begin(r)
    <3>1. PICK s \in {"retry", "gen"} : Goto(r, s)
      BY <2>1 DEF Begin
    <3>2. req' \in [Request -> Job] /\ JobsInOrder'
      BY <3>1, PlainGoto DEF Step, Writing
    <3>3. floor' \in [Request -> {0} \cup Version]
      <4>1. HomeOf[r] \in Process
        BY CatalogueCacheAssumptions
      <4>2. told[HomeOf[r]] \in {0} \cup Version
        BY <4>1 DEF TypeOK
      <4>3. Covered \in {0} \cup Version
        BY DEF Covered, TypeOK
      <4>4. Newest(Covered, told[HomeOf[r]]) \in {0} \cup Version
        BY <4>2, <4>3 DEF Newest
      <4>5. floor \in [Request -> {0} \cup Version]
        BY DEF TypeOK
      <4> QED
        BY <2>1, <4>4, <4>5 DEF Begin
    <3>4. page' \in [Request -> SUBSET Version]
      BY <2>1 DEF Begin, TypeOK
    <3> QED
      BY <2>1, <3>2, <3>3, <3>4 DEF Begin, TypeOK, Job
  <2>2. CASE Retry(r)
    <3>1. Bump(HomeOf[r]) /\ HomeOf[r] \in Process
      BY <2>2, CatalogueCacheAssumptions DEF Retry, Bump
    <3>2. PICK s \in {"gen", "load"} : Goto(r, s)
      BY <2>2 DEF Retry
    <3>3. req' \in [Request -> Job] /\ JobsInOrder'
      BY <3>2, PlainGoto DEF Step, Writing
    <3>4. UNCHANGED <<dbVars, up, storeVars, page, floor>>
      BY <2>2 DEF Retry
    <3> QED
      BY <3>1, <3>3, <3>4, BumpKept DEF TypeOK, Job
  <2>3. CASE SeedGeneration(r)
    <3>1. req' \in [Request -> Job] /\ JobsInOrder'
      BY <2>3, PlainGoto DEF SeedGeneration, Step, Writing
    <3>2. /\ gen' \in {0} \cup Gen
          /\ top' \in {0} \cup Gen
          /\ base' \in [Gen -> {0} \cup Version]
      BY <2>3, MoveKept DEF SeedGeneration, TypeOK
    <3>3. UNCHANGED <<dbVars, procVars, late, storeVars, page, floor>>
      BY <2>3 DEF SeedGeneration
    <3> QED
      BY <3>1, <3>2, <3>3 DEF TypeOK, Job
  <2>4. CASE ReadGeneration(r) \/ ReadSeeded(r)
    <3>1. UNCHANGED <<dbVars, procVars, genVars, storeVars, page, floor>>
      BY <2>4 DEF ReadGeneration, ReadSeeded
    <3>2. CASE Address(r)
      <4>1. /\ req' \in [Request -> Job]
            /\ req'[r].pc = "read" /\ req'[r].version \in Gen
            /\ \A q \in Request \ {r} : req'[q] = req[q]
        BY <3>2, AddressKept
      <4>2. JobsInOrder'
        BY <4>1 DEF Writing
      <4> QED
        BY <3>1, <4>1, <4>2 DEF TypeOK, Job
    <3>3. ASSUME NEW s \in {"seed", "load"}, Goto(r, s) PROVE TypeInv'
      <4>1. req' \in [Request -> Job] /\ JobsInOrder'
        BY <3>3, PlainGoto DEF Step, Writing
      <4> QED
        BY <3>1, <4>1 DEF TypeOK, Job
    <3> QED
      BY <2>4, <3>2, <3>3 DEF ReadGeneration, ReadSeeded
  <2>5. CASE ReadIndex(r)
    <3> DEFINE found == index[req[r].version]
    <3>1. /\ req[r].version \in Gen /\ found \in {0} \cup Version
          /\ "pick" \in Step /\ "load" \in Step
          /\ UNCHANGED <<dbVars, procVars, genVars, storeVars, page, floor>>
      BY <2>5 DEF ReadIndex, At, TypeOK, Step
    <3>2. CASE found # 0
               /\ req' = [req EXCEPT ![r] =
                            [@ EXCEPT !.picked = found, !.pc = "pick"]]
      <4>1. req' \in [Request -> Job]
        BY <3>1, <3>2, SetKept
      <4>2. req[r] \in Job
        BY <2>0
      <4>3. /\ req'[r].pc = "pick" /\ req'[r].picked = found
            /\ req'[r].version = req[r].version
            /\ \A q \in Request \ {r} : req'[q] = req[q]
        BY <2>0, <3>2, <4>2 DEF Job
      <4>4. JobsInOrder'
        BY <3>1, <3>2, <4>3 DEF Writing
      <4> QED
        BY <3>1, <4>1, <4>4 DEF TypeOK, Job
    <3>3. CASE Goto(r, "load")
      <4>1. req' \in [Request -> Job] /\ JobsInOrder'
        BY <3>1, <3>3, PlainGoto DEF Step, Writing
      <4> QED
        BY <3>1, <4>1 DEF TypeOK, Job
    <3> QED
      BY <2>5, <3>2, <3>3 DEF ReadIndex
  <2>6. ASSUME NEW P \in SUBSET Chunk, ReadEntries(r, P) PROVE TypeInv'
    <3> DEFINE hash == entries[req[r].version]
               answer == {req[r].picked} \cup {hash[c] : c \in P}
    <3>1. /\ req[r].pc = "pick"
          /\ req[r].picked \in Version /\ hash \in [Chunk -> {0} \cup Version]
      BY <2>6 DEF ReadEntries, At, TypeOK
    <3>2. req' \in [Request -> Job] /\ JobsInOrder'
      <4>1. CASE Leave(r)
        BY <4>1, PlainLeave
      <4>2. ASSUME NEW s \in {"drop", "load"}, Goto(r, s)
            PROVE  req' \in [Request -> Job] /\ JobsInOrder'
        BY <3>1, <4>2, PlainGoto DEF Step, Writing
      <4> QED
        BY <2>6, <4>1, <4>2 DEF ReadEntries
    <3>3. page' \in [Request -> SUBSET Version]
      <4>0. page \in [Request -> SUBSET Version]
        BY DEF TypeOK
      <4>1. CASE page' = page
        BY <4>0, <4>1
      <4>2. CASE page' = [page EXCEPT ![r] = answer]
                 /\ \A c \in P : hash[c] # 0
        <5>1. answer \subseteq Version
          BY <3>1, <4>2
        <5> QED
          BY <4>0, <4>2, <5>1
      <4> QED
        BY <2>6, <4>1, <4>2 DEF ReadEntries
    <3>4. UNCHANGED <<dbVars, procVars, genVars, storeVars, floor>>
      BY <2>6 DEF ReadEntries
    <3> QED
      BY <3>2, <3>3, <3>4 DEF TypeOK, Job
  <2>7. CASE DropSet(r)
    <3>1. req' \in [Request -> Job] /\ JobsInOrder'
      BY <2>7, PlainGoto DEF DropSet, Step, Writing
    <3>2. /\ index' \in [Gen -> {0} \cup Version]
          /\ entries' \in [Gen -> [Chunk -> {0} \cup Version]]
      <4>0. /\ index \in [Gen -> {0} \cup Version]
            /\ entries \in [Gen -> [Chunk -> {0} \cup Version]]
        BY DEF TypeOK
      <4>1. CASE UNCHANGED storeVars
        BY <4>0, <4>1
      <4>2. [c \in Chunk |-> 0] \in [Chunk -> {0} \cup Version]
        OBVIOUS
      <4>3. CASE /\ index' = [index EXCEPT ![req[r].version] = 0]
                 /\ entries' = [entries EXCEPT ![req[r].version] =
                                  [c \in Chunk |-> 0]]
        BY <4>0, <4>2, <4>3
      <4> QED
        BY <2>7, <4>1, <4>3 DEF DropSet
    <3>3. UNCHANGED <<dbVars, procVars, genVars, page, floor>>
      BY <2>7 DEF DropSet
    <3> QED
      BY <3>1, <3>2, <3>3 DEF TypeOK, Job
  <2>8. CASE Load(r)
    <3>1. "index" \in Step /\ "index" \in Writing
      BY DEF Step, Writing
    <3>2. req' \in [Request -> Job] /\ JobsInOrder'
      <4>1. CASE Leave(r)
        BY <4>1, PlainLeave
      <4>2. CASE req[r].version # 0
                 /\ req' = [req EXCEPT ![r] =
                              [@ EXCEPT !.set = db, !.pc = "index"]]
        <5>1. req[r] \in Job /\ db \in Version
          BY <2>0 DEF TypeOK
        <5>2. req' \in [Request -> Job]
          BY <3>1, <4>2, <5>1, SetKept
        <5>3. /\ req'[r].pc = "index" /\ req'[r].set = db
              /\ req'[r].version = req[r].version
              /\ \A q \in Request \ {r} : req'[q] = req[q]
          BY <2>0, <4>2, <5>1 DEF Job
        <5>4. req[r].version \in Gen
          BY <4>2, <5>1 DEF Job
        <5> QED
          BY <5>1, <5>2, <5>3, <5>4
      <4> QED
        BY <2>8, <4>1, <4>2 DEF Load
    <3>3. page' \in [Request -> SUBSET Version]
      BY <2>8 DEF Load, TypeOK
    <3>4. UNCHANGED <<dbVars, procVars, genVars, storeVars, floor>>
      BY <2>8 DEF Load
    <3> QED
      BY <3>2, <3>3, <3>4 DEF TypeOK, Job
  <2>9. CASE WriteIndex(r) \/ WriteDel(r)
    <3>1. /\ req[r].pc \in Writing
          /\ UNCHANGED <<dbVars, procVars, genVars, page, floor>>
          /\ \E s \in {"del", "chunk"} : Goto(r, s)
      BY <2>9 DEF WriteIndex, WriteDel, At, Writing
    <3>2. req' \in [Request -> Job] /\ JobsInOrder'
      BY <3>1, PlainGoto DEF Step, Writing
    <3>3. req[r].version \in Gen /\ req[r].set \in Version
      BY <3>1
    <3>4. index' \in [Gen -> {0} \cup Version]
      BY <2>9, <3>3 DEF WriteIndex, WriteDel, TypeOK
    <3>5. entries' \in [Gen -> [Chunk -> {0} \cup Version]]
      BY <2>9, <3>3 DEF WriteIndex, WriteDel, TypeOK
    <3> QED
      BY <3>1, <3>2, <3>4, <3>5 DEF TypeOK, Job
  <2>10. CASE WriteChunk(r)
    <3> DEFINE c == req[r].wrote + 1
    <3>0. req[r].wrote \in 0..(NChunk - 1)
      BY <2>0 DEF Job
    <3>1. c \in Chunk /\ (c # NChunk => c \in 0..(NChunk - 1))
      BY <3>0, CatalogueCacheAssumptions DEF Chunk
    <3>2. req' \in [Request -> Job] /\ JobsInOrder'
      <4>1. CASE Leave(r)
        BY <4>1, PlainLeave
      <4>2. CASE c # NChunk /\ req' = [req EXCEPT ![r].wrote = c]
        <5>1. req' \in [Request -> Job]
          BY <3>1, <4>2, ChunkKept
        <5>2. req[r] \in Job
          BY <2>0
        <5>3. /\ req'[r].pc = req[r].pc /\ req'[r].set = req[r].set
              /\ req'[r].version = req[r].version
              /\ req'[r].picked = req[r].picked
              /\ \A q \in Request \ {r} : req'[q] = req[q]
          BY <2>0, <4>2, <5>2 DEF Job
        <5> QED
          BY <5>1, <5>3
      <4> QED
        BY <2>10, <4>1, <4>2 DEF WriteChunk
    <3>3. entries' \in [Gen -> [Chunk -> {0} \cup Version]]
      <4>1. req[r].set \in Version
        BY <2>10 DEF WriteChunk, At, Writing
      <4> QED
        BY <2>10, <3>1, <4>1 DEF WriteChunk, TypeOK
    <3>4. UNCHANGED <<dbVars, procVars, genVars, index, page, floor>>
      BY <2>10 DEF WriteChunk
    <3> QED
      BY <3>2, <3>3, <3>4 DEF TypeOK, Job
  <2>11. CASE WriteBreaks(r)
    <3>1. /\ req' \in [Request -> Job] /\ JobsInOrder'
          /\ UNCHANGED <<dbVars, procVars, genVars, storeVars, page, floor>>
      BY <2>11, PlainLeave DEF WriteBreaks
    <3> QED
      BY <3>1 DEF TypeOK, Job
  <2> QED
    BY <1>2, <2>1, <2>2, <2>3, <2>4, <2>5, <2>6, <2>7, <2>8, <2>9, <2>10,
       <2>11
    DEF RequestStep
<1>3. ASSUME NEW g \in Gen, IndexExpires(g) PROVE TypeInv'
  BY <1>3 DEF IndexExpires, TypeOK, JobsInOrder
<1>4. ASSUME NEW g \in Gen, EntriesExpire(g) PROVE TypeInv'
  BY <1>4 DEF EntriesExpire, TypeOK, JobsInOrder
<1>5. CASE LateBump
  BY <1>5, MoveKept DEF LateBump, Increment, TypeOK, JobsInOrder
<1>6. CASE Evict
  BY <1>6 DEF Evict, TypeOK, JobsInOrder
<1>7. CASE UNCHANGED vars
  BY <1>7 DEF vars, TypeOK, JobsInOrder
<1> QED
  BY <1>1, <1>2, <1>3, <1>4, <1>5, <1>6, <1>7 DEF Next

\* Every variable keeps its type, whatever the interleaving and the faults.
THEOREM TypeCorrect == Spec => []TypeOK
<1>1. TypeInv => TypeOK
  BY DEF TypeInv
<1> QED
  BY TypeInit, TypeNext, <1>1, PTL DEF Spec

-----------------------------------------------------------------------------
(* Freshness *)

\* The counter holds the greatest generation there has been, or nothing, and
\* nothing is stored under a generation that has not begun.
CounterInv ==
  /\ gen \in {0, top}
  /\ \A g \in Gen : base[g] <= db
  /\ \A g \in Gen : g > top => /\ index[g] = 0
                               /\ \A c \in Chunk : entries[g][c] = 0

\* A process that told of something no bump has covered knows that it did.
DirtyInv ==
  \A p \in Process :
    told[p] <= db /\ (told[p] > Covered => p \in pending)

\* What each request owes its answer, step by step.
Owes(r) ==
  /\ floor[r] <= db
  /\ req[r].version <= top
  /\ req[r].version # 0 => floor[r] <= base[req[r].version]
  /\ req[r].pc \in {"idle", "retry", "gen", "seed", "regen"}
       => req[r].version = 0
  /\ req[r].pc \in {"gen", "seed", "regen"} => floor[r] <= Covered
  /\ req[r].pc = "pick" => req[r].picked >= base[req[r].version]
  /\ req[r].pc \in Writing => req[r].set >= base[req[r].version]

RequestInv == \A r \in Request : Owes(r)

FreshInv ==
  /\ CounterInv
  /\ DirtyInv
  /\ StoredAfterItsGeneration
  /\ RequestInv
  /\ AnswersAreFresh

LEMMA FreshInit == Init => FreshInv
<1> SUFFICES ASSUME Init PROVE FreshInv
  OBVIOUS
<1>1. \A r \in Request : /\ req[r].pc = "idle" /\ req[r].version = 0
                         /\ floor[r] = 0 /\ page[r] = {}
  BY DEF Init, Idle
<1>2. RequestInv /\ AnswersAreFresh
  BY <1>1 DEF Init, RequestInv, Owes, AnswersAreFresh, Writing
<1>3. CounterInv /\ StoredAfterItsGeneration
  BY DEF Init, CounterInv, StoredAfterItsGeneration
<1>4. DirtyInv
  BY DEF Init, DirtyInv, Covered
<1> QED
  BY <1>2, <1>3, <1>4 DEF FreshInv

LEMMA CoveredIsAVersion == TypeInv => Covered \in Nat
<1> SUFFICES ASSUME TypeInv PROVE Covered \in Nat
  OBVIOUS
<1>1. {0} \cup Version \subseteq Nat
  BY CatalogueCacheAssumptions DEF Version
<1>2. CASE top = 0
  BY <1>2 DEF Covered
<1>3. CASE top \in Gen
  BY <1>1, <1>3 DEF Covered, TypeInv, TypeOK
<1> QED
  BY <1>2, <1>3 DEF TypeInv, TypeOK

LEMMA CoveredIsAVersionNext == TypeInv' => Covered' \in Nat
<1> SUFFICES ASSUME TypeInv' PROVE Covered' \in Nat
  OBVIOUS
<1>1. {0} \cup Version \subseteq Nat
  BY CatalogueCacheAssumptions DEF Version
<1>2. CASE top' = 0
  BY <1>2 DEF Covered
<1>3. CASE top' \in Gen
  BY <1>1, <1>3 DEF Covered, TypeInv, TypeOK
<1> QED
  BY <1>2, <1>3 DEF TypeInv, TypeOK

\* A move of the counter starts a generation nothing is stored under, and
\* covers all there is to cover.
LEMMA MoveFresh ==
  ASSUME TypeInv, FreshInv, NEW g, Move(g), g > top,
         UNCHANGED <<db, index, entries>>
  PROVE  /\ CounterInv' /\ StoredAfterItsGeneration'
         /\ Covered' = db
         /\ Covered' >= Covered
         /\ top' \in Nat /\ top' >= top
         /\ \A x \in Gen : x <= top => base'[x] = base[x]
<1> USE DEF TypeInv, TypeOK, FreshInv, CounterInv, StoredAfterItsGeneration,
            Move, Gen, Version
<1>1. \A x \in Gen : x <= top => base'[x] = base[x]
  OBVIOUS
<1>2. base'[g] = db /\ \A x \in Gen : base'[x] <= db
  OBVIOUS
<1>3. CounterInv'
  BY <1>2
<1>4. StoredAfterItsGeneration'
  OBVIOUS
<1>5. Covered' = db /\ Covered' >= Covered
  BY <1>2 DEF Covered
<1> QED
  BY <1>1, <1>3, <1>4, <1>5

LEMMA IncrementMoves ==
  ASSUME TypeInv, FreshInv, Increment
  PROVE  \E g \in Gen : Move(g) /\ g > top
<1> DEFINE next == IF gen = 0 THEN Seed + 1 ELSE gen + 1
<1>1. Move(next) /\ next \in Gen
  BY DEF Increment, Move
<1>2. next > top
  BY CatalogueCacheAssumptions
  DEF TypeInv, TypeOK, FreshInv, CounterInv, Seed, Gen
<1> QED
  BY <1>1, <1>2

\* An attempt to bump, whatever becomes of it.
LEMMA BumpFresh ==
  ASSUME TypeInv, FreshInv, NEW p \in Process, Bump(p),
         UNCHANGED <<db, index, entries>>
  PROVE  /\ CounterInv' /\ StoredAfterItsGeneration' /\ DirtyInv'
         /\ Covered' >= Covered
         /\ top' \in Nat /\ top' >= top
         /\ \A x \in Gen : x <= top => base'[x] = base[x]
         /\ BumpSucceeds(p) => Covered' = db
<1> USE DEF TypeInv, TypeOK, FreshInv
<1>0. Covered \in Nat
  BY CoveredIsAVersion
<1>1. CASE BumpSucceeds(p)
  <2> PICK g \in Gen : Move(g) /\ g > top
    BY <1>1, IncrementMoves DEF BumpSucceeds
  <2>1. Covered' = db
    BY MoveFresh
  <2>2. DirtyInv'
    BY <1>1, <2>1 DEF BumpSucceeds, DirtyInv, Version
  <2> QED
    BY MoveFresh, <2>1, <2>2
<1>2. CASE BumpFails(p)
  <2>1. UNCHANGED <<gen, top, base>> /\ Covered' = Covered
    BY <1>2 DEF BumpFails, Covered
  <2>2. DirtyInv'
    BY <1>2, <2>1 DEF BumpFails, DirtyInv, Version
  <2>3. ~BumpSucceeds(p)
    BY <1>2, <2>1, IncrementMoves DEF BumpSucceeds, Move, Gen
  <2> QED
    BY <1>0, <2>1, <2>2, <2>3
    DEF CounterInv, StoredAfterItsGeneration, Gen
<1> QED
  BY <1>1, <1>2 DEF Bump

\* Requests that do nothing owe what they owed.
LEMMA RequestsWait ==
  ASSUME TypeInv, FreshInv,
         db' \in Nat, db' >= db, Covered' >= Covered,
         top' \in Nat, top' >= top,
         \A x \in Gen : x <= top => base'[x] = base[x],
         Covered \in Nat, Covered' \in Nat,
         NEW r \in Request, req'[r] = req[r], floor'[r] = floor[r]
  PROVE  Owes(r)'
<1>1. /\ req[r].version \in {0} \cup Gen
      /\ floor[r] \in {0} \cup Version
      /\ db \in Version /\ top \in {0} \cup Gen
  BY DEF TypeInv, TypeOK
<1>2. /\ req[r].pc = "pick" => req[r].version \in Gen
      /\ req[r].pc \in Writing => req[r].version \in Gen
  BY DEF TypeInv, JobsInOrder
<1>3. req[r].version \in Gen
        => base'[req[r].version] = base[req[r].version]
  BY DEF FreshInv, RequestInv, Owes
<1> QED
  BY <1>1, <1>2, <1>3 DEF FreshInv, RequestInv, Owes, Version, Gen

\* What is left to show of a step of request r, when it leaves the database
\* and the counter alone, or moves the counter on.
LEMMA RequestMoves ==
  ASSUME TypeInv, TypeInv', FreshInv,
         UNCHANGED db, Covered' >= Covered, top' >= top,
         \A x \in Gen : x <= top => base'[x] = base[x],
         NEW r \in Request,
         \A q \in Request \ {r} : req'[q] = req[q] /\ floor'[q] = floor[q]
                                  /\ page'[q] = page[q],
         Owes(r)',
         \A v \in page'[r] : v >= floor'[r]
  PROVE  RequestInv' /\ AnswersAreFresh'
<1>1. /\ db' \in Nat /\ db' >= db /\ Covered \in Nat /\ Covered' \in Nat
      /\ top' \in Nat
  <2>1. Covered \in Nat
    BY CoveredIsAVersion
  <2>2. Covered' \in Nat
    BY CoveredIsAVersionNext
  <2> QED
    BY <2>1, <2>2, CatalogueCacheAssumptions
    DEF TypeInv, TypeOK, Version, Gen
<1>2. ASSUME NEW q \in Request PROVE Owes(q)'
  <2>1. CASE q = r
    BY <2>1
  <2>2. CASE q # r
    BY <1>1, <2>2, RequestsWait
  <2> QED
    BY <2>1, <2>2
<1>3. RequestInv'
  BY <1>2 DEF RequestInv
<1>4. AnswersAreFresh'
  BY DEF AnswersAreFresh, FreshInv
<1> QED
  BY <1>3, <1>4

\* A step that leaves the counter and the database alone.
StillCounter == UNCHANGED <<db, gen, top, base>>

LEMMA StillKeeps ==
  ASSUME TypeInv, FreshInv, StillCounter,
         \A g \in Gen : /\ index'[g] \in {0, index[g]}
                        /\ \A c \in Chunk :
                             entries'[g][c] \in {0, entries[g][c]}
  PROVE  CounterInv' /\ StoredAfterItsGeneration' /\ Covered' = Covered
BY DEF StillCounter, FreshInv, CounterInv, StoredAfterItsGeneration, Covered

LEMMA ProcessFresh ==
  ASSUME TypeInv, TypeInv', FreshInv, NEW p \in Process, ProcessStep(p)
  PROVE  FreshInv'
<1> USE DEF dbVars, procVars, genVars, storeVars, reqVars
<1>1. CASE Bump(p) /\ UNCHANGED <<db, storeVars, reqVars>>
  <2>1. /\ CounterInv' /\ StoredAfterItsGeneration' /\ DirtyInv'
        /\ Covered' >= Covered /\ top' \in Nat /\ top' >= top
        /\ \A x \in Gen : x <= top => base'[x] = base[x]
    BY <1>1, BumpFresh
  <2>2. Covered \in Nat /\ Covered' \in Nat /\ db' \in Nat /\ db' >= db
    BY <1>1, CoveredIsAVersion, CoveredIsAVersionNext DEF TypeInv, TypeOK,
       Version
  <2>3. RequestInv'
    BY <1>1, <2>1, <2>2, RequestsWait DEF RequestInv
  <2>4. AnswersAreFresh'
    BY <1>1 DEF AnswersAreFresh, FreshInv
  <2> QED
    BY <2>1, <2>3, <2>4 DEF FreshInv
<1>2. CASE Crash(p)
  <2>1. CounterInv' /\ StoredAfterItsGeneration' /\ Covered' = Covered
    BY <1>2, StillKeeps DEF Crash, StillCounter
  <2>2. DirtyInv'
    BY <1>2, <2>1, CoveredIsAVersion
    DEF Crash, DirtyInv, FreshInv, TypeInv, TypeOK, Version
  <2>3. ASSUME NEW r \in Request PROVE Owes(r)'
    <3>1. CASE req'[r] = req[r]
      BY <1>2, <2>1, <3>1 DEF Crash, FreshInv, RequestInv, Owes
    <3>2. CASE req'[r] = Idle
      BY <1>2, <3>2, IdleIsAJob
      DEF Crash, FreshInv, RequestInv, Owes, TypeInv, TypeOK, Idle, Writing,
          Gen
    <3> QED
      BY <1>2, <3>1, <3>2 DEF Crash, TypeInv, TypeOK
  <2>4. AnswersAreFresh'
    BY <1>2 DEF Crash, AnswersAreFresh, FreshInv
  <2> QED
    BY <2>1, <2>2, <2>3, <2>4 DEF FreshInv, RequestInv
<1>3. CASE Commit(p)
  <2>1. /\ db \in Nat /\ db' = db + 1 /\ Covered' = Covered
        /\ Covered \in Nat /\ top \in Nat
    BY <1>3, CoveredIsAVersion
    DEF Commit, Covered, TypeInv, TypeOK, Version, Gen
  <2>2. CounterInv' /\ StoredAfterItsGeneration'
    BY <1>3, <2>1
    DEF Commit, CounterInv, StoredAfterItsGeneration, FreshInv, TypeInv,
        TypeOK, Version
  <2>3. DirtyInv'
    BY <1>3, <2>1 DEF Commit, DirtyInv, FreshInv, TypeInv, TypeOK, Version
  <2>4. RequestInv'
    BY <1>3, <2>1, RequestsWait DEF Commit, RequestInv
  <2>5. AnswersAreFresh'
    BY <1>3 DEF Commit, AnswersAreFresh, FreshInv
  <2> QED
    BY <2>2, <2>3, <2>4, <2>5 DEF FreshInv
<1> QED
  BY <1>1, <1>2, <1>3 DEF ProcessStep, Boot, AfterCommit

\* The steps of a request.
LEMMA RequestFresh ==
  ASSUME TypeInv, TypeInv', FreshInv, NEW r \in Request, RequestStep(r)
  PROVE  FreshInv'
<1> USE DEF dbVars, procVars, genVars, storeVars, reqVars
<1> DEFINE job == req[r]
<1>1. /\ Owes(r) /\ \A v \in page[r] : v >= floor[r]
      /\ req \in [Request -> Job] /\ job \in Job
      /\ job.pc \in {"read", "pick", "drop"} \cup Writing
           => job.version \in Gen
      /\ job.pc = "pick" => job.picked \in Version
      /\ job.pc \in Writing => job.set \in Version
  BY DEF FreshInv, RequestInv, AnswersAreFresh, TypeInv, TypeOK, Job,
         JobsInOrder
<1>2. /\ Covered \in Nat /\ Covered' \in Nat /\ db \in Nat /\ top \in Nat
      /\ \A x \in {0} \cup Version : x \in Nat
  BY CoveredIsAVersion, CoveredIsAVersionNext
  DEF TypeInv, TypeOK, Version, Gen
<1>3. \A q \in Request \ {r} : /\ req'[q] = req[q]
                               /\ floor'[q] = floor[q]
                               /\ page'[q] = page[q]
  <2>0. /\ req \in [Request -> Job]
        /\ page \in [Request -> SUBSET Version]
        /\ floor \in [Request -> {0} \cup Version]
    <3>1. TypeOK
      BY DEF TypeInv
    <3> QED
      BY ONLY <1>1, <3>1 DEF TypeOK
  <2>1. CASE Begin(r)
    BY <2>0, <2>1 DEF Begin, Goto, Leave, Address
  <2>2. CASE Retry(r)
    BY <2>0, <2>2 DEF Retry, Goto, Leave, Address
  <2>3. CASE ReadGeneration(r)
    BY <2>0, <2>3 DEF ReadGeneration, Goto, Leave, Address
  <2>4. CASE SeedGeneration(r)
    BY <2>0, <2>4 DEF SeedGeneration, Goto, Leave, Address
  <2>5. CASE ReadSeeded(r)
    BY <2>0, <2>5 DEF ReadSeeded, Goto, Leave, Address
  <2>6. CASE ReadIndex(r)
    BY <2>0, <2>6 DEF ReadIndex, Goto, Leave, Address
  <2>7. ASSUME NEW P \in SUBSET Chunk, ReadEntries(r, P)
        PROVE  \A q \in Request \ {r} : /\ req'[q] = req[q]
                                        /\ floor'[q] = floor[q]
                                        /\ page'[q] = page[q]
    BY <2>0, <2>7 DEF ReadEntries, Goto, Leave
  <2>8. CASE DropSet(r)
    BY <2>0, <2>8 DEF DropSet, Goto, Leave, Address
  <2>9. CASE Load(r)
    BY <2>0, <2>9 DEF Load, Goto, Leave, Address
  <2>10. CASE WriteIndex(r)
    BY <2>0, <2>10 DEF WriteIndex, Goto, Leave, Address
  <2>11. CASE WriteDel(r)
    BY <2>0, <2>11 DEF WriteDel, Goto, Leave, Address
  <2>12. CASE WriteChunk(r)
    BY <2>0, <2>12 DEF WriteChunk, Goto, Leave, Address
  <2>13. CASE WriteBreaks(r)
    BY <2>0, <2>13 DEF WriteBreaks, Goto, Leave, Address
  <2> QED
    BY <2>1, <2>2, <2>3, <2>4, <2>5, <2>6, <2>7, <2>8, <2>9, <2>10, <2>11,
       <2>12, <2>13
    DEF RequestStep
<1>4. ASSUME UNCHANGED <<procVars, db, genVars>>,
             StoredAfterItsGeneration', Owes(r)',
             \A v \in page'[r] : v >= floor'[r],
             \A g \in Gen : g > top =>
               /\ index'[g] = 0 /\ \A c \in Chunk : entries'[g][c] = 0
      PROVE  FreshInv'
  <2>1. CounterInv' /\ DirtyInv' /\ Covered' = Covered
    BY <1>4 DEF FreshInv, CounterInv, DirtyInv, Covered
  <2>2. RequestInv' /\ AnswersAreFresh'
    BY <1>2, <1>3, <1>4, <2>1, RequestMoves
  <2> QED
    BY <1>4, <2>1, <2>2 DEF FreshInv
<1>5. UNCHANGED <<db, gen, top, base>> => Covered' = Covered
  BY DEF Covered
<1>6. CASE Begin(r)
  <2>1. /\ floor'[r] <= db
        /\ HomeOf[r] \notin pending => floor'[r] <= Covered
    <3> DEFINE p == HomeOf[r]
    <3>1. p \in Process /\ floor'[r] = Newest(Covered, told[p])
      BY <1>6, CatalogueCacheAssumptions DEF Begin, TypeInv, TypeOK
    <3>2. /\ told[p] <= db /\ told[p] \in Nat
          /\ told[p] > Covered => p \in pending
      BY <1>2, <3>1 DEF FreshInv, DirtyInv, TypeInv, TypeOK
    <3>3. Covered <= db
      BY <1>2 DEF Covered, FreshInv, CounterInv, TypeInv, TypeOK
    <3> QED
      BY <1>2, <3>1, <3>2, <3>3 DEF Newest
  <2>2. /\ req'[r].pc = IF HomeOf[r] \in pending THEN "retry" ELSE "gen"
        /\ req'[r].version = 0
        /\ page'[r] = {}
    BY <1>1, <1>6 DEF Begin, At, Goto, Owes, Job, TypeInv, TypeOK
  <2>3. Owes(r)' /\ StoredAfterItsGeneration'
    BY <1>2, <1>5, <1>6, <2>1, <2>2
    DEF Begin, Owes, Writing, FreshInv, StoredAfterItsGeneration
  <2> QED
    BY <1>4, <1>6, <2>2, <2>3 DEF Begin, FreshInv, CounterInv
<1>7. CASE Retry(r)
  <2> DEFINE p == HomeOf[r]
  <2>1. /\ p \in Process /\ Bump(p)
        /\ UNCHANGED <<db, index, entries, page, floor>>
    BY <1>7, CatalogueCacheAssumptions DEF Retry, Bump
  <2>2. /\ CounterInv' /\ StoredAfterItsGeneration' /\ DirtyInv'
        /\ Covered' >= Covered /\ top' \in Nat /\ top' >= top
        /\ \A x \in Gen : x <= top => base'[x] = base[x]
        /\ BumpSucceeds(p) => Covered' = db
    BY <2>1, BumpFresh
  <2>3. /\ req'[r].version = 0
        /\ \/ req'[r].pc = "gen" /\ BumpSucceeds(p)
           \/ req'[r].pc = "load"
    BY <1>1, <1>7 DEF Retry, At, Goto, Owes, Job
  <2>4. Owes(r)'
    BY <1>1, <1>2, <2>1, <2>2, <2>3 DEF Owes, Writing
  <2>5. RequestInv' /\ AnswersAreFresh'
    BY <1>1, <1>3, <2>1, <2>2, <2>4, RequestMoves
  <2> QED
    BY <2>2, <2>5 DEF FreshInv
<1>8. CASE SeedGeneration(r)
  <2>1. /\ req'[r].version = 0 /\ req'[r].pc = "regen"
        /\ floor[r] <= Covered
        /\ UNCHANGED <<db, index, entries, page, floor, told, pending>>
    BY <1>1, <1>8 DEF SeedGeneration, At, Goto, Owes, Job
  <2>2. CASE Move(Seed)
    <3>1. Seed \in Gen /\ Seed > top
      BY <1>2, <2>2 DEF Move, Seed
    <3>2. /\ CounterInv' /\ StoredAfterItsGeneration'
          /\ Covered' = db /\ Covered' >= Covered
          /\ top' \in Nat /\ top' >= top
          /\ \A x \in Gen : x <= top => base'[x] = base[x]
      BY <2>1, <2>2, <3>1, MoveFresh
    <3>3. DirtyInv'
      BY <1>2, <2>1, <3>2 DEF DirtyInv, FreshInv, TypeInv, TypeOK, Version
    <3>4. Owes(r)'
      BY <1>1, <1>2, <2>1, <3>2 DEF Owes, Writing
    <3>5. RequestInv' /\ AnswersAreFresh'
      BY <1>1, <1>3, <2>1, <3>2, <3>4, RequestMoves
    <3> QED
      BY <3>2, <3>3, <3>5 DEF FreshInv
  <2>3. CASE UNCHANGED <<gen, top, base>>
    <3>1. Owes(r)'
      BY <1>1, <1>2, <1>5, <2>1, <2>3 DEF Owes, Writing
    <3>2. StoredAfterItsGeneration'
      BY <2>1, <2>3 DEF FreshInv, StoredAfterItsGeneration
    <3> QED
      BY <1>1, <1>4, <1>8, <2>1, <2>3, <3>1, <3>2
      DEF SeedGeneration, FreshInv, CounterInv
  <2> QED
    BY <1>8, <2>2, <2>3 DEF SeedGeneration
<1>9. CASE ReadGeneration(r) \/ ReadSeeded(r)
  <2>1. /\ UNCHANGED <<db, index, entries, page, floor, procVars, genVars>>
        /\ job.version = 0 /\ floor[r] <= Covered
        /\ StoredAfterItsGeneration'
    BY <1>1, <1>9
    DEF ReadGeneration, ReadSeeded, At, Owes, FreshInv,
        StoredAfterItsGeneration
  <2>2. CASE Address(r)
    <3>1. /\ req'[r].version = top /\ req'[r].pc = "read"
          /\ top # 0 /\ Covered = base[top]
      BY <1>1, <2>2 DEF Address, Job, FreshInv, CounterInv, Covered
    <3>2. Owes(r)'
      BY <1>1, <1>2, <1>5, <2>1, <3>1 DEF Owes, Writing
    <3> QED
      BY <1>1, <1>4, <2>1, <3>2 DEF FreshInv, CounterInv
  <2>3. CASE Goto(r, "seed") \/ Goto(r, "load")
    <3>1. req'[r].version = 0 /\ req'[r].pc \in {"seed", "load"}
      BY <1>1, <2>1, <2>3 DEF Goto, Job
    <3>2. Owes(r)'
      BY <1>1, <1>2, <1>5, <2>1, <3>1 DEF Owes, Writing
    <3> QED
      BY <1>1, <1>4, <2>1, <3>2 DEF FreshInv, CounterInv
  <2> QED
    BY <1>9, <2>2, <2>3 DEF ReadGeneration, ReadSeeded
<1>10. CASE ReadIndex(r)
  <2>1. /\ UNCHANGED <<db, index, entries, page, floor, procVars, genVars>>
        /\ job.pc = "read" /\ job.version \in Gen
        /\ StoredAfterItsGeneration'
    BY <1>1, <1>10
    DEF ReadIndex, At, FreshInv, StoredAfterItsGeneration
  <2>2. /\ req'[r].version = job.version
        /\ \/ /\ req'[r].pc = "pick" /\ index[job.version] # 0
              /\ req'[r].picked = index[job.version]
           \/ req'[r].pc = "load"
    BY <1>1, <1>10 DEF ReadIndex, Goto, Job
  <2>3. Owes(r)'
    BY <1>1, <1>5, <2>1, <2>2
    DEF Owes, Writing, FreshInv, StoredAfterItsGeneration
  <2> QED
    BY <1>1, <1>4, <2>1, <2>3 DEF FreshInv, CounterInv
<1>11. ASSUME NEW P \in SUBSET Chunk, ReadEntries(r, P) PROVE FreshInv'
  <2> DEFINE hash == entries[job.version]
  <2>1. /\ UNCHANGED <<db, index, entries, floor, procVars, genVars>>
        /\ job.pc = "pick" /\ job.version \in Gen
        /\ floor[r] <= base[job.version] /\ job.picked >= base[job.version]
        /\ StoredAfterItsGeneration'
        /\ base[job.version] \in Nat /\ job.picked \in Nat
    <3>1. /\ UNCHANGED <<db, index, entries, floor, procVars, genVars>>
          /\ job.pc = "pick"
      BY <1>11 DEF ReadEntries, At
    <3>2. job.version \in Gen /\ job.version # 0 /\ job.picked \in Nat
      <4>1. job.version \in Gen /\ job.picked \in Version
        BY <1>1, <3>1
      <4> QED
        BY <4>1, CatalogueCacheAssumptions DEF Gen, Version
    <3>3. base[job.version] \in Nat
      BY <1>2, <3>2 DEF TypeInv, TypeOK
    <3> QED
      BY <1>1, <3>1, <3>2, <3>3
      DEF Owes, FreshInv, StoredAfterItsGeneration
  <2>2. \A v \in page'[r] : v >= floor[r]
    <3>1. CASE page' = page
      BY <1>1, <3>1
    <3>2. CASE /\ \A c \in P : hash[c] # 0
               /\ page' = [page EXCEPT ![r] =
                            {job.picked} \cup {hash[c] : c \in P}]
      <4>1. \A c \in P : hash[c] >= base[job.version] /\ hash[c] \in Nat
        <5>1. \A c \in P : c \in Chunk /\ hash[c] \in {0} \cup Version
          BY <2>1 DEF TypeInv, TypeOK
        <5> QED
          BY <1>2, <2>1, <3>2, <5>1 DEF FreshInv, StoredAfterItsGeneration
      <4>2. floor[r] \in Nat
        BY <1>2 DEF TypeInv, TypeOK
      <4>3. \A v \in {job.picked} \cup {hash[c] : c \in P} : v >= floor[r]
        BY <2>1, <4>1, <4>2
      <4> QED
        BY <3>2, <4>3 DEF TypeInv, TypeOK
    <3> QED
      BY <1>11, <3>1, <3>2 DEF ReadEntries
  <2>3. /\ req'[r].pc \in {"idle", "drop", "load"}
        /\ req'[r].version \in {0, job.version}
        /\ req'[r].pc = "idle" => req'[r].version = 0
    BY <1>1, <1>11, IdleIsAJob DEF ReadEntries, Leave, Goto, Job, Idle
  <2>4. Owes(r)'
    BY <1>1, <1>2, <1>5, <2>1, <2>3 DEF Owes, Writing
  <2> QED
    BY <1>4, <2>1, <2>2, <2>4 DEF FreshInv, CounterInv
<1>12. CASE DropSet(r)
  <2>1. /\ UNCHANGED <<db, page, floor, procVars, genVars>>
        /\ job.pc = "drop" /\ job.version \in Gen
        /\ req'[r].pc = "load" /\ req'[r].version = job.version
    BY <1>1, <1>12 DEF DropSet, At, Goto, Job
  <2>2. \A g \in Gen : /\ index'[g] \in {0, index[g]}
                        /\ \A c \in Chunk :
                             entries'[g][c] \in {0, entries[g][c]}
    BY <1>12 DEF DropSet, TypeInv, TypeOK
  <2>3. CounterInv' /\ StoredAfterItsGeneration'
    BY <2>1, <2>2, StillKeeps DEF StillCounter
  <2>4. Owes(r)'
    BY <1>1, <1>5, <2>1 DEF Owes, Writing
  <2> QED
    BY <1>1, <1>4, <2>1, <2>3, <2>4 DEF CounterInv
<1>13. CASE Load(r)
  <2>1. /\ UNCHANGED <<db, index, entries, floor, procVars, genVars>>
        /\ page'[r] = {db}
        /\ StoredAfterItsGeneration'
    BY <1>13
    DEF Load, TypeInv, TypeOK, FreshInv, StoredAfterItsGeneration
  <2>2. \/ /\ req'[r].version = job.version /\ job.version \in Gen
           /\ req'[r].pc = "index" /\ req'[r].set = db
        \/ req'[r].pc = "idle" /\ req'[r].version = 0
    <3>1. CASE Leave(r)
      BY <1>1, <3>1 DEF Leave, Idle
    <3>2. CASE /\ job.version # 0
               /\ req' = [req EXCEPT ![r] =
                            [@ EXCEPT !.set = db, !.pc = "index"]]
      BY <1>1, <3>2 DEF Job
    <3> QED
      BY <1>13, <3>1, <3>2 DEF Load
  <2>3. job.version \in Gen => base[job.version] <= db
    BY DEF FreshInv, CounterInv
  <2>4. Owes(r)'
    BY <1>1, <1>2, <1>5, <2>1, <2>2, <2>3 DEF Owes, Writing
  <2>5. \A v \in page'[r] : v >= floor'[r]
    BY <1>1, <1>2, <2>1 DEF Owes, TypeInv, TypeOK
  <2> QED
    BY <1>4, <2>1, <2>4, <2>5 DEF FreshInv, CounterInv
<1>14. CASE WriteIndex(r) \/ WriteDel(r) \/ WriteChunk(r) \/ WriteBreaks(r)
  <2>1. /\ UNCHANGED <<db, page, floor, procVars, genVars>>
        /\ job.pc \in Writing /\ job.version \in Gen /\ job.set \in Version
        /\ job.set >= base[job.version] /\ job.version <= top
    BY <1>1, <1>14
    DEF WriteIndex, WriteDel, WriteChunk, WriteBreaks, At, Writing, Owes
  <2>2. \/ req'[r].pc = "idle" /\ req'[r].version = 0
        \/ /\ req'[r].version = job.version
           /\ req'[r].set = job.set
           /\ req'[r].pc \in Writing
    BY <1>1, <1>14
    DEF WriteIndex, WriteDel, WriteChunk, WriteBreaks, At, Leave, Goto, Idle,
        Job, Writing
  <2>3. Owes(r)'
    <3>1. job.version # 0 /\ req'[r].pc \in Writing \cup {"idle"}
      BY <2>1, <2>2 DEF Gen
    <3> QED
      BY <1>1, <1>2, <2>1, <2>2, <3>1 DEF Owes, Writing
  <2>4. \A g \in Gen :
          /\ \/ index'[g] \in {0, index[g]}
             \/ g = job.version /\ index'[g] = job.set
          /\ \A c \in Chunk :
               \/ entries'[g][c] \in {0, entries[g][c]}
               \/ g = job.version /\ entries'[g][c] = job.set
    BY <1>14, <2>1
    DEF WriteIndex, WriteDel, WriteChunk, WriteBreaks, TypeInv, TypeOK
  <2>5. StoredAfterItsGeneration'
    BY <2>1, <2>4 DEF FreshInv, StoredAfterItsGeneration
  <2>6. \A g \in Gen : g > top =>
          /\ index'[g] = 0 /\ \A c \in Chunk : entries'[g][c] = 0
    BY <1>2, <2>1, <2>4 DEF FreshInv, CounterInv, Gen
  <2> QED
    BY <1>1, <1>4, <2>1, <2>3, <2>5, <2>6
<1> QED
  BY <1>6, <1>7, <1>8, <1>9, <1>10, <1>11, <1>12, <1>13, <1>14
  DEF RequestStep

LEMMA FreshNext == TypeInv /\ TypeInv' /\ FreshInv /\ [Next]_vars => FreshInv'
<1> SUFFICES ASSUME TypeInv, TypeInv', FreshInv, [Next]_vars PROVE FreshInv'
  OBVIOUS
<1> USE DEF dbVars, procVars, genVars, storeVars, reqVars
<1>1. ASSUME StillCounter, UNCHANGED <<pending, told, reqVars>>,
             \A g \in Gen : /\ index'[g] \in {0, index[g]}
                            /\ \A c \in Chunk :
                                 entries'[g][c] \in {0, entries[g][c]}
      PROVE  FreshInv'
  <2>1. CounterInv' /\ StoredAfterItsGeneration' /\ Covered' = Covered
    BY <1>1, StillKeeps
  <2>2. DirtyInv' /\ RequestInv' /\ AnswersAreFresh'
    BY <1>1, <2>1
    DEF StillCounter, FreshInv, DirtyInv, RequestInv, Owes, AnswersAreFresh
  <2> QED
    BY <2>1, <2>2 DEF FreshInv
<1>2. ASSUME NEW g \in Gen, IndexExpires(g) \/ EntriesExpire(g)
      PROVE  FreshInv'
  BY <1>1, <1>2
  DEF IndexExpires, EntriesExpire, StillCounter, TypeInv, TypeOK
<1>3. CASE LateBump
  <2> PICK g \in Gen : Move(g) /\ g > top
    BY <1>3, IncrementMoves DEF LateBump
  <2>1. /\ CounterInv' /\ StoredAfterItsGeneration'
        /\ Covered' = db /\ Covered' >= Covered
        /\ top' \in Nat /\ top' >= top
        /\ \A x \in Gen : x <= top => base'[x] = base[x]
    BY <1>3, MoveFresh DEF LateBump
  <2>2. Covered \in Nat /\ Covered' \in Nat /\ db' \in Nat /\ db' >= db
    BY <1>3, CoveredIsAVersion, CoveredIsAVersionNext
    DEF LateBump, TypeInv, TypeOK, Version
  <2>3. DirtyInv'
    BY <1>3, <2>1, <2>2
    DEF LateBump, DirtyInv, FreshInv, TypeInv, TypeOK, Version
  <2>4. RequestInv'
    BY <1>3, <2>1, <2>2, RequestsWait DEF LateBump, RequestInv
  <2>5. AnswersAreFresh'
    BY <1>3 DEF LateBump, AnswersAreFresh, FreshInv
  <2> QED
    BY <2>1, <2>3, <2>4, <2>5 DEF FreshInv
<1>4. CASE Evict
  <2>1. Covered' = Covered
    BY <1>4 DEF Evict, Covered
  <2> QED
    BY <1>4, <2>1
    DEF Evict, FreshInv, CounterInv, DirtyInv, StoredAfterItsGeneration,
        RequestInv, Owes, AnswersAreFresh
<1>5. CASE UNCHANGED vars
  <2>1. Covered' = Covered
    BY <1>5 DEF vars, Covered
  <2> QED
    BY <1>5, <2>1
    DEF vars, FreshInv, CounterInv, DirtyInv, StoredAfterItsGeneration,
        RequestInv, Owes, AnswersAreFresh
<1> QED
  BY <1>2, <1>3, <1>4, <1>5, ProcessFresh, RequestFresh DEF Next

LEMMA FreshCorrect == Spec => [](TypeInv /\ FreshInv)
<1>1. Init => TypeInv /\ FreshInv
  BY TypeInit, FreshInit
<1>2. TypeInv /\ FreshInv /\ [Next]_vars => (TypeInv /\ FreshInv)'
  BY TypeNext, FreshNext
<1> QED
  BY <1>1, <1>2, PTL DEF Spec

\* No answer is older than the last bump anybody sent, or the request's own
\* process tried to send, before the request: bumps that fail, come late or
\* find the counter evicted included.
THEOREM Freshness == Spec => []AnswersAreFresh
<1>1. FreshInv => AnswersAreFresh
  BY DEF FreshInv
<1> QED
  BY FreshCorrect, <1>1, PTL

\* Nothing is ever stored under a generation that was loaded before it began.
THEOREM StoredFresh == Spec => []StoredAfterItsGeneration
<1>1. FreshInv => StoredAfterItsGeneration
  BY DEF FreshInv
<1> QED
  BY FreshCorrect, <1>1, PTL

\* An attempt to bump that has reached nobody so far is outstanding at the
\* process that made it: only its siblings can be without the knowledge.
FailuresAreKnown == \A p \in Process : told[p] > Covered => p \in pending

\* As long as it lives, a process that tried to bump knows whether what it told
\* of has been covered by a bump since (bump, usableGeneration).
THEOREM OwnFailuresAreKnown == Spec => []FailuresAreKnown
<1>1. FreshInv => FailuresAreKnown
  BY DEF FreshInv, DirtyInv, FailuresAreKnown
<1> QED
  BY FreshCorrect, <1>1, PTL

-----------------------------------------------------------------------------
(* A cache that is read like a catalogue *)

\* Where a request has its answer, or has not asked yet.
Answered == {"idle"} \cup Writing

\* Nothing stored, read or loaded is of a version to come, and a request has
\* no answer before it has one to give.
PastInv ==
  /\ \A g \in Gen : index[g] <= db /\ \A c \in Chunk : entries[g][c] <= db
  /\ \A r \in Request :
       /\ req[r].picked <= db /\ req[r].set <= db
       /\ req[r].pc \notin Answered => page[r] = {}

LEMMA PastInit == Init => PastInv
<1> SUFFICES ASSUME Init PROVE PastInv
  OBVIOUS
<1>1. Idle.pc = "idle" /\ Idle.picked = 0 /\ Idle.set = 0
  BY DEF Idle
<1> QED
  BY <1>1 DEF Init, PastInv, Answered

\* The fields of a record after each kind of edit.
LEMMA JobParts ==
  ASSUME TypeInv, NEW r \in Request
  PROVE  /\ req \in [Request -> Job]
         /\ req[r].picked \in {0} \cup Version
         /\ req[r].set \in {0} \cup Version
         /\ req[r].version \in {0} \cup Gen
         /\ db \in Nat /\ Version \subseteq Nat
BY CatalogueCacheAssumptions DEF TypeInv, TypeOK, Job, Version

LEMMA GotoParts ==
  ASSUME TypeInv, NEW r \in Request, NEW s \in Step, Goto(r, s)
  PROVE  /\ req'[r].pc = s
         /\ req'[r].picked = req[r].picked /\ req'[r].set = req[r].set
         /\ \A q \in Request \ {r} : req'[q] = req[q]
<1>1. req' = [req EXCEPT ![r].pc = s] /\ req \in [Request -> Job]
  BY GotoKept, JobParts DEF TypeInv
<1>2. req[r] \in Job
  BY <1>1
<1> QED
  BY <1>1, <1>2 DEF Job

LEMMA LeaveParts ==
  ASSUME TypeInv, NEW r \in Request, Leave(r)
  PROVE  /\ req'[r].pc = "idle"
         /\ req'[r].picked = 0 /\ req'[r].set = 0
         /\ \A q \in Request \ {r} : req'[q] = req[q]
<1>1. req' = [req EXCEPT ![r] = Idle] /\ req \in [Request -> Job]
  BY LeaveKept, JobParts DEF TypeInv
<1>2. Idle.pc = "idle" /\ Idle.picked = 0 /\ Idle.set = 0
  BY DEF Idle
<1> QED
  BY <1>1, <1>2

\* What is left to show of a step of request r.
LEMMA PastMoves ==
  ASSUME PastInv, NEW r \in Request, UNCHANGED db,
         \A q \in Request \ {r} : req'[q] = req[q] /\ page'[q] = page[q],
         req'[r].picked <= db /\ req'[r].set <= db,
         req'[r].pc \notin Answered => page'[r] = {},
         \A g \in Gen : index'[g] <= db /\ \A c \in Chunk : entries'[g][c] <= db
  PROVE  PastInv'
BY DEF PastInv

\* A step of request r that goes on to another place.
LEMMA PastGoto ==
  ASSUME TypeInv, PastInv, NEW r \in Request, NEW s \in Step, Goto(r, s),
         s \in Answered \/ page'[r] = {},
         UNCHANGED db, \A q \in Request \ {r} : page'[q] = page[q],
         \A g \in Gen : index'[g] <= db /\ \A c \in Chunk : entries'[g][c] <= db
  PROVE  PastInv'
<1>1. /\ req'[r].pc = s
      /\ req'[r].picked <= db /\ req'[r].set <= db
      /\ \A q \in Request \ {r} : req'[q] = req[q]
  BY GotoParts DEF PastInv
<1> QED
  BY <1>1, PastMoves

LEMMA PastLeave ==
  ASSUME TypeInv, PastInv, NEW r \in Request, Leave(r),
         UNCHANGED db, \A q \in Request \ {r} : page'[q] = page[q],
         \A g \in Gen : index'[g] <= db /\ \A c \in Chunk : entries'[g][c] <= db
  PROVE  PastInv'
<1>1. /\ req'[r].pc \in Answered
      /\ req'[r].picked <= db /\ req'[r].set <= db
      /\ \A q \in Request \ {r} : req'[q] = req[q]
  BY LeaveParts, JobParts DEF Answered
<1> QED
  BY <1>1, PastMoves

LEMMA PastRequest ==
  ASSUME TypeInv, PastInv, NEW r \in Request, RequestStep(r)
  PROVE  PastInv'
<1> USE DEF dbVars, procVars, genVars, storeVars, reqVars
<1> DEFINE Kept == \A g \in Gen :
                     index'[g] <= db /\ \A c \in Chunk : entries'[g][c] <= db
<1>0. /\ db \in Nat /\ page \in [Request -> SUBSET Version]
      /\ UNCHANGED storeVars => Kept
      /\ \A s \in Step : s \notin Answered => (req[r].pc = s => page[r] = {})
  BY JobParts DEF TypeInv, TypeOK, PastInv
<1> HIDE DEF Kept
<1>1. ASSUME UNCHANGED <<db, storeVars, page>>, req[r].pc \notin Answered,
             NEW s \in Step, Goto(r, s)
      PROVE  PastInv'
  <2>1. page'[r] = {}
    BY <1>1 DEF PastInv
  <2> QED
    BY <1>0, <1>1, <2>1, PastGoto DEF Kept
<1>2. CASE Begin(r)
  <2>1. PICK s \in {"retry", "gen"} : Goto(r, s)
    BY <1>2 DEF Begin
  <2>2. page' = [page EXCEPT ![r] = {}] /\ UNCHANGED <<db, storeVars>>
    BY <1>2 DEF Begin
  <2>3. page'[r] = {} /\ \A q \in Request \ {r} : page'[q] = page[q]
    BY <1>0, <2>2
  <2> QED
    BY <1>0, <2>1, <2>2, <2>3, PastGoto DEF Kept, Step
<1>3. CASE Retry(r) \/ SeedGeneration(r)
  <2>1. \E s \in {"gen", "load", "regen"} : Goto(r, s)
    BY <1>3 DEF Retry, SeedGeneration
  <2>2. /\ UNCHANGED <<db, storeVars, page>>
        /\ req[r].pc \notin Answered
    BY <1>3 DEF Retry, SeedGeneration, At, Answered, Writing
  <2> QED
    BY <1>1, <2>1, <2>2 DEF Step
<1>4. CASE ReadGeneration(r) \/ ReadSeeded(r)
  <2>1. /\ UNCHANGED <<db, storeVars, page>>
        /\ req[r].pc \notin Answered
    BY <1>4 DEF ReadGeneration, ReadSeeded, At, Answered, Writing
  <2>2. CASE \E s \in {"seed", "load"} : Goto(r, s)
    BY <1>1, <2>1, <2>2 DEF Step
  <2>3. CASE Address(r)
    <3>1. req' = [req EXCEPT ![r] = [@ EXCEPT !.version = gen, !.pc = "read"]]
      BY <2>3 DEF Address
    <3>2. req \in [Request -> Job] /\ req[r] \in Job
      BY JobParts
    <3>3. /\ req'[r].picked = req[r].picked /\ req'[r].set = req[r].set
          /\ \A q \in Request \ {r} : req'[q] = req[q]
      BY <3>1, <3>2 DEF Job
    <3>4. page'[r] = {} /\ req[r].picked <= db /\ req[r].set <= db
      BY <2>1 DEF PastInv
    <3> QED
      BY <1>0, <2>1, <3>3, <3>4, PastMoves DEF Kept
  <2> QED
    BY <1>4, <2>2, <2>3 DEF ReadGeneration, ReadSeeded
<1>5. CASE ReadIndex(r)
  <2> DEFINE found == index[req[r].version]
  <2>1. /\ UNCHANGED <<db, storeVars, page>>
        /\ req[r].pc = "read" /\ req[r].pc \notin Answered
    BY <1>5 DEF ReadIndex, At, Answered, Writing
  <2>2. CASE Goto(r, "load")
    BY <1>1, <2>1, <2>2 DEF Step
  <2>3. CASE req' = [req EXCEPT ![r] = [@ EXCEPT !.picked = found, !.pc = "pick"]]
    <3>1. req \in [Request -> Job] /\ req[r] \in Job
      BY JobParts
    <3>2. /\ req'[r].picked = found /\ req'[r].set = req[r].set
          /\ \A q \in Request \ {r} : req'[q] = req[q]
      BY <2>3, <3>1 DEF Job
    <3>3. found <= db
      BY <2>1 DEF PastInv, TypeInv, JobsInOrder
    <3>4. page'[r] = {} /\ req[r].set <= db
      BY <2>1 DEF PastInv
    <3> QED
      BY <1>0, <2>1, <3>2, <3>3, <3>4, PastMoves DEF Kept
  <2> QED
    BY <1>5, <2>2, <2>3 DEF ReadIndex
<1>6. ASSUME NEW P \in SUBSET Chunk, ReadEntries(r, P) PROVE PastInv'
  <2>1. /\ UNCHANGED <<db, storeVars>>
        /\ req[r].pc \notin Answered
    BY <1>6 DEF ReadEntries, At, Answered, Writing
  <2>2. CASE UNCHANGED page /\ \E s \in {"drop", "load"} : Goto(r, s)
    BY <1>1, <2>1, <2>2 DEF Step
  <2>3. CASE Leave(r) /\ \A q \in Request \ {r} : page'[q] = page[q]
    BY <1>0, <2>1, <2>3, PastLeave DEF Kept
  <2> QED
    BY <1>0, <1>6, <2>2, <2>3 DEF ReadEntries
<1>7. CASE DropSet(r)
  <2>1. /\ UNCHANGED <<db, page>> /\ Goto(r, "load")
        /\ req[r].pc \notin Answered
    BY <1>7 DEF DropSet, At, Answered, Writing
  <2>2. ASSUME NEW g \in Gen
        PROVE  index'[g] \in {0, index[g]}
               /\ \A c \in Chunk : entries'[g][c] \in {0, entries[g][c]}
    BY <1>7 DEF DropSet, TypeInv, TypeOK
  <2>3. Kept
    BY <1>0, <2>2 DEF PastInv, Kept
  <2>4. page'[r] = {}
    BY <2>1 DEF PastInv
  <2> QED
    BY <2>1, <2>3, <2>4, PastGoto DEF Kept, Step
<1>8. CASE Load(r)
  <2>1. UNCHANGED <<db, storeVars>> /\ page' = [page EXCEPT ![r] = {db}]
    BY <1>8 DEF Load
  <2>2. \A q \in Request \ {r} : page'[q] = page[q]
    BY <1>0, <2>1
  <2>3. CASE Leave(r)
    BY <1>0, <2>1, <2>2, <2>3, PastLeave DEF Kept
  <2>4. CASE req' = [req EXCEPT ![r] = [@ EXCEPT !.set = db, !.pc = "index"]]
    <3>1. req \in [Request -> Job] /\ req[r] \in Job
      BY JobParts
    <3>2. /\ req'[r].pc = "index" /\ req'[r].picked = req[r].picked
          /\ req'[r].set = db
          /\ \A q \in Request \ {r} : req'[q] = req[q]
      BY <2>4, <3>1 DEF Job
    <3>3. req'[r].pc \in Answered /\ req[r].picked <= db
      BY <3>2 DEF Answered, Writing, PastInv
    <3> QED
      BY <1>0, <2>1, <2>2, <3>2, <3>3, PastMoves DEF Kept
  <2> QED
    BY <1>8, <2>3, <2>4 DEF Load
<1>9. CASE WriteIndex(r) \/ WriteDel(r)
  <2>1. /\ req[r].pc \in Writing /\ UNCHANGED <<db, page>>
        /\ \E s \in {"del", "chunk"} : Goto(r, s)
    BY <1>9 DEF WriteIndex, WriteDel, At, Writing
  <2>2. req[r].version \in Gen /\ req[r].set <= db
    BY <2>1 DEF TypeInv, JobsInOrder, PastInv
  <2>3. ASSUME NEW g \in Gen
        PROVE  index'[g] \in {req[r].set, index[g]}
               /\ \A c \in Chunk : entries'[g][c] \in {0, entries[g][c]}
    BY <1>9, <2>2 DEF WriteIndex, WriteDel, TypeInv, TypeOK
  <2>4. Kept
    BY <1>0, <2>2, <2>3 DEF PastInv, Kept
  <2> QED
    BY <2>1, <2>4, PastGoto DEF Kept, Step, Answered, Writing
<1>10. CASE WriteChunk(r)
  <2> DEFINE c == req[r].wrote + 1
  <2>1. /\ req[r].pc = "chunk" /\ UNCHANGED <<db, index, page>>
        /\ entries' = [entries EXCEPT ![req[r].version][c] = req[r].set]
        /\ IF c = NChunk THEN Leave(r) ELSE req' = [req EXCEPT ![r].wrote = c]
    BY <1>10 DEF WriteChunk, At
  <2>2. req[r].version \in Gen /\ req[r].set <= db
    BY <2>1 DEF TypeInv, JobsInOrder, PastInv, Writing
  <2> HIDE DEF c
  <2>3. ASSUME NEW g \in Gen, NEW x \in Chunk
        PROVE  entries'[g][x] \in {req[r].set, entries[g][x]}
    BY <2>1, <2>2 DEF TypeInv, TypeOK
  <2>4. Kept
    BY <2>1, <2>2, <2>3 DEF PastInv, Kept
  <2>5. CASE Leave(r)
    BY <2>1, <2>4, <2>5, PastLeave DEF Kept
  <2>6. CASE req' = [req EXCEPT ![r].wrote = c]
    <3>1. req \in [Request -> Job] /\ req[r] \in Job
      BY JobParts
    <3>2. /\ req'[r].pc = req[r].pc /\ req'[r].picked = req[r].picked
          /\ req'[r].set = req[r].set
          /\ \A q \in Request \ {r} : req'[q] = req[q]
      BY <2>6, <3>1 DEF Job
    <3>3. req'[r].pc \in Answered /\ req[r].picked <= db
      BY <2>1, <3>2 DEF Answered, Writing, PastInv
    <3> QED
      BY <2>1, <2>2, <2>4, <3>2, <3>3, PastMoves DEF Kept
  <2> QED
    BY <2>1, <2>5, <2>6
<1>11. CASE WriteBreaks(r)
  BY <1>0, <1>11, PastLeave DEF WriteBreaks, Kept
<1> QED
  BY <1>2, <1>3, <1>4, <1>5, <1>6, <1>7, <1>8, <1>9, <1>10, <1>11
  DEF RequestStep

LEMMA PastNext == TypeInv /\ PastInv /\ [Next]_vars => PastInv'
<1> SUFFICES ASSUME TypeInv, PastInv, [Next]_vars PROVE PastInv'
  OBVIOUS
<1> USE DEF dbVars, procVars, genVars, storeVars, reqVars
<1>1. db \in Nat
  BY CatalogueCacheAssumptions DEF TypeInv, TypeOK, Version
<1>2. ASSUME db' >= db, db' \in Nat, UNCHANGED <<storeVars, page, req>>
      PROVE  PastInv'
  <2>1. \A g \in Gen : /\ index[g] \in Nat
                       /\ \A c \in Chunk : entries[g][c] \in Nat
    BY CatalogueCacheAssumptions DEF TypeInv, TypeOK, Version
  <2>2. \A r \in Request : req[r].picked \in Nat /\ req[r].set \in Nat
    BY JobParts
  <2> QED
    BY <1>1, <1>2, <2>1, <2>2 DEF PastInv
<1>3. ASSUME NEW p \in Process, Boot(p) \/ AfterCommit(p) PROVE PastInv'
  BY <1>1, <1>2, <1>3 DEF Boot, AfterCommit
<1>4. ASSUME NEW p \in Process, Commit(p) PROVE PastInv'
  BY <1>1, <1>2, <1>4 DEF Commit
<1>5. ASSUME NEW p \in Process, Crash(p) PROVE PastInv'
  <2>1. Idle.pc = "idle" /\ Idle.picked = 0 /\ Idle.set = 0
    BY DEF Idle
  <2>2. /\ UNCHANGED <<db, storeVars, page>>
        /\ \A r \in Request : req'[r] \in {Idle, req[r]}
    BY <1>5 DEF Crash
  <2> QED
    BY <1>1, <2>1, <2>2 DEF PastInv, Answered
<1>6. ASSUME NEW g \in Gen, IndexExpires(g) \/ EntriesExpire(g) PROVE PastInv'
  <2>1. /\ UNCHANGED <<db, page, req>>
        /\ \A x \in Gen : /\ index'[x] \in {0, index[x]}
                          /\ \A c \in Chunk : entries'[x][c] \in {0, entries[x][c]}
    BY <1>6 DEF IndexExpires, EntriesExpire, TypeInv, TypeOK
  <2> QED
    BY <1>1, <2>1 DEF PastInv
<1>7. CASE LateBump \/ Evict
  BY <1>1, <1>2, <1>7 DEF LateBump, Evict
<1>8. CASE UNCHANGED vars
  BY <1>1, <1>2, <1>8 DEF vars
<1> QED
  BY <1>3, <1>4, <1>5, <1>6, <1>7, <1>8, PastRequest DEF Next, ProcessStep

-----------------------------------------------------------------------------
(* Each step is one of FreshReads *)

LEMMA ReadsStart == Init => Reads!FreshInit
BY DEF Init, Covered, Reads!FreshInit

\* An attempt to bump is an attempt to announce.
LEMMA ReadsTry ==
  ASSUME TypeInv, FreshInv, NEW p \in Process, Bump(p),
         UNCHANGED <<db, floor, page, index, entries>>
  PROVE  Reads!Try(p)
<1>1. CASE BumpSucceeds(p)
  <2>1. Covered' = db
    BY <1>1, BumpFresh
  <2> QED
    BY <1>1, <2>1 DEF BumpSucceeds, Reads!Try
<1>2. CASE BumpFails(p)
  BY <1>2 DEF BumpFails, Covered, Reads!Try
<1> QED
  BY <1>1, <1>2 DEF Bump

\* A move of the counter announces all there is.
LEMMA ReadsAnnounce ==
  ASSUME TypeInv, FreshInv, NEW g, Move(g), g > top,
         UNCHANGED <<db, told, floor, page, index, entries>>
  PROVE  Reads!Announce
<1>1. Covered' = db
  BY MoveFresh
<1> QED
  BY <1>1 DEF Reads!Announce

LEMMA ReadsKept ==
  ASSUME UNCHANGED <<db, top, base, told, floor, page>>
  PROVE  UNCHANGED Reads!reads
BY DEF Reads!reads, Covered

\* An answer is made of what the request was due, and of nothing to come.
LEMMA ReadsAnswer ==
  ASSUME TypeInv, PastInv, AnswersAreFresh', NEW r \in Request,
         req[r].pc \notin Answered, UNCHANGED <<db, top, base, told, floor>>,
         NEW A, A # {}, page' = [page EXCEPT ![r] = A], A \subseteq Version,
         \A v \in A : v <= db
  PROVE  Reads!Answer(r)
<1>1. page'[r] = A /\ page[r] = {}
  BY DEF PastInv, TypeInv, TypeOK
<1>2. \A v \in A : v >= floor[r]
  BY <1>1 DEF AnswersAreFresh
<1>3. \A v \in A : v \in Nat /\ floor[r] \in Nat
  BY CatalogueCacheAssumptions DEF TypeInv, TypeOK, Version
<1>4. Covered' = Covered
  BY DEF Covered
<1>5. \A v \in A : floor[r] <= v /\ v <= db
  BY <1>2, <1>3
<1> QED
  BY <1>1, <1>4, <1>5 DEF Reads!Answer

LEMMA ReadsRequest ==
  ASSUME TypeInv, FreshInv, PastInv, AnswersAreFresh',
         NEW r \in Request, RequestStep(r)
  PROVE  Reads!FreshNext \/ UNCHANGED Reads!reads
<1> USE DEF dbVars, procVars, genVars, storeVars, reqVars
<1>0. HomeOf[r] \in Process
  BY CatalogueCacheAssumptions
<1>1. CASE Begin(r)
  <2>1. Covered' = Covered
    BY <1>1 DEF Begin, Covered
  <2>2. Reads!Ask(r)
    BY <1>1, <2>1 DEF Begin, Newest, Reads!Ask, Reads!Later
  <2> QED
    BY <2>2 DEF Reads!FreshNext
<1>2. CASE Retry(r)
  <2>1. Reads!Try(HomeOf[r])
    BY <1>0, <1>2, ReadsTry DEF Retry, Bump
  <2> QED
    BY <1>0, <2>1 DEF Reads!FreshNext
<1>3. CASE SeedGeneration(r)
  <2>1. CASE Move(Seed)
    <3>1. Seed > top
      BY CatalogueCacheAssumptions DEF Seed, TypeInv, TypeOK, Gen
    <3>2. Reads!Announce
      BY <1>3, <2>1, <3>1, ReadsAnnounce DEF SeedGeneration
    <3> QED
      BY <3>2 DEF Reads!FreshNext
  <2>2. CASE UNCHANGED <<gen, top, base>>
    BY <1>3, <2>2, ReadsKept DEF SeedGeneration
  <2> QED
    BY <1>3, <2>1, <2>2 DEF SeedGeneration
<1>4. ASSUME NEW P \in SUBSET Chunk, ReadEntries(r, P)
      PROVE  Reads!FreshNext \/ UNCHANGED Reads!reads
  <2> DEFINE hash == entries[req[r].version]
             A == {req[r].picked} \cup {hash[c] : c \in P}
  <2>1. /\ req[r].pc = "pick" /\ req[r].pc \notin Answered
        /\ UNCHANGED <<db, top, base, told, floor>>
    BY <1>4 DEF ReadEntries, At, Answered, Writing
  <2>2. CASE UNCHANGED page
    BY <2>1, <2>2, ReadsKept
  <2>3. CASE page' = [page EXCEPT ![r] = A] /\ \A c \in P : hash[c] # 0
    <3>1. /\ req[r].version \in Gen
          /\ req[r].picked \in Version /\ req[r].picked <= db
      BY <2>1 DEF TypeInv, JobsInOrder, PastInv
    <3>2. \A c \in P : hash[c] \in Version /\ hash[c] <= db
      BY <2>3, <3>1 DEF TypeInv, TypeOK, PastInv
    <3>3. A # {} /\ A \subseteq Version /\ \A v \in A : v <= db
      BY <3>1, <3>2
    <3> HIDE DEF A
    <3>4. Reads!Answer(r)
      BY <2>1, <2>3, <3>3, ReadsAnswer
    <3> QED
      BY <3>4 DEF Reads!FreshNext
  <2> QED
    BY <1>4, <2>2, <2>3 DEF ReadEntries
<1>5. CASE Load(r)
  <2>1. /\ req[r].pc \notin Answered
        /\ UNCHANGED <<db, top, base, told, floor>>
        /\ page' = [page EXCEPT ![r] = {db}]
    BY <1>5 DEF Load, At, Answered, Writing
  <2>2. {db} # {} /\ {db} \subseteq Version /\ \A v \in {db} : v <= db
    BY JobParts DEF TypeInv, TypeOK
  <2>3. Reads!Answer(r)
    BY <2>1, <2>2, ReadsAnswer
  <2> QED
    BY <2>3 DEF Reads!FreshNext
<1>6. CASE \/ ReadGeneration(r) \/ ReadSeeded(r) \/ ReadIndex(r) \/ DropSet(r)
           \/ WriteIndex(r) \/ WriteDel(r) \/ WriteChunk(r) \/ WriteBreaks(r)
  BY <1>6, ReadsKept
  DEF ReadGeneration, ReadSeeded, ReadIndex, DropSet, WriteIndex, WriteDel,
      WriteChunk, WriteBreaks
<1> QED
  BY <1>1, <1>2, <1>3, <1>4, <1>5, <1>6 DEF RequestStep

LEMMA ReadsStep ==
  TypeInv /\ FreshInv /\ PastInv /\ AnswersAreFresh' /\ [Next]_vars
    => [Reads!FreshNext]_(Reads!reads)
<1> SUFFICES ASSUME TypeInv, FreshInv, PastInv, AnswersAreFresh', [Next]_vars
             PROVE  Reads!FreshNext \/ UNCHANGED Reads!reads
  OBVIOUS
<1> USE DEF dbVars, procVars, genVars, storeVars, reqVars
<1>1. ASSUME NEW p \in Process, Boot(p) \/ AfterCommit(p) PROVE Reads!FreshNext
  <2>1. Reads!Try(p)
    BY <1>1, ReadsTry DEF Boot, AfterCommit
  <2> QED
    BY <2>1 DEF Reads!FreshNext
<1>2. ASSUME NEW p \in Process, Crash(p) PROVE Reads!FreshNext
  <2>1. Covered' = Covered
    BY <1>2 DEF Crash, Covered
  <2>2. Reads!Forget(p)
    BY <1>2, <2>1 DEF Crash, Reads!Forget
  <2> QED
    BY <2>2 DEF Reads!FreshNext
<1>3. ASSUME NEW p \in Process, Commit(p) PROVE Reads!FreshNext
  <2>1. Covered' = Covered
    BY <1>3 DEF Commit, Covered
  <2> QED
    BY <1>3, <2>1 DEF Commit, Reads!Write, Reads!FreshNext
<1>4. CASE LateBump
  <2>1. PICK g \in Gen : Move(g) /\ g > top
    BY <1>4, IncrementMoves DEF LateBump
  <2>2. Reads!Announce
    BY <1>4, <2>1, ReadsAnnounce DEF LateBump
  <2> QED
    BY <2>2 DEF Reads!FreshNext
<1>5. CASE Evict \/ \E g \in Gen : IndexExpires(g) \/ EntriesExpire(g)
  BY <1>5, ReadsKept DEF Evict, IndexExpires, EntriesExpire
<1>6. CASE UNCHANGED vars
  BY <1>6, ReadsKept DEF vars
<1> QED
  BY <1>1, <1>2, <1>3, <1>4, <1>5, <1>6, ReadsRequest DEF Next, ProcessStep

\* For any number of processes, requests, chunks and generations, the cache is
\* read like a catalogue that is as fresh as the bumps before the request
\* (getOrCompute, getPage, bump, readGeneration, writeSet).
THEOREM ReadLikeTheCatalogue == Spec => ImplementsReads
<1>1. FreshInv => AnswersAreFresh
  BY DEF FreshInv
<1>2. TypeInv /\ FreshInv /\ PastInv /\ [Next]_vars
        => (TypeInv /\ FreshInv /\ PastInv)'
  BY TypeNext, FreshNext, PastNext
<1>3. FreshInv' => AnswersAreFresh'
  BY DEF FreshInv
<1> QED
  BY <1>2, <1>3, TypeInit, FreshInit, PastInit, ReadsStart, ReadsStep, PTL
  DEF Spec, ImplementsReads, Reads!FreshSpec

=============================================================================
