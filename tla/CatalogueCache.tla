---------------------------- MODULE CatalogueCache ----------------------------
(***************************************************************************)
(* The version-keyed catalogue cache: a generation counter in Valkey, sets *)
(* stored under the generation their reader saw, and the bump every writer *)
(* sends once its transaction has committed.  Several API processes share  *)
(* the database and the Valkey instance; what a process knows of failed    *)
(* bumps (`pending`) is its own.                                           *)
(*                                                                         *)
(* A set is an index and a hash of entries, the hash written in chunks.    *)
(* A value is modelled by the version of the catalogue it was built from:  *)
(* versions and generations are positive, 0 is the absence of either.      *)
(***************************************************************************)
EXTENDS Naturals, FiniteSets

CONSTANTS
  Process,    \* API processes
  Request,    \* requests in flight
  HomeOf,     \* [Request -> Process]: the process that serves it
  NChunk,     \* HSETs it takes to write a set's entries
  MaxWrite,   \* bound: versions the catalogue may reach
  MaxGen,     \* bound: generations the counter may reach
  Faults      \* which of FaultKinds may happen

FaultKinds == {
  "valkey",  \* a command may fail, or time out and be executed later
  "evict",   \* the generation key may be deleted or evicted
  "crash"    \* a process may die and boot again
}

ASSUME CatalogueCacheAssumptions ==
  /\ HomeOf \in [Request -> Process]
  /\ NChunk \in Nat \ {0}
  /\ MaxWrite \in Nat \ {0}
  /\ MaxGen \in Nat \ {0}
  /\ Faults \subseteq FaultKinds

Chunk   == 1..NChunk
Version == 1..MaxWrite
Gen     == 1..MaxGen

VARIABLES
  db,        \* the committed version of the catalogue
  up,        \* the processes that are serving
  hooks,     \* after-commit bumps each process has yet to send
  pending,   \* the processes whose last bump failed
  gen,       \* the generation counter
  late,      \* a bump that timed out is still on its way to Valkey
  index,     \* the index stored under each generation
  entries,   \* the hash stored under each generation, by chunk
  req,       \* where each request is, see Idle
  page,      \* the versions each request's last answer was made of
  top,       \* history: the greatest generation there has been
  base,      \* history: the version when each generation began
  told,      \* history: the version when each process last tried to bump
  floor      \* history: what each request, when it began, had to be up to

dbVars    == <<db, hooks>>
procVars  == <<up, pending, told>>
genVars   == <<gen, late, top, base>>
storeVars == <<index, entries>>
reqVars   == <<req, page, floor>>

vars == <<dbVars, procVars, genVars, storeVars, reqVars>>

\* What a request does next; the last three are a set's write.
Writing == {"index", "del", "chunk"}

Step ==
  {"idle", "retry", "gen", "seed", "regen", "read", "pick", "drop", "load"}
    \cup Writing

Idle == [
  pc |-> "idle",
  version |-> 0,  \* the generation it addresses, 0 to bypass the cache
  picked |-> 0,   \* the index it read
  set |-> 0,      \* the set it loaded
  wrote |-> 0     \* the chunks of that set it has written
]

\* The newest version a bump has told everybody about.
Covered == IF top = 0 THEN 0 ELSE base[top]

-----------------------------------------------------------------------------
Init ==
  /\ db = 1
  /\ up = {}
  /\ hooks = [p \in Process |-> 0]
  /\ pending = {}
  /\ gen = 0
  /\ late = FALSE
  /\ index = [g \in Gen |-> 0]
  /\ entries = [g \in Gen |-> [c \in Chunk |-> 0]]
  /\ req = [r \in Request |-> Idle]
  /\ page = [r \in Request |-> {}]
  /\ top = 0
  /\ base = [g \in Gen |-> 0]
  /\ told = [p \in Process |-> 0]
  /\ floor = [r \in Request |-> 0]

-----------------------------------------------------------------------------
(* The generation counter *)

\* The counter takes a value it never had.
Move(g) ==
  /\ g \in Gen
  /\ gen' = g
  /\ top' = g
  /\ base' = [base EXCEPT ![g] = db]

\* Mutant: the counter begins again.
SeedFromOne == 1

\* seed(): the epoch in seconds, which by then is past every generation.
Seed == top + 1

\* MULTI SET key seed NX; INCR key; EXEC
Increment == Move(IF gen = 0 THEN Seed + 1 ELSE gen + 1)

\* bump() on behalf of process p.  A failure is remembered; the command may
\* have been lost or may still be executed later.
BumpSucceeds(p) ==
  /\ Increment
  /\ pending' = pending \ {p}
  /\ told' = [told EXCEPT ![p] = db]
  /\ UNCHANGED late

\* Mutant: a failed bump is not remembered.
BumpFailsUnnoticed(p) ==
  /\ "valkey" \in Faults
  /\ told' = [told EXCEPT ![p] = db]
  /\ late' \in {late, TRUE}
  /\ UNCHANGED <<gen, top, base, pending>>

BumpFails(p) ==
  /\ "valkey" \in Faults
  /\ pending' = pending \cup {p}
  /\ told' = [told EXCEPT ![p] = db]
  /\ late' \in {late, TRUE}
  /\ UNCHANGED <<gen, top, base>>

Bump(p) == BumpSucceeds(p) \/ BumpFails(p)

LateBump ==
  /\ late
  /\ late' = FALSE
  /\ Increment
  /\ UNCHANGED <<dbVars, procVars, storeVars, reqVars>>

Evict ==
  /\ "evict" \in Faults
  /\ gen # 0
  /\ gen' = 0
  /\ UNCHANGED <<dbVars, procVars, late, top, base, storeVars, reqVars>>

-----------------------------------------------------------------------------
(* Processes and writers *)

\* onApplicationBootstrap(): bumps before the process serves anything.
Boot(p) ==
  /\ p \notin up
  /\ up' = up \cup {p}
  /\ Bump(p)
  /\ UNCHANGED <<dbVars, storeVars, reqVars>>

\* A committed bump request dies with its process, and so does `pending`.
Crash(p) ==
  /\ "crash" \in Faults
  /\ p \in up
  /\ up' = up \ {p}
  /\ hooks' = [hooks EXCEPT ![p] = 0]
  /\ pending' = pending \ {p}
  /\ req' = [r \in Request |-> IF HomeOf[r] = p THEN Idle ELSE req[r]]
  /\ told' = [told EXCEPT ![p] = 0]
  /\ UNCHANGED <<db, genVars, storeVars, page, floor>>

\* A catalogue transaction of process p commits, bumpAfterCommit() registered.
Commit(p) ==
  /\ p \in up
  /\ db < MaxWrite
  /\ db' = db + 1
  /\ hooks' = [hooks EXCEPT ![p] = @ + 1]
  /\ UNCHANGED <<procVars, genVars, storeVars, reqVars>>

\* Mutant: the hook of a transaction fires again.
AfterCommitAgain(p) ==
  /\ p \in up
  /\ hooks' = [hooks EXCEPT ![p] = @ - 1]
  /\ Bump(p)
  /\ UNCHANGED <<db, up, storeVars, reqVars>>

\* The commit hook fires.
AfterCommit(p) ==
  /\ hooks[p] > 0
  /\ hooks' = [hooks EXCEPT ![p] = @ - 1]
  /\ Bump(p)
  /\ UNCHANGED <<db, up, storeVars, reqVars>>

-----------------------------------------------------------------------------
(* Requests: getPage(), and getOrCompute() as a set with nothing to pick *)

At(r, step)   == req[r].pc = step
Goto(r, step) == req' = [req EXCEPT ![r].pc = step]
Leave(r)      == req' = [req EXCEPT ![r] = Idle]

Newest(a, b) == IF a >= b THEN a ELSE b

\* usableGeneration(): an outstanding bump is retried first.
Begin(r) ==
  /\ At(r, "idle")
  /\ HomeOf[r] \in up
  /\ Goto(r, IF HomeOf[r] \in pending THEN "retry" ELSE "gen")
  /\ floor' = [floor EXCEPT ![r] = Newest(Covered, told[HomeOf[r]])]
  /\ page' = [page EXCEPT ![r] = {}]
  /\ UNCHANGED <<dbVars, procVars, genVars, storeVars>>

Retry(r) ==
  /\ At(r, "retry")
  /\ \/ BumpSucceeds(HomeOf[r]) /\ Goto(r, "gen")
     \/ BumpFails(HomeOf[r]) /\ Goto(r, "load")
  /\ UNCHANGED <<dbVars, up, storeVars, page, floor>>

Address(r) ==
  /\ gen # 0
  /\ req' = [req EXCEPT ![r] = [@ EXCEPT !.version = gen, !.pc = "read"]]

\* readGeneration(): a failed GET and a missing key look the same.
ReadGeneration(r) ==
  /\ At(r, "gen")
  /\ \/ Address(r)
     \/ /\ gen = 0 \/ "valkey" \in Faults
        /\ Goto(r, "seed")
  /\ UNCHANGED <<dbVars, procVars, genVars, storeVars, page, floor>>

\* SET NX
SeedGeneration(r) ==
  /\ At(r, "seed")
  /\ Goto(r, "regen")
  /\ \/ gen = 0 /\ Move(Seed)
     \/ /\ gen # 0 \/ "valkey" \in Faults
        /\ UNCHANGED <<gen, top, base>>
  /\ UNCHANGED <<dbVars, procVars, late, storeVars, page, floor>>

ReadSeeded(r) ==
  /\ At(r, "regen")
  /\ \/ Address(r)
     \/ /\ gen = 0 \/ "valkey" \in Faults
        /\ Goto(r, "load")
  /\ UNCHANGED <<dbVars, procVars, genVars, storeVars, page, floor>>

\* readPage(): the index, ...
ReadIndex(r) ==
  LET found == index[req[r].version] IN
  /\ At(r, "read")
  /\ \/ /\ found # 0
        /\ req' = [req EXCEPT ![r] =
                     [@ EXCEPT !.picked = found, !.pc = "pick"]]
     \/ /\ found = 0 \/ "valkey" \in Faults
        /\ Goto(r, "load")
  /\ UNCHANGED <<dbVars, procVars, genVars, storeVars, page, floor>>

\* ... then, once the caller has chosen from it, the entries of the page.
ReadEntries(r, P) ==
  LET hash == entries[req[r].version] IN
  /\ At(r, "pick")
  /\ \/ /\ \A c \in P : hash[c] # 0
        /\ page' = [page EXCEPT ![r] =
                      {req[r].picked} \cup {hash[c] : c \in P}]
        /\ Leave(r)
     \/ /\ \E c \in P : hash[c] = 0
        /\ Goto(r, "drop")
        /\ UNCHANGED page
     \/ /\ P # {} /\ "valkey" \in Faults
        /\ Goto(r, "load")
        /\ UNCHANGED page
  /\ UNCHANGED <<dbVars, procVars, genVars, storeVars, floor>>

\* A set whose hash lacks an entry its index names is deleted whole.
DropSet(r) ==
  LET g == req[r].version IN
  /\ At(r, "drop")
  /\ Goto(r, "load")
  /\ \/ /\ index' = [index EXCEPT ![g] = 0]
        /\ entries' = [entries EXCEPT ![g] = [c \in Chunk |-> 0]]
     \/ "valkey" \in Faults /\ UNCHANGED storeVars
  /\ UNCHANGED <<dbVars, procVars, genVars, page, floor>>

\* The loader reads the database.  Its result is the answer, and is stored
\* unless the cache is bypassed or the set is past the size cap.
Load(r) ==
  /\ At(r, "load")
  /\ page' = [page EXCEPT ![r] = {db}]
  /\ \/ /\ req[r].version # 0
        /\ req' = [req EXCEPT ![r] = [@ EXCEPT !.set = db, !.pc = "index"]]
     \/ Leave(r)
  /\ UNCHANGED <<dbVars, procVars, genVars, storeVars, floor>>

\* Mutant: stored under the generation of the moment.
WriteIndexUnderLatest(r) ==
  /\ At(r, "index")
  /\ gen # 0
  /\ index' = [index EXCEPT ![gen] = req[r].set]
  /\ Goto(r, "del")
  /\ UNCHANGED <<dbVars, procVars, genVars, entries, page, floor>>

\* writeSet(): one pipeline, not a transaction.
WriteIndex(r) ==
  /\ At(r, "index")
  /\ index' = [index EXCEPT ![req[r].version] = req[r].set]
  /\ Goto(r, "del")
  /\ UNCHANGED <<dbVars, procVars, genVars, entries, page, floor>>

WriteDel(r) ==
  /\ At(r, "del")
  /\ entries' = [entries EXCEPT ![req[r].version] = [c \in Chunk |-> 0]]
  /\ Goto(r, "chunk")
  /\ UNCHANGED <<dbVars, procVars, genVars, index, page, floor>>

WriteChunk(r) ==
  LET c == req[r].wrote + 1 IN
  /\ At(r, "chunk")
  /\ entries' = [entries EXCEPT ![req[r].version][c] = req[r].set]
  /\ IF c = NChunk THEN Leave(r) ELSE req' = [req EXCEPT ![r].wrote = c]
  /\ UNCHANGED <<dbVars, procVars, genVars, index, page, floor>>

\* The connection breaks mid-pipeline.
WriteBreaks(r) ==
  /\ "valkey" \in Faults
  /\ req[r].pc \in Writing
  /\ Leave(r)
  /\ UNCHANGED <<dbVars, procVars, genVars, storeVars, page, floor>>

\* The two keys of a set expire on their own.
IndexExpires(g) ==
  /\ index[g] # 0
  /\ index' = [index EXCEPT ![g] = 0]
  /\ UNCHANGED <<dbVars, procVars, genVars, entries, reqVars>>

EntriesExpire(g) ==
  /\ \E c \in Chunk : entries[g][c] # 0
  /\ entries' = [entries EXCEPT ![g] = [c \in Chunk |-> 0]]
  /\ UNCHANGED <<dbVars, procVars, genVars, index, reqVars>>

-----------------------------------------------------------------------------
ProcessStep(p) == Boot(p) \/ Crash(p) \/ Commit(p) \/ AfterCommit(p)

RequestStep(r) ==
  \/ Begin(r) \/ Retry(r)
  \/ ReadGeneration(r) \/ SeedGeneration(r) \/ ReadSeeded(r)
  \/ ReadIndex(r) \/ (\E P \in SUBSET Chunk : ReadEntries(r, P)) \/ DropSet(r)
  \/ Load(r)
  \/ WriteIndex(r) \/ WriteDel(r) \/ WriteChunk(r)
  \/ WriteBreaks(r)

Next ==
  \/ \E p \in Process : ProcessStep(p)
  \/ \E r \in Request : RequestStep(r)
  \/ \E g \in Gen : IndexExpires(g) \/ EntriesExpire(g)
  \/ LateBump
  \/ Evict

Spec == Init /\ [][Next]_vars

-----------------------------------------------------------------------------
(* Properties *)

\* Type correctness.
TypeOK ==
  /\ db \in Version
  /\ up \subseteq Process
  /\ hooks \in [Process -> Nat]
  /\ pending \subseteq Process
  /\ gen \in {0} \cup Gen
  /\ late \in BOOLEAN
  /\ index \in [Gen -> {0} \cup Version]
  /\ entries \in [Gen -> [Chunk -> {0} \cup Version]]
  /\ req \in [Request -> [pc : Step,
                          version : {0} \cup Gen,
                          picked : {0} \cup Version,
                          set : {0} \cup Version,
                          wrote : 0..(NChunk - 1)]]
  /\ page \in [Request -> SUBSET Version]
  /\ top \in {0} \cup Gen
  /\ base \in [Gen -> {0} \cup Version]
  /\ told \in [Process -> {0} \cup Version]
  /\ floor \in [Request -> {0} \cup Version]

\* An answer is made of nothing older than the catalogue as it was, before
\* the request began, when any process last moved the generation, or when the
\* request's own process last tried to (a failed bump counts): slow readers,
\* late commands, evicted counters, half-written sets and mixed pages included.
AnswersAreFresh == \A r \in Request : \A v \in page[r] : v >= floor[r]

\* What a generation's keys hold was loaded after the generation began, so a
\* bump outdates every set stored before it and every set loaded before it.
StoredAfterItsGeneration ==
  \A g \in Gen :
    /\ index[g] # 0 => index[g] >= base[g]
    /\ \A c \in Chunk : entries[g][c] # 0 => entries[g][c] >= base[g]

\* What FreshReads promises: a request is answered once, and what the counter,
\* the sets, their pipelines and the retries come to is a catalogue that is as
\* fresh as the bumps before the request.
Reads ==
  INSTANCE FreshReads WITH
    version <- db, announced <- Covered, tried <- told, due <- floor,
    answer <- page

ImplementsReads == Reads!FreshSpec

=============================================================================
