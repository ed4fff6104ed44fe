# A formal model of the whisky catalogue's backend

TLA+ modules for the concurrent core of the NestJS backend in `src/src`: the
lock that keeps two syncs of one store apart, the cache that must never outlive
a write, the transaction in which a scrape writes a store's offers, the bottlings
that scrapes and editors share, the announcing of price drops, and the worker
pool that sends batches to a model. TLC checks small instances; TLAPS proves the
same properties for any number of processes, rows, requests, listings and
transactions.

Paths below are relative to `src/src` unless they begin with `docs/`,
`migrations/` or `scripts/`, which are in `src/`.

## 1. The system

Several identical API processes share one Postgres database and one or two
Valkey instances. Nest runs each process's start-up in phases (`onModuleInit`,
`onApplicationBootstrap`, then `listen`) and its shutdown in phases too
(`onModuleDestroy` first). Inside a process everything is one event loop, so
state changes hands at every `await`.

| Component | State it keeps | Operations | Interacts with | What is hard |
| --- | --- | --- | --- | --- |
| Store sync run (`domain/store/sync-orchestrator.service.ts`, `core/sync-log`) | rows of `sync_log`; an open row is the lock of its group (partial unique index) | `startStoreSync`, `runFullSync`, `collect`, `finish`, `touch`, boot sweep | starts the scrape, dispatches the push digest | a timeout that ends the wait but not the work; three-step sweep; unguarded updates by id |
| Instance heartbeat (`lib/instance`) | `instance:<id>` keys with a time to live | first beat, later beats, `aliveAmong`, release | read by the boot sweep | a key lapses while its process lives, or outlives it |
| Cron claim (`lib/cron-lock`) | one key per job | `claim` | full sync, rate sync | answers yes when Valkey is down |
| Catalogue cache (`lib/cache`) | a generation counter and keys per generation in Valkey; `pending` in each process | `bump`, `bumpAfterCommit`, `getOrCompute`, `getPage` | bumped by every catalogue writer; read by report and meta | a slow reader against a writer; failed and late commands; broken pipelines |
| Scrape persist (`scrape/persist`, `core/store-product`, `core/price-snapshot`, `core/product`) | offers, day snapshots, canonical bottlings, flavour links | `persist`: resolve keys, write loop, fills, knowledge base, sweep, day close | called by a collection; bumps the cache | minutes-long transactions that overlap; row locks; best-effort passes |
| Product review and merge (`domain/product`) | bottlings, retired keys, offers' links | `relink`, merge, review commit | races the persist | merges during a running persist |
| Push digest (`domain/push`, `core/push`) | claim log, messages, subscriptions | claim, announce, push, prune | dispatched after a full sync | at-most-once claim with a crash behind it |
| Sessions and throttles (`domain/auth`, `app/rate-limit`) | session and counter keys in Valkey | refresh, revoke, count | every request | read, verify and write in separate commands |
| LLM batches (`scrape/llm`) | a run's pool and backoff gate | send, back off, halve, abort | enrichment of a collection | workers sharing a gate that moves |
| Message stream (`domain/message`, `lib/valkey`) | open streams per user | subscribe, count, publish | inbox | a count overtaken by an event |
| Adapters, normalisation, HTTP client, reports, rates, preferences, collections, metrics, configuration, migrations, scripts | see `PROJECT.json` | | | sequential, or pure input and output |

`PROJECT.json` lists every component with its status under `components`, and
under `hazards` the 40 places where this code is hard to test, each with the
properties that cover it or the reason none does yet.

What makes each part correct:

* *sync run*: two live runs never share a group; a sweep closes dead runs and
  no live one; an outcome stands once recorded; every run ends;
* *cache*: an answer is never older than what the process could know of when
  the request began, whatever fails in between;
* *persist*: the day's snapshots agree with the offers; a manual relink stands;
  a whole listing flags everything it did not see, a fragment nothing it did
  not name; losing a best-effort pass does not lose the scrape;
* *canonical rows*: a key, an offer and a favourite follow their bottling
  wherever it is folded; a persist makes no twin it could see; two persists
  never deadlock;
* *digest*: a drop is announced at most once, on file before it is pushed, and
  not forgotten unless something broke;
* *sessions*: a revoked session stays revoked; one refresh token is used once;
* *LLM batches*: every item is answered or reported, and once; nothing is picked
  up after the stop; a moved gate holds everybody.

## 2. Modules

| Module | Lines it stands for | Kind |
| --- | --- | --- |
| `RunLock` | what the `sync_log` index promises | abstract specification |
| `StoreSync` | `sync-orchestrator.service.ts`, `sync-log.repository.ts`, `instance.service.ts` | component; refines `RunLock` |
| `FreshReads` | what the cache promises its readers | abstract specification |
| `CatalogueCache` | `versioned-cache.service.ts` and the writers' commit hook | component; refines `FreshReads` |
| `CacheFleet` | the same, with a history of what any process knew | observer |
| `StoreOffers` | `scrape-persist.service.ts` and the two repositories it writes offers and snapshots through | component |
| `Bottlings` | `product.repository.ts` (resolution and merges), `product.service.ts`, `review-commit.service.ts`, the persist's use of them, `preference.service.ts` | component |
| `DropLedger` | what announcing drops promises each user | abstract specification |
| `PushDigest` | `push-digest.service.ts`, `push.repository.ts`, what starts a dispatch in `sync-orchestrator.service.ts` | component; refines `DropLedger` |
| `BatchWork` | what a batched pass promises its caller | abstract specification |
| `LlmBatch` | `llm-batch.runner.ts`, `concurrency-pool.util.ts` | component; refines `BatchWork` |
| `PersistLocks` | the order in which the persist's passes take bottling rows | component |
| `MC*` | | instances for TLC |
| `*_proofs` | | theorems for TLAPS |

### StoreSync

A process walks through `down`, `init`, `asking`, `answered` or `blind`,
`swept`, `up`, `stopping`. Those steps are the awaits of `onModuleInit`
(`openOwners`, `aliveAmong`, `sweepOrphaned`) and of `onApplicationBootstrap`
(the first beat); `onModuleDestroy` drops the key first and the process serves
on until Nest closes it. A run is two activities, as in the code:
`wait` is the orchestrator's `Promise.race`, `coll` the collection it does not
stop. `TimerFires` ends the wait, `CollectionEnds` the collection, `Finish` is
the `UPDATE ... WHERE id` that has no other guard, `Touch` the progress
reporter's equally unguarded one, `FinishFails` that statement failing.

Time is in ticks, a tick being long against a statement, a due timer and the
heartbeat's period, and short against the timeouts. So `Tick` waits for due
timers and for decided runs to close their rows; it does not wait for touches,
boots, beats or anything of another process.

`FreshName` lets a process take an identity only if no key, open row or booting
process still names it. A real identity is never used twice; reusing a name
nothing remembers stands for a new one and keeps the instance finite. Row ids
are not reused.

Faults: `valkey` (a liveness question or the removal of a key fails), `lapse`
(a serving process has no key because its beats failed), `db` (closing a row
fails). Crashes are always possible.

### CatalogueCache

A value is the version of the catalogue it was built from; the cache stores
versions under generations. A request's steps are the round trips of
`usableGeneration`, `readGeneration` (get, set-if-absent, get), `readPage`
(index, pick, entries, drop) and `writeSet`, whose pipeline is not a
transaction and is therefore one action per command. `getOrCompute` is the case
of a set whose page is empty. `P` in `ReadEntries` is the page: any subset of
the set's chunks. `Boot` and `AfterCommit` are the two bumps; `Commit` is any
catalogue transaction, and it registers its hook in the same step because that
is what `bumpAfterCommit` sees. `Crash` loses hooks, `pending` and requests.

Faults: `valkey` (any command fails, a bump may be executed later, a pipeline
breaks anywhere), `evict` (the generation key disappears), `crash`. Keys expire
at any time without being asked to.

`Seed` is `top + 1`: epoch seconds are past every generation that ever was,
because generations begin at an epoch second and grow by one per bump, far
slower than the clock. The model takes that as the code's comment does; a clock
set back by more than the bumps since would break it.

At most one late bump is outstanding at a time. Further ones only repeat the
same increment.

`bump` takes any reply of its `MULTI` for success, also one in which the `INCR`
was refused because the key held no number. Nothing writes such a value, so
`BumpSucceeds` always moves the generation.

`floor` is what a request must be up to: the newest version some completed bump
covered, or the newest its own process has tried to bump for, failed or not.
`CacheFleet` adds `heard`, the newest any process has tried to bump for.

Seen from outside, as `FreshReads` has it, there are no generations, keys or
pipelines: a catalogue has versions, a process announces one (`base` of the
newest generation) or tries to (`told`), and a request is answered once, out of
versions from its due one (`floor`) to the present. A bump that Valkey executes
is an announcement, one that it refuses or delays is a try, and everything
between a request's first step and its answer is a stutter.

### StoreOffers

One store, one capture day, any number of overlapping persists: a collection
whose run timed out persists after a newer run took the lock (`StoreSync` is
where that comes from), and an administrator relinks offers meanwhile. A
transaction's writes are in `mine` and `mineDay` until `Commit`; a row in them
is locked for the others. Each `UPDATE` over many rows is two kinds of step, as
READ COMMITTED has it: it picks its rows in what is visible when it begins
(`SweepBegins`, `DayCloseBegins`) and then takes them one at a time, waiting
for locks and looking again at a row it waited for (`SweepRow`,
`DayCloseRow`). `WriteOffer` is the upsert of a SKU unknown when the persist
began and the touch of a known one. `Abort` is a rollback from anywhere, which
subsumes a lost deadlock, a dropped connection and a bottling deleted before it
is linked. `BestEffortFails` is a statement failing inside `applyKb` or
`logConflicts`: the error is caught, the transaction is doomed.

Left out: prices, names and dates (no property is about them), the deletion of
offers (nothing in the code deletes one, so `upsertOffer`'s fallback never
runs), and persists of two different capture days.

### PersistLocks

The passes of a persist that lock bottlings, in order: `findOrCreateByMatchKeys`,
`writeLlmFlavors`, `fillMissing`, `setProducers`, `applyKbFacts`. Each pass is
taken to lock in ascending key order, which is the best case for the code's
reasoning; `UPDATE ... FROM unnest` promises no order at all.

### Bottlings

The rows of `product` with their match keys, the aliases that retired keys
leave, each offer's bottling and the users' lists, under two kinds of
transaction. A *persist* goes through `LookUp` (the keys it knows), `Identify`
(name, volume and age for the rest), `Create` (the insert that gives way to a
concurrent one), `Link` and `CommitPersist`. An *edit* is a merge out of the
review queue (`Merge`), an update whose new identity has twins (`Rename`,
`Twins`, then one merge per twin) or a relink (`RelinkTo`, `RelinkNew`,
`CheckLeft`, and `Delete` if the bottling left behind is empty). A merge is
`mergeInto()` statement by statement: `Read`, `Facts`, `MoveOffers`,
`MoveLists`, `Repoint`, `Retire`, `Delete`.

Everything is READ COMMITTED: a statement sees what is committed when it begins
and what its own transaction wrote. What an edit wrote is in its record (`Edit`)
until `CommitEdit`: `took` are rows it has locked against every reference
(deleted, or given or deprived of a key), `wrote` rows it has updated
otherwise, and `CanTake`, `CanWrite` and `CanUse` say which of Postgres's row
locks conflict. `Advance` is a step inside a transaction. Any transaction may be
rolled back at any time, which stands for lost deadlocks, refused statements and
dropped connections alike.

`became`, `home`, `filed` and `kept` record what should have happened: the
bottling each one was folded into, the one a key was first stored on, the one an
offer was last linked to, the entries a user made. `mixed` and `raced` are the
exceptions, see section 4. A relink that empties a bottling deletes it for good,
so its key is free again: `CommitEdit` forgets its `home`.

Left out: the row locks of persists that do not create (they only delay others);
`blacklist`, which goes through the statements of `favorite`; purchases and
collections; facts, flavours and conflicts; the removal of list entries; several
listings of a batch under one key, which the persist resolves once. Twins after
the first are folded in any order, and the look at a relink's target and the
update of the offer are one step. `upsertOffer`'s answer to a missing bottling is
a rollback.

### PushDigest

Runs write a day's prices; `Claim` is the one statement that finds the drops of a
day and inserts them in the log, returning the rows that were not there;
`Deliver` is one user's message with its own transaction; `Push` begins when all
are on file; `Prune` deletes claims older than the retention. `DispatchFails` is
a failing statement or a dead process between any two of them; nothing is tried
again. A dispatch follows a full sync (`DispatchAfterSync`, once no run is
awaited), each manual run (`RunEnds`), or is asked for with a day of the
operator's choice (`DispatchByHand`), which need not have come yet. A run whose
wait timed out goes on (`Persist` of a run not in `waited`). Nothing keeps two
dispatches apart but the log.

`lost`, `missed`, `pruned` and `newest` are histories: what a crash lost, which
offers a claim could not have seen, what the log has forgotten. Prices are small
numbers; `Persist` writes any of them for any subset of the store's offers and
takes any of the others out of stock, as an incomplete walk does with those its
listing named. `OnFile` are the offers that have a price before the first day.

`bestPerProduct` makes one line of all the offers of a bottling a message is
about: it names the best and counts the rest. `inbox` counts the messages a row
is part of, named or counted in; which of the two is not modelled. A digest on an
empty snapshot table resolves to the clock's day (`LatestOrToday`), on which there
is nothing to claim.
The order of a full sync's tracks is left open: nothing here depends on it.

`DropLedger` is what a user is promised: a row is owed by the dispatch that
claimed it, then told, together with all else that dispatch owes the user, or
lost, until the claim is forgotten. `Claim` is its `Claim`, a message committed
is `Tell`, a failure is `Lose` and `Prune` is `Forget`; `Push` is nothing. What
is pruned leaves the other sets, as nothing is promised about it any more.

### LlmBatch

The pool's cursor, and per worker the interval of the list it has claimed, the
part of it the present call is about (`from..to`) and where the halves still to
come end (`cuts`), which is `attempt()`'s recursion without its stack. `Look`
reads the gate and `Send` is the call: the code reads it once, sleeps and sends
without looking again. Times are ranks: `gate` counts the values `backoffUntil`
has had, `now` the ones that are over. A refusal moves the gate out or, when it
is further out already, leaves it (`gate' \in {gate, gate + 1}`).

Halves are not given up when another worker aborts the run or the deadline
passes: only the claiming stops. Handlers, `onError` and `onProgress` that throw
are not modelled.

## 3. Runs

| Run | Instance | Shows |
| --- | --- | --- |
| `sync_exclusion` | 2 processes, 2 stores of 1 group, 3 rows, timeouts and margin 1, `lapse` | `LiveRunsExcludeEachOther`, `ClosedForGood` |
| `sync_time` | 2 processes, 2 stores of 2 domains and 2 tiers, 2 rows, timeouts 1 and 2, `valkey` and `db` | `OverAgeRowsAreNotLive`, `SweepSparesTheSeen`, `RunsEnd`, `ImplementsRunLock` |
| `cache_freshness` | 2 processes, 1 request at each (repeating), 1 chunk, 2 versions, 3 generations, all faults | `AnswersAreFresh`, `StoredAfterItsGeneration`, `ImplementsReads` |
| `persist_offers` | 2 SKUs, 2 bottlings, 2 transactions (repeating), all faults | `DayAgreesWithOffers`, `RelinkStands`, `UnseenStaysOnlyByLateWrites`, `FragmentSparesTheUnseen` |
| `push_digest` | 2 users, 1 offer, 3 days, 2 runs, a full sync, a dispatch by hand, retention 1, failures | `EachDropOnce`, `InboxBeforePush`, `DropsAreClaimed`, `RepeatsAreOld`, `ImplementsLedger` |
| `llm_batch` | 5 items in batches of 3, 2 workers, 1 retry | `EveryItemOnce`, `NothingLate`, `OneSendAhead`, `ProgressIsTrue`, `EveryStepCosts`, `ImplementsWork` |
| `bottlings` | 3 keys, 3 names, 2 listings, 3 bottlings and room for 2 more, 2 persists, 2 edits | `KeysFollow`, `OffersFollow`, `ListsFollow`, `NoTwinSeen` |
| `sync_race` | as `sync_exclusion` with 2 rows, no faults | violated: `SweepSparesLiveRuns` |
| `sync_restart` | the same | violated: `BootSweepFreesOrphans` |
| `cache_fleet` | as `cache_freshness`, `valkey` only | violated: `BypassedWhileDirty` |
| `persist_kb` | as `persist_offers`, `kb` only | violated: `BestEffortLosesNothing` |
| `persist_deadlock` | 2 keys, 2 persists | violated: `NoTwoWaitForEachOther` |

Each passing run also checks its module's `TypeOK`. Each property of a passing
run has a mutant in `PROJECT.json`: a change of one definition, as a slip in
the code would make it, under which TLC finds the property violated.

Why the bounds are enough to see the interesting cases:

* *rows*: with three rows a run can outlive the sweep of its row, a second take
  the lock and a third try to; two suffice for every pair property. `AgeCap` is
  one past the age at which the sweep closes a row; older rows are all alike to
  it. Timeouts of 1 and 2 with a margin of 1 put the two tiers and the floor at
  different ticks.
* *cache*: two versions are before and after a write; three generations leave
  room for a boot, a bump and a late or second bump, or for an eviction and a
  seed. `MaxWrite` and `MaxGen` are guards of `Commit` and `Move`; where `Move` is
  refused, a bump can only fail, which the `valkey` fault offers anyway. With
  two chunks a page can mix two loads; that instance, under the `valkey` fault
  alone, passes as well but takes twice as long, and the proof is for any
  number of chunks.
* *offers*: two SKUs let a transaction hold one row and wait for another; names
  of ended transactions are used again, so the number of persists in a
  behaviour is not bounded. `Persist` bounds only how many overlap.

* *bottlings*: the three at first are one with a key and an offer, one without a
  key and its twin with one, so that merges adopt and retire keys, an update
  finds a twin, and a relink leaves an empty bottling. Both persists are of one
  store and look for the key an edit retires and for one nobody has. `MaxId`
  leaves room for two new rows; `Create` and `RelinkNew` are refused beyond it,
  as rollbacks would use ids up for nothing. `Picks` is the one entry a user may
  make, of the keyless bottling; entries of others would follow in the same way.
  Two edits are enough for one to come between any two statements of the other,
  and for one survivor to be the other's loser. Each transaction runs once.
* *digest*: two runs in three days let a price fall, fall again and be written
  late; retention 1 makes a claim expire within the three days, and an operator's
  day 4 prunes more than it should. The offer has a price on file (`OnFile`), so
that its first day can be a drop. A dispatch of a day that is over needs no
  operator: any whose day ends before it claims is one. With two users, a crash
  comes between their messages. Four dispatches cover every pair.
* *batches*: five items are a full and a short batch, cut up unevenly when
  halved; two workers make one wait for the gate the other moves. Each attempt is
  sent at most twice.

Symmetry is used in runs that check safety only, in `bottlings` of persists and
of editors; `sync_time` and `llm_batch`, which check liveness, have none.

**Deadlock.** It is checked in `cache_freshness`, `persist_offers`,
`push_digest`, `llm_batch` and `bottlings`; the last three name their proper end
(`Finished`, `Ended`), so that stopping anywhere else is an error. In the
`StoreSync` runs rows are used up, after which a stopped system is a real end
state, so the check is off. In `persist_offers` no state is stuck because the
`abort` fault stands for Postgres's deadlock detector; that two persists do come
to wait for each other is what `persist_deadlock` shows of bottlings, and the
write order by match key makes possible for offers too, since a reworded
listing changes the order.

**Fairness.** `StoreSync` assumes that time passes, that Node fires due timers
and that Postgres answers or refuses the closing statement: `WF(Tick)`,
`WF(TimerFires)`, `WF(Finish \/ FinishFails)`. It does not assume that a
collection ever settles, that a process ever boots or that a beat ever succeeds;
`RunsEnd` holds without, which is the point of the timeout. It says that the wait
ends, not that the lock is free: after `FinishFails` the row stays open until a
later boot sweeps it. `LlmBatch` assumes
that time passes (`WF(Tick)`) and that each worker goes on: every call settles,
with the SDK's request timeout if not before, and every timer fires. It does not
assume that a call ever succeeds, or that the deadline is ever reached. The other
modules state no liveness and assume no fairness.

## 4. What the code does not do as its comments say

* `sync_race`. "The owner test is the exact one and is what keeps a restart
  from closing a sibling's live run" (`sync-log.repository.ts:109-111`). The
  list of live owners is older than the sweep: a row a sibling opened in
  between is closed while its run goes on, and its lock is free for a second
  run. `SweepSparesTheSeen` is what does hold.
* `sync_restart`. The boot sweep "Closes the sync runs nobody is driving any
  more" (`sync-orchestrator.service.ts:90`). After a crash and a restart within
  the heartbeat's time to live the dead owner still looks alive, and nothing
  sweeps again until the next boot.
* `cache_fleet`. "until a bump succeeds the cache is bypassed altogether"
  (`versioned-cache.service.ts:100-102`). `pending` is known to one process;
  the others serve the old generation. `AnswersAreFresh` is what does hold.
* `persist_kb`. "a knowledge-base failure must not lose a scrape that
  succeeded" (`scrape-persist.service.ts:529-530`). A failed statement aborts
  the transaction it runs in; catching the error does not bring it back.
* `persist_deadlock`. "every canonical row is acquired in ascending match-key
  order" (`scrape-persist.service.ts:70-74`). True within a statement, not over
  the passes of one transaction.

Further differences are built into the models as exceptions of the properties,
and have no run of their own. Each was found because the property without the
exception is violated.

* `Bottlings`, `raced` and `mixed`. A loser's key is "retired into
  `product_match_alias`, so the next sync cannot recreate it"
  (`review-commit.service.ts:143-144`), or adopted by a survivor that has none.
  When edits of one bottling overlap it may be lost: `mergeInto` reads both keys
  before it locks either row (`product.repository.ts:1069`). Two merges into one
  keyless survivor both see none, and the second adoption overwrites the first,
  which is then stored nowhere; two merges of one loser into two survivors each
  hand on what they read. And when a persist has found no bottling for the key
  and creates one while the merge makes it an alias, it is both.
* `Bottlings`, `kept` and `mixed`. "nothing anyone recorded is lost" is not so for a
  favourite written between `moveUserLists` and the `DELETE`, which cascades, nor
  when a relink deletes the bottling it emptied while a merge is moving a list
  entry to it.
* `PushDigest`, `pruned`. "a repeat call for the same day claims nothing"
  until the log has been pruned for a later day: pruning counts from the
  dispatched day, and one asked for with a day far ahead empties the log. After
  that a repeat call announces again.
* `PushDigest`, `missed`. A digest covers the latest day with snapshots. A full
  sync that crosses midnight is announced for the second day only, and what an
  abandoned run commits after the dispatch waits for the next one of that day.
* `LlmBatch`, `ahead`. "Every worker consults the gate before its next send", but
  consults it once and then sleeps: a gate moved out meanwhile is missed by one
  call of each worker, and by no more (`OneSendAhead`).

## 5. Proofs

The theorems hold for every value of the constants that satisfies the modules'
named assumptions (`StoreSyncAssumptions`, `CatalogueCacheAssumptions`,
`StoreOffersAssumptions`, `PushDigestAssumptions`, `LlmBatchAssumptions`,
`BottlingsAssumptions`), which state the types of the constants, that null
values are distinct from real ones, and of `Bottlings` that the listings are
finitely many, and that the listings of a batch, and the bottlings there are at
first, have keys of their own or none.

**`StoreSync_proofs`.** `LiveRunsExcludeEachOther` says nothing of rows, and a
step that starts a run looks only at rows; so the invariant ties the two: at
most one row per domain is open, and a live run's row is open unless a sweep
closed it (`LockInv`). `AgeInv` bounds a live run's row by its elapsed time and
that by its timeout; the age floor is beyond both because of the margin.
`OwnerInv`, for `SparesTheSeen`, says that a serving process holds its key and
that what a booting process took for alive includes every owner it had read
that is still serving. That theorem assumes `"lapse" \notin Faults`: with
lapsing heartbeats it is false, and the first run's exception for swept rows is
needed. `Refinement` maps the open row of a domain to `RunLock`'s holder; a
boot sweep is one bulk release.

**`CatalogueCache_proofs`.** The invariant has four parts. The counter is the
greatest generation there has been, or absent, and nothing is stored under one
that has not begun (`CounterInv`). A process whose last attempt to bump is not
covered by the current generation is `pending` (`DirtyInv`): a failed bump is
remembered until one succeeds. What is stored under a generation was loaded
after it began (`StoredAfterItsGeneration`, itself inductive given the rest).
And each request owes, at each of its steps, that whatever it will answer with
is at least its floor (`Owes`): the generation it holds began no earlier, and a
set it loaded is no older than that generation. The key fact is that the
generation is read before the load, so a slow request stores under the old one.

For the refinement of `FreshReads` a fifth part is needed, which no run checks:
nothing that is stored, read or loaded is newer than the catalogue, and a request
has no answer before its last step (`PastInv`). Then each step is the abstract
one named in section 2 or a stutter; the proof has one lemma for the bumps, where
the newest generation changes what is announced, and one for the requests' steps.
`OwnFailuresAreKnown` is the part of "the cache is bypassed altogether" that is
true: the process whose bump failed bypasses it. `cache_fleet` shows the rest is
not.

**`StoreOffers_proofs`.** `DayAgreesWithOffers` is about committed rows, while
the steps are about uncommitted ones. The invariant says a locked row has one
owner (`LockInv`), that a transaction which wrote an offer in the loop wrote
its snapshot too, the one being priced apart (`LoopInv`, `PairInv`), that what
the sweep or the day's close still owes is among its `targets` (`TargetInv`),
that a rewritten offer keeps the link it has on file (`LinkInv`, `KnownInv`),
and that an offer others put in stock during the sweep is in `late`
(`LateInv`). The day's close picks its rows after the sweep holds them all,
which is why nothing it decided can change under it.

**`PushDigest_proofs`.** `EachDropOnce` is nearly inductive: what is missing is
that a dispatch owes only what it is announcing (`OnlyWhileTelling`), that a row
its user has heard of is on file (`ToldIsOnFile`), which is `InboxBeforePush`
once nothing is owed, and that what was pruned was old when it was
(`PrunedIsOld`). `RepeatsAreOld` is about what was ever claimed, told, owed or
lost (`Taken`): a claim takes only what the log does not know (`ClaimsAreNew`),
and such a row, if not pruned, nobody has taken, by `EachDropOnce`; if pruned, it
is old. The definition does not mention the log or the pruning: both a claim that
returns the rows in conflict (`ClaimAgain`) and a prune one day early
(`ExpiredInclusive`) break it. `DispatchComesAfter` says that
a run or a sync still on its way has no dispatch yet. `DropsAreClaimed` speaks of
quiet states only; `ClaimInv` says of all that the latest day's drops are claimed
or something that will claim them is `Coming`: a run waited for, a full sync, a
dispatch that has yet to read the day, or one that has read the latest.

In `LedgerKeptByDigest` the case that matters is `Claim`: a row it returns must be
in nobody's hands, told or lost, though all three are kept apart from the log.
What is owed, told or lost and not pruned is in the log, which `EachDropOnce`
needs as well, and a claim takes only what is not. `ToldOrLostForGood` then
says what the ledger is for: no later step takes back a message, or tells what a
crash lost, while the claim lasts.

**`LlmBatch_proofs`.** The invariant `WorkInv` says where the cursor is
(`Cursor`), that what a busy worker has left is an interval cut in order
(`Claims`), that no two workers' intervals meet (`Apart`), and that an item is
settled or lies beyond the cursor or in such an interval, and not both
(`Accounted`). From it, `EveryItemOnce`, and that every step is one of
`BatchWork` or a stutter (`SettlesLikeBatchWork`). `LateInv` adds that after the
stop nobody is at work on what was unclaimed, `AheadInv` that a worker which
waits for an older gate has made no call ahead of the present one. `CountInv`,
for `ProgressIsTrue`, says that what is reported is the number of items claimed
that are in no worker's batch, and that batches are intervals that do not meet.

That a run ends has no temporal proof here, but all of its parts have one. The
steps still to come are counted (`Effort`): the turns left to each worker at each
attempt, the cuts that can still be made in what is unsettled, the gate's lead
over the clock and the deadline. `RunsOut` says that every step leaves less,
halving, refusals and moved gates included; `EffortIsBounded` that it is a number
which the list, the pool and the retries bound from the start; and `NobodyIsStuck`
that while a worker is in the run one can go on, at the latest when the clock has
come to the gate. What is left to fairness is that whoever can go on does.

**`Bottlings_proofs`.** `OffersFollow` needs what Postgres's foreign key and row
locks give. `Rows`: what is there, or has yet to be, has not been folded.
`Makes`: a row a persist is making is its own. Of each edit, `Fit` says that all
offers of what it has removed have moved on to its survivor and that this is
there, and `Clear` that what it has locked no other transaction refers to; both
take an edit as parameter, so that a step within a transaction has only to show
them of the new record (`EditorMoves`). The steps left are those that change
rows: `CommitPersist`, and `CommitEdit`, where what the edit wrote lands and what
others relied on must still be there. `TwinInv`, for `NoTwinSeen`, says that what
a persist found no bottling for has none but those told of since. `ListFit`, for
`ListsFollow`, says that every entry kept for what an edit has removed has moved
to its survivor, which it has locked; when it commits, those whom that surprises
are `mixed`.

**`BottlingsKeys_proofs`.** `KeyInv`, for `KeysFollow`, has three parts.
`KeyRows` is `KeysFollow` with its converse: a key without a home leads nowhere.
`KeyMakes`: a key some persist is making a bottling for has no home, and no two
persists are making one for the same. `KeyFit`: the keys an edit has handed on
are those that led to what it has removed, the survivor that gets them is there
and loses none of its own, and the keys `mergeInto()` read are still true when
it uses them. Where the last is not so, another edit was about the same bottling,
and its commit has `raced` the key. Like the list entries, keys are not guarded
by a foreign key that restricts, so the proof is about whom each commit surprises.

**`PersistLocks_proofs`.** `persist_deadlock` finds two persists that wait for
each other; `OnlyLaterPassesDeadlock` says where such a thing can come from. In
its first pass a persist asks for rows above all it holds (`Ascending`). In a
circle of persists none of which is past that pass, each waits for a row that the
next one holds, so the rows they wait for rise from one to the next; but one of
them waits for the greatest. So any circle, of however many, has a member that
has begun a later pass, and the order by match key does what the comment says as
long as there is one pass. Keys are numbers with a bound, and nothing else is
assumed.

Not proved, and checked by TLC only: liveness under fairness (`RunsEnd`, and that
`LlmBatch` settles everything in the end, which `ImplementsWork` includes), which
the temporal prover does not reach; and `CacheFleet`, which exists for its
counterexample.

## 6. What is not modelled, and why

* Adapters, normalisation, reports, dashboards, metrics, logging, configuration:
  sequential code or pure input and output.
* Sessions and throttles: what can go wrong in `refresh()` is one window between a
  read and a write (two refreshes with one token, or a revocation in between), a
  model of which would say no more than the hazard does. The throttle and the
  rate limiter are one atomic script each.
* The message stream: a count may be overtaken once, and the next event corrects
  it.
* Knowledge-base reconcile and boot apply: three idempotent statements and a
  bump, the last being a `Commit` of `CatalogueCache`.
* The order of a full sync's tracks, and the cron claim: `StoreSync` starts a run
  of any store at any time, which includes every order; that a claim answers yes
  when Valkey is down is why it does not assume one full sync at a time.
* The review queue and its statuses; the trust ranks by which a bottling's facts
  are filled.
* The locks of merges in `PersistLocks`: they would only add edges.
* Persists of an earlier capture day that end after midnight: they write
  another day's snapshots but the same offers, so `DayAgreesWithOffers` is a
  statement about the latest day only.
* The generation of a process that serves no reads (`CACHE_BOOT_BUMP` off): it
  is a writer that never boots with a bump, and gives no answers.

## 7. What would come next

1. `Sessions`: refresh against revoke and revoke-all, with two devices.
2. An abstract specification of the bottlings (a key and an offer follow their
   bottling) that `Bottlings` refines, in place of its four histories.
