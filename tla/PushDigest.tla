------------------------------ MODULE PushDigest ------------------------------
(***************************************************************************)
(* Announcing price drops.  A collection writes the day's price of the     *)
(* offers it saw; a dispatch claims the day's drops in one statement, puts *)
(* a digest into each user's inbox, pushes it, and prunes the claim log.   *)
(*                                                                         *)
(* A dispatch follows every full sync, which waits for the runs it         *)
(* started, and every manual run; an operator may ask for one of any day.  *)
(* Nothing makes dispatches exclude each other.  A run's wait ends with    *)
(* its collection or with the timeout, and the timeout does not stop the   *)
(* collection.                                                             *)
(*                                                                         *)
(* The order of a full sync's tracks, and the number it runs at once, are  *)
(* left open.                                                              *)
(***************************************************************************)
EXTENDS Naturals, FiniteSets

CONSTANTS
  User,
  Offer,       \* a store's listings: rows of store_product
  Store,
  StoreOf,     \* [Offer -> Store]
  DomainOf,    \* [Store -> exclusivity domains]: the group or the store itself
  OnFile,      \* the offers with a price before the first day modelled
  Wants,       \* favorites that no blacklist or review verdict hides
  Run,         \* bound: ids of runs, given out in order
  FullSync,    \* bound: ids of full syncs, each run once
  Operator,    \* bound: ids of dispatches asked for by hand
  ForcedDay,   \* the days an operator may ask for
  MaxDay,      \* bound: the last day
  MaxPrice,    \* bound: prices are 1..MaxPrice
  MaxGap,      \* PUSH_MAX_PREVIOUS_GAP_DAYS
  Retention,   \* logRetentionDays
  CanFail      \* whether a dispatch, a run or a full sync may break down

Dispatch == Run \cup FullSync \cup Operator
Day      == 1..MaxDay
Row      == User \X Offer \X (Day \cup ForcedDay)

ASSUME PushDigestAssumptions ==
  /\ StoreOf \in [Offer -> Store]
  /\ DOMAIN DomainOf = Store
  /\ OnFile \subseteq Offer
  /\ Wants \subseteq User \X Offer
  /\ ForcedDay \subseteq Nat \ {0}
  /\ MaxDay \in Nat /\ MaxDay >= 2
  /\ MaxPrice \in Nat \ {0}
  /\ MaxGap \in Nat
  /\ Retention \in Nat \ {0}
  /\ CanFail \in BOOLEAN
  /\ Run \subseteq Nat
  /\ Run \cap FullSync = {}
  /\ (Run \cup FullSync) \cap Operator = {}

VARIABLES
  today,     \* the clock's day
  price,     \* price_snapshot: each offer's price by day, 0 where there is none
  stocked,   \* the offers whose store_product row is in stock
  runPc,     \* where each run's collection is, see RunStep
  runStore,  \* the store of each run
  runBy,     \* the full sync that started it, or itself for a manual one
  runDay,    \* the day its persist writes for
  waited,    \* the runs somebody still waits for: their locks are held
  left,      \* the stores each full sync has yet to try
  syncing,   \* the full syncs whose stores are being collected
  pc,        \* where each dispatch is, see Step
  day,       \* the day each dispatch covers
  claimed,   \* the rows its claim returned
  heard,     \* the users it has put a message into the inbox of
  log,       \* push_digest_log
  inbox,     \* how many inbox messages each row is part of: named, or counted
             \* in the line of a better offer of its bottling
  pruned,    \* history: rows deleted from the log
  lost,      \* history: rows claimed by a dispatch that broke down before them
  newest,    \* history: the newest day a prune was about
  missed     \* history: offers written, or a dispatch broken down, since the
             \* last claim of the latest day, with no dispatch to follow

dataVars == <<today, price, stocked>>
runVars  == <<runPc, runStore, runBy, runDay, waited, left, syncing>>
passVars == <<pc, day, claimed, heard>>
bookVars == <<log, inbox, pruned, lost, newest>>

vars == <<dataVars, runVars, passVars, bookVars, missed>>

RunStep == {"none", "walking", "persisting", "ended"}

Step == {"idle", "resolve", "claim", "announce", "prune", "done"}

\* latestDate()
IsLatest(d) ==
  /\ d \in Day
  /\ \E o \in Offer : price[o][d] # 0
  /\ \A e \in Day : e > d => \A o \in Offer : price[o][e] = 0

-----------------------------------------------------------------------------
(* What CLAIM_DROPS_SQL selects *)

\* Some earlier snapshot, no newer one in between, not past the gap.
Fell(o, d) ==
  /\ d \in Day
  /\ price[o][d] # 0
  /\ \E e \in Day : /\ e < d /\ e + MaxGap >= d
                    /\ price[o][e] > price[o][d]
                    /\ \A f \in Day : e < f /\ f < d => price[o][f] = 0

Candidates(d) ==
  {<<w[1], w[2], d>> : w \in {x \in Wants : x[2] \in stocked /\ Fell(x[2], d)}}

-----------------------------------------------------------------------------
\* Some offers have yesterday's price on file, and no others are known.
Init ==
  /\ today = 2
  /\ price = [o \in Offer |->
                [d \in Day |-> IF d = 1 /\ o \in OnFile THEN MaxPrice ELSE 0]]
  /\ stocked = OnFile
  /\ runPc = [r \in Run |-> "none"]
  /\ \E s \in Store : runStore = [r \in Run |-> s]
  /\ runBy = [r \in Run |-> r]
  /\ runDay = [r \in Run |-> 1]
  /\ waited = {}
  /\ left = [f \in FullSync |-> {}]
  /\ syncing = {}
  /\ pc = [d \in Dispatch |-> "idle"]
  /\ day = [d \in Dispatch |-> 1]
  /\ claimed = [d \in Dispatch |-> {}]
  /\ heard = [d \in Dispatch |-> {}]
  /\ log = {}
  /\ inbox = [w \in Row |-> 0]
  /\ pruned = {}
  /\ lost = {}
  /\ newest = 1
  /\ missed = {}

-----------------------------------------------------------------------------
(* Runs and full syncs *)

Goto(d, s) == pc' = [pc EXCEPT ![d] = s]

Active(d) == pc[d] \notin {"idle", "done"}

\* Midnight, UTC.
NextDay ==
  /\ today < MaxDay
  /\ today' = today + 1
  /\ UNCHANGED <<price, stocked, runVars, passVars, bookVars, missed>>

Locked(s) == \E q \in waited : DomainOf[runStore[q]] = DomainOf[s]

Start(r, s, by) ==
  /\ runPc[r] = "none"
  /\ \A q \in Run : q < r => runPc[q] # "none"
  /\ ~Locked(s)
  /\ runPc' = [runPc EXCEPT ![r] = "walking"]
  /\ runStore' = [runStore EXCEPT ![r] = s]
  /\ runBy' = [runBy EXCEPT ![r] = by]
  /\ waited' = waited \cup {r}

\* startStoreSync() by hand
StartByHand(r, s) ==
  /\ Start(r, s, r)
  /\ UNCHANGED <<dataVars, runDay, left, syncing, passVars, bookVars, missed>>

\* runFullSync(), by the process that won the tick's claim, or by any when
\* Valkey could not be asked.
StartFullSync(f) ==
  /\ f \notin syncing
  /\ pc[f] = "idle"
  /\ left' = [left EXCEPT ![f] = Store]
  /\ syncing' = syncing \cup {f}
  /\ UNCHANGED <<dataVars, runPc, runStore, runBy, runDay, waited, passVars,
                 bookVars, missed>>

\* runScheduledStore()
StartScheduled(f, r, s) ==
  /\ f \in syncing
  /\ s \in left[f]
  /\ Start(r, s, f)
  /\ left' = [left EXCEPT ![f] = @ \ {s}]
  /\ UNCHANGED <<dataVars, runDay, syncing, passVars, bookVars, missed>>

\* The store cannot start: its group is locked, or it was switched off.
Skip(f, s) ==
  /\ f \in syncing
  /\ s \in left[f]
  /\ left' = [left EXCEPT ![f] = @ \ {s}]
  /\ UNCHANGED <<dataVars, runPc, runStore, runBy, runDay, waited, syncing,
                 passVars, bookVars, missed>>

\* collectStore() stamps the persist with the clock's day.
BeginPersist(r) ==
  /\ runPc[r] = "walking"
  /\ runPc' = [runPc EXCEPT ![r] = "persisting"]
  /\ runDay' = [runDay EXCEPT ![r] = today]
  /\ UNCHANGED <<dataVars, runStore, runBy, waited, left, syncing, passVars,
                 bookVars, missed>>

OffersOf(s) == {o \in Offer : StoreOf[o] = s}

\* The persist commits: the offers seen have a price, those the sweep did not
\* see are out of stock, those the walk did not reach are left alone.  Nothing
\* seen and nothing gone is also how a collection that fails, or is rolled
\* back, ends.
Persist(r) ==
  LET mine == OffersOf(runStore[r]) IN
  /\ runPc[r] = "persisting"
  /\ runPc' = [runPc EXCEPT ![r] = "ended"]
  /\ runDay' = [runDay EXCEPT ![r] = 1]
  /\ \E seen \in SUBSET mine : \E p \in [seen -> 1..MaxPrice] :
       /\ price' = [o \in Offer |->
                      IF o \in seen THEN [price[o] EXCEPT ![runDay[r]] = p[o]]
                                    ELSE price[o]]
       /\ \E gone \in SUBSET (mine \ seen) : stocked' = (stocked \ gone) \cup seen
  /\ missed' = IF r \in waited \/ UNCHANGED <<price, stocked>>
               THEN missed ELSE missed \cup mine
  /\ UNCHANGED <<today, runStore, runBy, waited, left, syncing, passVars,
                 bookVars>>

\* The wait ends, with the collection or, whatever it is doing, by timeout.
\* After a manual run comes a dispatch.
RunEnds(r) ==
  /\ r \in waited
  /\ waited' = waited \ {r}
  /\ IF runBy[r] = r THEN Goto(r, "resolve") ELSE UNCHANGED pc
  /\ UNCHANGED <<dataVars, runPc, runStore, runBy, runDay, left, syncing, day,
                 claimed, heard, bookVars, missed>>

\* Every track has settled.
DispatchAfterSync(f) ==
  /\ f \in syncing
  /\ left[f] = {}
  /\ \A r \in waited : runBy[r] # f
  /\ syncing' = syncing \ {f}
  /\ Goto(f, "resolve")
  /\ UNCHANGED <<dataVars, runPc, runStore, runBy, runDay, waited, left, day,
                 claimed, heard, bookVars, missed>>

\* Mutant: the day is shifted on its way in.
DispatchByHandOneOff(d, x) ==
  /\ pc[d] = "idle"
  /\ Goto(d, "claim")
  /\ day' = [day EXCEPT ![d] = x + 1]
  /\ UNCHANGED <<dataVars, runVars, claimed, heard, bookVars, missed>>

\* POST /push/digest of a given day; without one it is as after a sync.
DispatchByHand(d, x) ==
  /\ pc[d] = "idle"
  /\ Goto(d, "claim")
  /\ day' = [day EXCEPT ![d] = x]
  /\ UNCHANGED <<dataVars, runVars, claimed, heard, bookVars, missed>>

-----------------------------------------------------------------------------
(* dispatch() *)

\* Mutant: the day is read from the clock.
ResolveDayByClock(d) ==
  /\ pc[d] = "resolve"
  /\ day' = [day EXCEPT ![d] = today]
  /\ Goto(d, "claim")
  /\ UNCHANGED <<dataVars, runVars, claimed, heard, bookVars, missed>>

\* resolveDay(): from the data, and from the clock when there is none.
LatestOrToday ==
  IF \E x \in Day : IsLatest(x) THEN CHOOSE x \in Day : IsLatest(x) ELSE today

ResolveDay(d) ==
  /\ pc[d] = "resolve"
  /\ day' = [day EXCEPT ![d] = LatestOrToday]
  /\ Goto(d, "claim")
  /\ UNCHANGED <<dataVars, runVars, claimed, heard, bookVars, missed>>

\* Mutant: ON CONFLICT DO UPDATE, which returns the conflicting rows too.
ClaimAgain(d) ==
  LET rows == Candidates(day[d]) IN
  /\ pc[d] = "claim"
  /\ claimed' = [claimed EXCEPT ![d] = rows]
  /\ log' = log \cup rows
  /\ missed' = IF IsLatest(day[d]) THEN {} ELSE missed
  /\ Goto(d, "announce")
  /\ UNCHANGED <<dataVars, runVars, day, heard, inbox, pruned, lost,
                 newest>>

\* claimDrops(): one statement, INSERT ... ON CONFLICT DO NOTHING RETURNING.
Claim(d) ==
  LET rows == Candidates(day[d]) \ log IN
  /\ pc[d] = "claim"
  /\ claimed' = [claimed EXCEPT ![d] = rows]
  /\ log' = log \cup rows
  /\ missed' = IF IsLatest(day[d]) THEN {} ELSE missed
  /\ Goto(d, "announce")
  /\ UNCHANGED <<dataVars, runVars, day, heard, inbox, pruned, lost,
                 newest>>

\* The rows a dispatch has claimed and not yet told their users of.
Owes(d) == {w \in claimed[d] : w[1] \notin heard[d]}

\* One turn of announce(): the user's message, with its recipient, commits.  It
\* has a line for each bottling, which names the best of the offers owed and
\* counts the others in.
Deliver(d, u) ==
  /\ pc[d] = "announce"
  /\ \E w \in Owes(d) : w[1] = u
  /\ heard' = [heard EXCEPT ![d] = @ \cup {u}]
  /\ inbox' = [w \in Row |-> IF w \in Owes(d) /\ w[1] = u THEN inbox[w] + 1
                                                          ELSE inbox[w]]
  /\ UNCHANGED <<dataVars, runVars, pc, day, claimed, log, pruned,
                 lost, newest, missed>>

\* Mutant: the notifications go out before the loop is through.
PushEarly(d) ==
  /\ pc[d] = "announce"
  /\ Goto(d, "prune")
  /\ UNCHANGED <<dataVars, runVars, day, claimed, heard, bookVars, missed>>

\* push(), once the loop is through: to whichever devices are subscribed.
Push(d) ==
  /\ pc[d] = "announce"
  /\ Owes(d) = {}
  /\ Goto(d, "prune")
  /\ UNCHANGED <<dataVars, runVars, day, claimed, heard, bookVars, missed>>

\* Mutant: the bound is inclusive.
ExpiredInclusive(w, d) == w[3] + Retention <= day[d]

\* What a dispatch knew goes with it.
End(d) ==
  /\ Goto(d, "done")
  /\ day' = [day EXCEPT ![d] = 1]
  /\ claimed' = [claimed EXCEPT ![d] = {}]
  /\ heard' = [heard EXCEPT ![d] = {}]

\* pruneDigestLog(): strictly before the dispatched day less the retention.
Expired(w, d) == w[3] + Retention < day[d]

Prune(d) ==
  LET old == {w \in log : Expired(w, d)} IN
  /\ pc[d] = "prune"
  /\ log' = log \ old
  /\ pruned' = pruned \cup old
  /\ newest' = IF day[d] > newest THEN day[d] ELSE newest
  /\ End(d)
  /\ UNCHANGED <<dataVars, runVars, inbox, lost, missed>>

\* Mutant: a dispatch that breaks down gives its claims back.
DispatchFailsReleasing(d) ==
  /\ CanFail
  /\ Active(d)
  /\ End(d)
  /\ log' = IF pc[d] = "announce" THEN log \ Owes(d) ELSE log
  /\ missed' = IF pc[d] \in {"resolve", "claim"} THEN Offer ELSE missed
  /\ UNCHANGED <<dataVars, runVars, inbox, pruned, lost, newest>>

\* A statement fails or the process dies: there is no second attempt.
DispatchFails(d) ==
  /\ CanFail
  /\ Active(d)
  /\ End(d)
  /\ lost' = IF pc[d] = "announce" THEN lost \cup Owes(d) ELSE lost
  /\ missed' = IF pc[d] \in {"resolve", "claim"} THEN Offer ELSE missed
  /\ UNCHANGED <<dataVars, runVars, log, inbox, pruned, newest>>

\* The process dies with its full sync.
FullSyncDies(f) ==
  /\ CanFail
  /\ f \in syncing
  /\ syncing' = syncing \ {f}
  /\ waited' = {r \in waited : runBy[r] # f}
  /\ runPc' = [r \in Run |-> IF runBy[r] = f THEN "ended" ELSE runPc[r]]
  /\ Goto(f, "done")
  /\ missed' = Offer
  /\ UNCHANGED <<dataVars, runStore, runBy, runDay, left, day, claimed, heard,
                 bookVars>>

\* Nothing is under way and the bounded supply of runs, syncs and days is used.
Finished ==
  /\ today = MaxDay
  /\ waited = {} /\ syncing = {}
  /\ \A r \in Run : runPc[r] = "ended"
  /\ \A d \in Dispatch : ~Active(d)
  /\ \A d \in FullSync \cup Operator : pc[d] = "done"
  /\ UNCHANGED vars

-----------------------------------------------------------------------------
DispatchStep(d) ==
  \/ ResolveDay(d) \/ Claim(d) \/ Push(d) \/ Prune(d) \/ DispatchFails(d)
  \/ \E u \in User : Deliver(d, u)

RunOrSyncStep ==
  \/ \E r \in Run :
       \/ BeginPersist(r) \/ Persist(r) \/ RunEnds(r)
       \/ \E s \in Store :
            \/ StartByHand(r, s)
            \/ \E f \in FullSync : StartScheduled(f, r, s)
  \/ \E f \in FullSync :
       \/ StartFullSync(f) \/ DispatchAfterSync(f) \/ FullSyncDies(f)
       \/ \E s \in Store : Skip(f, s)

Next ==
  \/ NextDay
  \/ RunOrSyncStep
  \/ \E d \in Operator, x \in ForcedDay : DispatchByHand(d, x)
  \/ \E d \in Dispatch : DispatchStep(d)
  \/ Finished

Spec == Init /\ [][Next]_vars

-----------------------------------------------------------------------------
(* Properties *)

TypeOK ==
  /\ today \in Day
  /\ price \in [Offer -> [Day -> 0..MaxPrice]]
  /\ stocked \subseteq Offer
  /\ runPc \in [Run -> RunStep]
  /\ runStore \in [Run -> Store]
  /\ runBy \in [Run -> Run \cup FullSync]
  /\ runDay \in [Run -> Day]
  /\ waited \subseteq Run
  /\ left \in [FullSync -> SUBSET Store]
  /\ syncing \subseteq FullSync
  /\ pc \in [Dispatch -> Step]
  /\ day \in [Dispatch -> Day \cup ForcedDay]
  /\ claimed \in [Dispatch -> SUBSET Row]
  /\ heard \in [Dispatch -> SUBSET User]
  /\ log \subseteq Row
  /\ inbox \in [Row -> Nat]
  /\ pruned \subseteq Row
  /\ lost \subseteq Row
  /\ newest \in Nat
  /\ missed \subseteq Offer

\* The dispatches that have yet to tell a row's user of it.
Owing(w) == {d \in Dispatch : pc[d] = "announce" /\ w \in Owes(d)}

\* "a drop is announced exactly once": as long as the log remembers it, a row
\* is in one inbox message, or owed by one dispatch, or was lost by one, and
\* only one of these; however many dispatches run at once.
EachDropOnce ==
  \A w \in Row \ pruned :
    IF w \in log
    THEN \/ inbox[w] = 1 /\ Owing(w) = {} /\ w \notin lost
         \/ inbox[w] = 0 /\ (\E d \in Dispatch : Owing(w) = {d}) /\ w \notin lost
         \/ inbox[w] = 0 /\ Owing(w) = {} /\ w \in lost
    ELSE inbox[w] = 0 /\ Owing(w) = {} /\ w \notin lost

\* Nobody is notified before every user's message is on file: the inbox is
\* the durable record, whatever breaks after it.
InboxBeforePush ==
  \A d \in Dispatch :
    pc[d] = "prune" => \A w \in claimed[d] : inbox[w] > 0

\* No awaited run's drop is forgotten: with nothing left to come, every drop
\* of the latest day that somebody wants has been claimed, unless it was
\* written by a collection the timeout abandoned, or a dispatch broke down.
Quiet ==
  /\ waited = {} /\ syncing = {}
  /\ \A d \in Dispatch : pc[d] \notin {"resolve", "claim"}

DropsAreClaimed ==
  Quiet => \A d \in Day : IsLatest(d) =>
             \A w \in Candidates(d) :
               w[2] \notin missed => w \in log \cup pruned

\* Somebody has claimed the row before, whatever became of it.
Taken(w) == inbox[w] > 0 \/ w \in lost \/ Owing(w) # {}

\* "A repeat call for the same day claims nothing and sends nothing": what was
\* ever claimed, by whichever dispatch and with whatever outcome, is claimed
\* again only when some dispatch has covered a day more than the retention past
\* it.  So no dispatch of a day the log should still know repeats a drop.
RepeatsAreOld ==
  [][\A d \in Dispatch :
       \A w \in claimed'[d] \ claimed[d] :
         Taken(w) => w[3] + Retention < newest]_vars

\* What DropLedger promises: a claimed row is told or lost, once and for good,
\* until the log forgets it ("the shared source of truth and the shared dedup").
OwedNow ==
  [d \in Dispatch |-> IF pc[d] = "announce" THEN Owes(d) \ pruned ELSE {}]

ToldNow == {w \in Row \ pruned : inbox[w] > 0}

LostNow == lost \ pruned

Ledger ==
  INSTANCE DropLedger WITH
    Holder <- Dispatch, owed <- OwedNow, told <- ToldNow, lost <- LostNow,
    forgotten <- pruned

ImplementsLedger == Ledger!LedgerSpec

=============================================================================
