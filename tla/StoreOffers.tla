----------------------------- MODULE StoreOffers -----------------------------
(***************************************************************************)
(* What a persist writes about one store: its offers and their snapshots   *)
(* for the capture day.  Every persist is one READ COMMITTED transaction;  *)
(* two of the same store overlap when a timed-out collection persists      *)
(* after a newer run took the store's lock.                                *)
(*                                                                         *)
(* A transaction's own writes are kept apart (`mine`, `mineDay`) until it  *)
(* commits.  A row it wrote is locked: others wait for it.  An UPDATE over *)
(* many rows picks them in what is visible when it begins, then takes them *)
(* one at a time, and looks again at a row it had to wait for.             *)
(***************************************************************************)
EXTENDS Naturals, FiniteSets

CONSTANTS
  Sku,       \* the store's SKUs
  Bottling,  \* the canonical products its offers may be linked to
  Persist,   \* names of transactions; an ended one's name is used again
  Faults,    \* which of FaultKinds may happen
  NoLink,    \* the link of an offer that is not on file
  Unwritten  \* in place of a row a transaction has not written

FaultKinds == {
  "abort",  \* the connection is lost, or a deadlock is lost: rolled back
  "kb"      \* a statement of a best-effort pass fails
}

VARIABLES
  offer,    \* committed store_product rows
  day,      \* committed price_snapshot rows of the capture day: their inStock
  pc,       \* the statement each persist is at, see Statement
  seen,     \* the SKUs its listing showed in stock
  gone,     \* the SKUs its listing showed out of stock
  whole,    \* whether the walk reached the end of the listing
  known,    \* the SKUs existingSkus() returned
  todo,     \* SKUs the write loop has still to reach
  targets,  \* rows the UPDATE under way picked and has still to take
  mine,     \* uncommitted offers
  mineDay,  \* uncommitted snapshots
  late      \* history: offers others put in stock since the sweep began

vars == <<offer, day, pc, seen, gone, whole, known, todo, targets, mine,
          mineDay, late>>

Statement == {
  "idle",
  "writing",   \* in the write loop, about to upsert an offer
  "pricing",   \* that offer upserted, its snapshot not yet
  "sweeping",  \* flagOutOfStock() picked its rows
  "closing",   \* markOutOfStockForDay() picked its rows
  "doomed"     \* a statement failed: Postgres refuses every further one
}

Offer == [link : Bottling \cup {NoLink}, inStock : BOOLEAN]

\* "none" where the offer has no snapshot for the day.
DayState == {"none", "in", "out"}

ASSUME StoreOffersAssumptions ==
  /\ NoLink \notin Bottling
  /\ Unwritten \notin Offer \cup DayState
  /\ Faults \subseteq FaultKinds

NotOnFile == [link |-> NoLink, inStock |-> FALSE]

OnFile(o) == o.link # NoLink

\* The rows as transaction t sees them: its own writes over what is committed.
View(t, s)    == IF mine[t][s] = Unwritten THEN offer[s] ELSE mine[t][s]
DayView(t, s) == IF mineDay[t][s] = Unwritten THEN day[s] ELSE mineDay[t][s]

\* No other transaction holds the row.
OfferFree(t, s) == \A u \in Persist \ {t} : mine[u][s] = Unwritten
DayFree(t, s)   == \A u \in Persist \ {t} : mineDay[u][s] = Unwritten

run == <<seen, gone, whole, known>>

-----------------------------------------------------------------------------
Init ==
  /\ offer = [s \in Sku |-> NotOnFile]
  /\ day = [s \in Sku |-> "none"]
  /\ pc = [t \in Persist |-> "idle"]
  /\ seen = [t \in Persist |-> {}]
  /\ gone = [t \in Persist |-> {}]
  /\ whole = [t \in Persist |-> FALSE]
  /\ known = [t \in Persist |-> {}]
  /\ todo = [t \in Persist |-> {}]
  /\ targets = [t \in Persist |-> {}]
  /\ mine = [t \in Persist |-> [s \in Sku |-> Unwritten]]
  /\ mineDay = [t \in Persist |-> [s \in Sku |-> Unwritten]]
  /\ late = [t \in Persist |-> {}]

\* persist() begins with a collected listing and reads the SKUs on file.  The
\* explicit out-of-stock SKUs matter only when the walk gave up.
Open(t, inStock, oos, complete) ==
  /\ pc[t] = "idle"
  /\ inStock \cap oos = {}
  /\ complete => oos = {}
  /\ pc' = [pc EXCEPT ![t] = "writing"]
  /\ seen' = [seen EXCEPT ![t] = inStock]
  /\ gone' = [gone EXCEPT ![t] = oos]
  /\ whole' = [whole EXCEPT ![t] = complete]
  /\ known' = [known EXCEPT ![t] = {s \in Sku : OnFile(offer[s])}]
  /\ todo' = [todo EXCEPT ![t] = inStock]
  /\ UNCHANGED <<offer, day, targets, mine, mineDay, late>>

\* Mutant: the conflict clause takes EXCLUDED."productId" as well.
UpsertedRelinking(s, proposed) == [link |-> proposed, inStock |-> TRUE]

\* UPSERT_SQL: the link is in the INSERT and nowhere in the conflict clause.
Upserted(s, proposed) ==
  [link |-> IF OnFile(offer[s]) THEN offer[s].link ELSE proposed,
   inStock |-> TRUE]

\* TOUCH_SQL
Touched(s) == [offer[s] EXCEPT !.inStock = TRUE]

\* upsertOffer(): a touch for a SKU on file when the persist began, an upsert
\* with the bottling its key resolved to for any other.  The order is that of
\* the match keys, which a reworded listing changes.
WriteOffer(t, s, proposed) ==
  /\ pc[t] = "writing"
  /\ s \in todo[t]
  /\ OfferFree(t, s)
  /\ pc' = [pc EXCEPT ![t] = "pricing"]
  /\ mine' = [mine EXCEPT ![t][s] = IF s \in known[t] THEN Touched(s)
                                    ELSE Upserted(s, proposed)]
  /\ UNCHANGED <<offer, day, run, todo, targets, mineDay, late>>

\* Mutant: the snapshot's state takes the flag itself.
WriteSnapshotFlag(t, s) ==
  /\ pc[t] = "pricing"
  /\ s \in todo[t]
  /\ mine[t][s] # Unwritten
  /\ DayFree(t, s)
  /\ pc' = [pc EXCEPT ![t] = "writing"]
  /\ todo' = [todo EXCEPT ![t] = @ \ {s}]
  /\ mineDay' = [mineDay EXCEPT ![t][s] = "true"]
  /\ UNCHANGED <<offer, day, run, targets, mine, late>>

\* upsertForDate(): one row per offer and day, the last write wins.
WriteSnapshot(t, s) ==
  /\ pc[t] = "pricing"
  /\ s \in todo[t]
  /\ mine[t][s] # Unwritten
  /\ DayFree(t, s)
  /\ pc' = [pc EXCEPT ![t] = "writing"]
  /\ todo' = [todo EXCEPT ![t] = @ \ {s}]
  /\ mineDay' = [mineDay EXCEPT ![t][s] = "in"]
  /\ UNCHANGED <<offer, day, run, targets, mine, late>>

\* logConflicts() or applyKb(), after the loop: the error is caught and
\* logged, but the transaction it failed in can only be rolled back.
BestEffortFails(t) ==
  /\ "kb" \in Faults
  /\ pc[t] = "writing"
  /\ todo[t] = {}
  /\ pc' = [pc EXCEPT ![t] = "doomed"]
  /\ UNCHANGED <<offer, day, run, todo, targets, mine, mineDay, late>>

\* Mutant: an incomplete listing sweeps as well.
SweepTargetsOfAnyListing(t) ==
  {s \in Sku \ seen[t] : View(t, s).inStock}

\* Mutant: a complete listing flags only the explicit SKUs.
SweepTargetsExplicit(t) ==
  {s \in Sku : View(t, s).inStock /\ s \in gone[t]}

\* flagOutOfStock(): markOutOfStockExcept() after a whole walk,
\* markOutOfStockBySkus() otherwise.
SweepTargets(t) ==
  {s \in Sku : /\ View(t, s).inStock
               /\ IF whole[t] THEN s \notin seen[t] ELSE s \in gone[t]}

SweepBegins(t) ==
  /\ pc[t] = "writing"
  /\ todo[t] = {}
  /\ pc' = [pc EXCEPT ![t] = "sweeping"]
  /\ targets' = [targets EXCEPT ![t] = SweepTargets(t)]
  /\ late' = [late EXCEPT ![t] = {}]
  /\ UNCHANGED <<offer, day, run, todo, mine, mineDay>>

\* A row that stopped matching while the statement waited for it is left.
SweepRow(t, s) ==
  /\ pc[t] = "sweeping"
  /\ s \in targets[t]
  /\ OfferFree(t, s)
  /\ targets' = [targets EXCEPT ![t] = @ \ {s}]
  /\ mine' = IF View(t, s).inStock
             THEN [mine EXCEPT ![t][s] = [View(t, s) EXCEPT !.inStock = FALSE]]
             ELSE mine
  /\ UNCHANGED <<offer, day, pc, run, todo, mineDay, late>>

\* Mutant: only the offers the listing named as out of stock.
DayTargetsExplicit(t) ==
  {s \in gone[t] : DayView(t, s) = "in" /\ ~View(t, s).inStock}

\* markOutOfStockForDay(): the subselect on store_product is not asked again
\* of a row the statement waited for.
DayTargets(t) == {s \in Sku : DayView(t, s) = "in" /\ ~View(t, s).inStock}

DayCloseBegins(t) ==
  /\ pc[t] = "sweeping"
  /\ targets[t] = {}
  /\ pc' = [pc EXCEPT ![t] = "closing"]
  /\ targets' = [targets EXCEPT ![t] = DayTargets(t)]
  /\ UNCHANGED <<offer, day, run, todo, mine, mineDay, late>>

DayCloseRow(t, s) ==
  /\ pc[t] = "closing"
  /\ s \in targets[t]
  /\ DayFree(t, s)
  /\ targets' = [targets EXCEPT ![t] = @ \ {s}]
  /\ mineDay' = IF DayView(t, s) = "in"
                THEN [mineDay EXCEPT ![t][s] = "out"]
                ELSE mineDay
  /\ UNCHANGED <<offer, day, pc, run, todo, mine, late>>

\* The end of a transaction, whatever became of it: its locks are free.
End(t) ==
  /\ pc' = [pc EXCEPT ![t] = "idle"]
  /\ seen' = [seen EXCEPT ![t] = {}]
  /\ gone' = [gone EXCEPT ![t] = {}]
  /\ whole' = [whole EXCEPT ![t] = FALSE]
  /\ known' = [known EXCEPT ![t] = {}]
  /\ todo' = [todo EXCEPT ![t] = {}]
  /\ targets' = [targets EXCEPT ![t] = {}]
  /\ mine' = [mine EXCEPT ![t] = [s \in Sku |-> Unwritten]]
  /\ mineDay' = [mineDay EXCEPT ![t] = [s \in Sku |-> Unwritten]]

Commit(t) ==
  /\ pc[t] = "closing"
  /\ targets[t] = {}
  /\ offer' = [s \in Sku |-> View(t, s)]
  /\ day' = [s \in Sku |-> DayView(t, s)]
  /\ late' = [u \in Persist |->
                IF u = t THEN {}
                ELSE late[u] \cup
                     {s \in Sku : View(t, s).inStock /\ ~offer[s].inStock}]
  /\ End(t)

Abort(t) ==
  /\ \/ pc[t] = "doomed"
     \/ pc[t] # "idle" /\ "abort" \in Faults
  /\ late' = [late EXCEPT ![t] = {}]
  /\ End(t)
  /\ UNCHANGED <<offer, day>>

\* An administrator moves an offer, in a transaction of its own.
Relink(s, b) ==
  /\ OnFile(offer[s])
  /\ \A t \in Persist : mine[t][s] = Unwritten
  /\ offer' = [offer EXCEPT ![s].link = b]
  /\ UNCHANGED <<day, pc, run, todo, targets, mine, mineDay, late>>

-----------------------------------------------------------------------------
PersistStep(t) ==
  \/ \E inStock, oos \in SUBSET Sku, complete \in BOOLEAN :
       Open(t, inStock, oos, complete)
  \/ \E s \in Sku, b \in Bottling : WriteOffer(t, s, b)
  \/ \E s \in Sku : WriteSnapshot(t, s)
  \/ BestEffortFails(t)
  \/ SweepBegins(t)
  \/ \E s \in Sku : SweepRow(t, s)
  \/ DayCloseBegins(t)
  \/ \E s \in Sku : DayCloseRow(t, s)
  \/ Commit(t)
  \/ Abort(t)

Next ==
  \/ \E t \in Persist : PersistStep(t)
  \/ \E s \in Sku, b \in Bottling : Relink(s, b)

Spec == Init /\ [][Next]_vars

-----------------------------------------------------------------------------
(* Properties *)

\* Type correctness.
TypeOK ==
  /\ offer \in [Sku -> Offer]
  /\ day \in [Sku -> DayState]
  /\ pc \in [Persist -> Statement]
  /\ seen \in [Persist -> SUBSET Sku]
  /\ gone \in [Persist -> SUBSET Sku]
  /\ whole \in [Persist -> BOOLEAN]
  /\ known \in [Persist -> SUBSET Sku]
  /\ todo \in [Persist -> SUBSET Sku]
  /\ targets \in [Persist -> SUBSET Sku]
  /\ mine \in [Persist -> [Sku -> Offer \cup {Unwritten}]]
  /\ mineDay \in [Persist -> [Sku -> DayState \cup {Unwritten}]]
  /\ late \in [Persist -> SUBSET Sku]

\* "the write that keeps a day's rows agreeing with the availability the run
\* ended on": whatever persists overlapped, whichever commits and whichever is
\* rolled back, the day's committed snapshot says of an offer what the offer
\* says of itself.
DayAgreesWithOffers ==
  \A s \in Sku : day[s] # "none" => (day[s] = "in" <=> offer[s].inStock)

\* "a manual relink is never undone by the next sync": once an offer is on
\* file, no step of any persist changes its bottling, not even of one that
\* read the SKUs on file before the offer was inserted and moved.
RelinkStands ==
  [][\A s \in Sku : OnFile(offer[s]) /\ offer'[s].link # offer[s].link
                    => UNCHANGED <<pc, mine>>]_vars

\* A whole walk's persist leaves an offer it did not see in stock only if
\* another persist put it in stock after the sweep had picked its rows.
UnseenStaysOnlyByLateWrites ==
  [][\A t \in Persist, s \in Sku :
       /\ Commit(t)
       /\ whole[t] /\ s \notin seen[t]
       /\ offer'[s].inStock
       => s \in late[t]]_vars

\* A walk that gave up proves nothing of what it did not reach: its persist
\* takes no offer out of stock that its listing did not name as sold out.
FragmentSparesTheUnseen ==
  [][\A t \in Persist, s \in Sku :
       /\ Commit(t)
       /\ ~whole[t] /\ s \notin gone[t]
       /\ offer[s].inStock
       => offer'[s].inStock]_vars

-----------------------------------------------------------------------------
(* What a comment says and the code does not do *)

\* applyKb(): "a knowledge-base failure must not lose a scrape that succeeded".
BestEffortLosesNothing ==
  [][\A t \in Persist :
       pc[t] = "doomed" /\ pc'[t] = "idle"
       => \A s \in seen[t] : offer'[s].inStock]_vars

=============================================================================
