-------------------------- MODULE StoreOffers_proofs --------------------------
(***************************************************************************)
(* Proofs about StoreOffers, for any number of SKUs, bottlings and         *)
(* overlapping persists.                                                   *)
(*                                                                         *)
(* The argument is about row locks.  A transaction that wrote an offer's   *)
(* snapshot wrote the offer first and still holds it, so no two hold parts *)
(* of the same pair; what it holds is consistent (PairInv), and by the     *)
(* time it closes the day the pairs it will commit agree.                  *)
(***************************************************************************)
EXTENDS StoreOffers, TLAPS

\* What the offers on file, and nothing else, can be.
OfferInv == \A s \in Sku : offer[s].inStock => OnFile(offer[s])

\* A row has one writer.
LockInv ==
  \A t, u \in Persist, s \in Sku :
    t # u => /\ mine[t][s] = Unwritten \/ mine[u][s] = Unwritten
             /\ mineDay[t][s] = Unwritten \/ mineDay[u][s] = Unwritten

\* A rewritten offer keeps the link it has on file.
LinkInv ==
  \A t \in Persist, s \in Sku :
    mine[t][s] # Unwritten
      => /\ OnFile(mine[t][s])
         /\ OnFile(offer[s]) => mine[t][s].link = offer[s].link

\* What was on file when a transaction began still is.
KnownInv == \A t \in Persist, s \in Sku : s \in known[t] => OnFile(offer[s])

\* Where a transaction is, and what that says of the rows it has written.
LoopInv ==
  \A t \in Persist :
    /\ todo[t] \subseteq seen[t]
    /\ seen[t] \cap gone[t] = {}
    /\ pc[t] \notin {"writing", "pricing"} => todo[t] = {}
    /\ pc[t] = "writing" => \A s \in todo[t] : mine[t][s] = Unwritten
    /\ pc[t] = "pricing" =>
         \A s, q \in todo[t] :
           mine[t][s] # Unwritten /\ mine[t][q] # Unwritten => s = q
    /\ pc[t] = "idle" =>
         \A s \in Sku : mine[t][s] = Unwritten /\ mineDay[t][s] = Unwritten

\* What the sweep of t may flag.
MayFlag(t, s) == IF whole[t] THEN s \notin seen[t] ELSE s \in gone[t]

\* The two halves of what a transaction wrote of one SKU.
PairInv ==
  \A t \in Persist, s \in Sku :
    /\ mineDay[t][s] # Unwritten => mine[t][s] # Unwritten
    /\ mineDay[t][s] = "in" => mine[t][s].inStock
    /\ mineDay[t][s] # "none"
    /\ mineDay[t][s] = "out" => ~mine[t][s].inStock
    /\ mine[t][s] # Unwritten /\ mine[t][s].inStock
         => /\ s \in seen[t]
            /\ \/ mineDay[t][s] = "in"
               \/ pc[t] = "pricing" /\ s \in todo[t]
    /\ mine[t][s] # Unwritten /\ ~mine[t][s].inStock
         => /\ pc[t] \in {"sweeping", "closing"}
            /\ MayFlag(t, s)

\* The rows an UPDATE under way has picked.
TargetInv ==
  \A t \in Persist, s \in Sku :
    /\ pc[t] = "sweeping" /\ s \in targets[t] => MayFlag(t, s)
    /\ pc[t] = "closing" /\ s \in targets[t]
         => mine[t][s] # Unwritten /\ ~mine[t][s].inStock
    /\ pc[t] = "closing" /\ mine[t][s] # Unwritten /\ ~mine[t][s].inStock
         => s \in targets[t] \/ DayView(t, s) # "in"

\* Offers in stock that a whole walk did not see and its sweep did not take.
LateInv ==
  \A t \in Persist, s \in Sku :
    /\ pc[t] \in {"sweeping", "closing"}
    /\ whole[t] /\ s \notin seen[t]
    /\ mine[t][s] = Unwritten
    /\ offer[s].inStock
    => s \in late[t] \/ (pc[t] = "sweeping" /\ s \in targets[t])

IInv ==
  /\ TypeOK /\ OfferInv /\ LockInv /\ LinkInv /\ KnownInv /\ LoopInv
  /\ PairInv /\ TargetInv /\ LateInv /\ DayAgreesWithOffers


-----------------------------------------------------------------------------
(* What is written and what is seen are rows. *)

LEMMA Rows ==
  ASSUME TypeOK, NEW t \in Persist, NEW s \in Sku
  PROVE  View(t, s) \in Offer /\ DayView(t, s) \in DayState
BY DEF TypeOK, View, DayView

LEMMA Written ==
  ASSUME TypeOK, NEW s \in Sku, NEW b \in Bottling
  PROVE  /\ Touched(s) \in Offer /\ Upserted(s, b) \in Offer
         /\ Touched(s).inStock /\ Upserted(s, b).inStock
         /\ Touched(s).link = offer[s].link
         /\ OnFile(offer[s]) => Upserted(s, b).link = offer[s].link
         /\ OnFile(Upserted(s, b))
<1> offer[s] \in Offer  BY DEF TypeOK
<1> QED  BY StoreOffersAssumptions DEF Touched, Upserted, Offer, OnFile

LEMMA Flagged ==
  ASSUME NEW o \in Offer
  PROVE  /\ [o EXCEPT !.inStock = FALSE] \in Offer
         /\ [o EXCEPT !.inStock = FALSE].link = o.link
         /\ ~[o EXCEPT !.inStock = FALSE].inStock
BY DEF Offer

-----------------------------------------------------------------------------
(* Every step of a persist preserves the invariant. *)

LEMMA OpenStep ==
  ASSUME NEW t \in Persist, NEW inStock \in SUBSET Sku, NEW oos \in SUBSET Sku, NEW complete \in BOOLEAN,
         IInv, Open(t, inStock, oos, complete)
  PROVE  IInv'
<1> USE StoreOffersAssumptions DEF IInv, run
<1>1. TypeOK'
  BY DEF TypeOK, Open, Offer, DayState, Statement, NotOnFile
<1>2. OfferInv'
  BY DEF OfferInv, TypeOK, LinkInv, Open, Offer, View, OnFile
<1>3. LockInv'
  BY DEF LockInv, TypeOK, Open
<1>4. LinkInv'
  BY DEF LinkInv, TypeOK, OfferInv, LockInv, Open, Offer, View, OnFile
<1>5. LoopInv'
  BY DEF LoopInv, TypeOK, Open
<1>6. PairInv'
  BY DEF PairInv, TypeOK, LoopInv, TargetInv, Open, MayFlag, Offer, DayState,
         View, DayView
<1>7. TargetInv'
  BY DEF TargetInv, TypeOK, LockInv, LoopInv, PairInv, DayAgreesWithOffers,
         Open, MayFlag, Offer, View, DayView
<1>8. LateInv'
  BY DEF LateInv, TypeOK, LockInv, LoopInv, PairInv, Open, MayFlag, Offer,
         View
<1>9. DayAgreesWithOffers'
  BY DEF DayAgreesWithOffers, TypeOK, LoopInv, PairInv, TargetInv, Open,
         Offer, DayState, View, DayView
<1>10. KnownInv'
  BY DEF KnownInv, TypeOK, LinkInv, OnFile, Open
<1> QED  BY <1>1, <1>2, <1>3, <1>4, <1>5, <1>6, <1>7, <1>8, <1>9, <1>10

LEMMA WriteOfferStep ==
  ASSUME NEW t \in Persist, NEW s \in Sku, NEW b \in Bottling,
         IInv, WriteOffer(t, s, b)
  PROVE  IInv'
<1> USE StoreOffersAssumptions DEF IInv, run
<1> DEFINE row == IF s \in known[t] THEN Touched(s) ELSE Upserted(s, b)
<1>0. row \in Offer /\ mine' = [mine EXCEPT ![t][s] = row]
  BY Written DEF WriteOffer
<1>1. TypeOK'
  <2> HIDE DEF row
  <2>1. mine' \in [Persist -> [Sku -> Offer \cup {Unwritten}]]
    BY <1>0 DEF TypeOK
  <2> QED  BY <2>1 DEF TypeOK, WriteOffer, Statement
<1>2. OfferInv'
  BY DEF OfferInv, TypeOK, LinkInv, WriteOffer, Touched, Upserted, OfferFree,
         OnFile, Offer, View
<1>3. LockInv'
  BY DEF LockInv, TypeOK, WriteOffer, Touched, Upserted, OfferFree, OnFile
<1>4. LinkInv'
  <2>1. s \in known[t] => OnFile(offer[s])
    BY DEF KnownInv, WriteOffer
  <2>2. OnFile(row) /\ (OnFile(offer[s]) => row.link = offer[s].link)
    BY <2>1, Written DEF OnFile
  <2> HIDE DEF row
  <2> QED  BY <1>0, <2>2 DEF LinkInv, TypeOK, WriteOffer
<1>5. LoopInv'
  BY DEF LoopInv, TypeOK, WriteOffer, Touched, Upserted, OfferFree, OnFile
<1>6. PairInv'
  BY DEF PairInv, TypeOK, LoopInv, TargetInv, WriteOffer, Touched, Upserted,
         OfferFree, OnFile, MayFlag, Offer, DayState, View, DayView
<1>7. TargetInv'
  BY DEF TargetInv, TypeOK, LockInv, LoopInv, PairInv, DayAgreesWithOffers,
         WriteOffer, Touched, Upserted, OfferFree, OnFile, MayFlag, Offer,
         View, DayView
<1>8. LateInv'
  BY DEF LateInv, TypeOK, LockInv, LoopInv, PairInv, WriteOffer, Touched,
         Upserted, OfferFree, OnFile, MayFlag, Offer, View
<1>9. DayAgreesWithOffers'
  BY DEF DayAgreesWithOffers, TypeOK, LoopInv, PairInv, TargetInv, WriteOffer,
         Touched, Upserted, OfferFree, OnFile, Offer, DayState, View, DayView
<1>10. KnownInv'
  BY DEF KnownInv, TypeOK, LinkInv, OnFile, WriteOffer
<1> QED  BY <1>1, <1>2, <1>3, <1>4, <1>5, <1>6, <1>7, <1>8, <1>9, <1>10

LEMMA WriteSnapshotStep ==
  ASSUME NEW t \in Persist, NEW s \in Sku,
         IInv, WriteSnapshot(t, s)
  PROVE  IInv'
<1> USE StoreOffersAssumptions DEF IInv, run
<1>1. TypeOK'
  BY DEF TypeOK, WriteSnapshot, DayFree, Offer, DayState, Statement, NotOnFile
<1>2. OfferInv'
  BY DEF OfferInv, TypeOK, LinkInv, WriteSnapshot, DayFree, Offer, View,
         OnFile
<1>3. LockInv'
  BY DEF LockInv, TypeOK, WriteSnapshot, DayFree
<1>4. LinkInv'
  BY DEF LinkInv, TypeOK, OfferInv, LockInv, WriteSnapshot, DayFree, Offer,
         View, OnFile
<1>5. LoopInv'
  BY DEF LoopInv, TypeOK, WriteSnapshot, DayFree
<1>6. PairInv'
  BY DEF PairInv, TypeOK, LoopInv, TargetInv, WriteSnapshot, DayFree, MayFlag,
         Offer, DayState, View, DayView
<1>7. TargetInv'
  BY DEF TargetInv, TypeOK, LockInv, LoopInv, PairInv, DayAgreesWithOffers,
         WriteSnapshot, DayFree, MayFlag, Offer, View, DayView
<1>8. LateInv'
  BY DEF LateInv, TypeOK, LockInv, LoopInv, PairInv, WriteSnapshot, DayFree,
         MayFlag, Offer, View
<1>9. DayAgreesWithOffers'
  BY DEF DayAgreesWithOffers, TypeOK, LoopInv, PairInv, TargetInv,
         WriteSnapshot, DayFree, Offer, DayState, View, DayView
<1>10. KnownInv'
  BY DEF KnownInv, TypeOK, LinkInv, OnFile, WriteSnapshot
<1> QED  BY <1>1, <1>2, <1>3, <1>4, <1>5, <1>6, <1>7, <1>8, <1>9, <1>10

LEMMA BestEffortFailsStep ==
  ASSUME NEW t \in Persist,
         IInv, BestEffortFails(t)
  PROVE  IInv'
<1> USE StoreOffersAssumptions DEF IInv, run
<1>1. TypeOK'
  BY DEF TypeOK, BestEffortFails, Offer, DayState, Statement, NotOnFile
<1>2. OfferInv'
  BY DEF OfferInv, TypeOK, LinkInv, BestEffortFails, Offer, View, OnFile
<1>3. LockInv'
  BY DEF LockInv, TypeOK, BestEffortFails
<1>4. LinkInv'
  BY DEF LinkInv, TypeOK, OfferInv, LockInv, BestEffortFails, Offer, View,
         OnFile
<1>5. LoopInv'
  BY DEF LoopInv, TypeOK, BestEffortFails
<1>6. PairInv'
  BY DEF PairInv, TypeOK, LoopInv, TargetInv, BestEffortFails, MayFlag, Offer,
         DayState, View, DayView
<1>7. TargetInv'
  BY DEF TargetInv, TypeOK, LockInv, LoopInv, PairInv, DayAgreesWithOffers,
         BestEffortFails, MayFlag, Offer, View, DayView
<1>8. LateInv'
  BY DEF LateInv, TypeOK, LockInv, LoopInv, PairInv, BestEffortFails, MayFlag,
         Offer, View
<1>9. DayAgreesWithOffers'
  BY DEF DayAgreesWithOffers, TypeOK, LoopInv, PairInv, TargetInv,
         BestEffortFails, Offer, DayState, View, DayView
<1>10. KnownInv'
  BY DEF KnownInv, TypeOK, LinkInv, OnFile, BestEffortFails
<1> QED  BY <1>1, <1>2, <1>3, <1>4, <1>5, <1>6, <1>7, <1>8, <1>9, <1>10

LEMMA SweepBeginsStep ==
  ASSUME NEW t \in Persist,
         IInv, SweepBegins(t)
  PROVE  IInv'
<1> USE StoreOffersAssumptions DEF IInv, run
<1>1. TypeOK'
  BY DEF TypeOK, SweepBegins, SweepTargets, Offer, DayState, Statement,
         NotOnFile
<1>2. OfferInv'
  BY DEF OfferInv, TypeOK, LinkInv, SweepBegins, SweepTargets, Offer, View,
         OnFile
<1>3. LockInv'
  BY DEF LockInv, TypeOK, SweepBegins, SweepTargets
<1>4. LinkInv'
  BY DEF LinkInv, TypeOK, OfferInv, LockInv, SweepBegins, SweepTargets, Offer,
         View, OnFile
<1>5. LoopInv'
  BY DEF LoopInv, TypeOK, SweepBegins, SweepTargets
<1>6. PairInv'
  BY DEF PairInv, TypeOK, LoopInv, TargetInv, SweepBegins, SweepTargets,
         MayFlag, Offer, DayState, View, DayView
<1>7. TargetInv'
  BY DEF TargetInv, TypeOK, LockInv, LoopInv, PairInv, DayAgreesWithOffers,
         SweepBegins, SweepTargets, MayFlag, Offer, View, DayView
<1>8. LateInv'
  BY DEF LateInv, TypeOK, LockInv, LoopInv, PairInv, SweepBegins,
         SweepTargets, MayFlag, Offer, View
<1>9. DayAgreesWithOffers'
  BY DEF DayAgreesWithOffers, TypeOK, LoopInv, PairInv, TargetInv,
         SweepBegins, SweepTargets, Offer, DayState, View, DayView
<1>10. KnownInv'
  BY DEF KnownInv, TypeOK, LinkInv, OnFile, SweepBegins
<1> QED  BY <1>1, <1>2, <1>3, <1>4, <1>5, <1>6, <1>7, <1>8, <1>9, <1>10

LEMMA SweepRowStep ==
  ASSUME NEW t \in Persist, NEW s \in Sku,
         IInv, SweepRow(t, s)
  PROVE  IInv'
<1> USE StoreOffersAssumptions DEF IInv, run
<1> DEFINE row == [View(t, s) EXCEPT !.inStock = FALSE]
<1>0. row \in Offer /\ row # Unwritten
  BY Rows, Flagged
<1>1. TypeOK'
  <2> HIDE DEF row
  <2>1. mine' \in [Persist -> [Sku -> Offer \cup {Unwritten}]]
    BY <1>0 DEF TypeOK, SweepRow, row
  <2> QED  BY <2>1 DEF TypeOK, SweepRow
<1>2. OfferInv'
  BY DEF OfferInv, TypeOK, LinkInv, SweepRow, OfferFree, Offer, View, OnFile
<1>3. LockInv'
  BY DEF LockInv, TypeOK, SweepRow, OfferFree
<1>4. LinkInv'
  BY DEF LinkInv, TypeOK, OfferInv, LockInv, SweepRow, OfferFree, Offer, View,
         OnFile
<1>5. LoopInv'
  BY DEF LoopInv, TypeOK, SweepRow, OfferFree
<1>6. PairInv'
  BY DEF PairInv, TypeOK, LoopInv, TargetInv, SweepRow, OfferFree, MayFlag,
         Offer, DayState, View, DayView
<1>7. TargetInv'
  BY DEF TargetInv, TypeOK, LockInv, LoopInv, PairInv, DayAgreesWithOffers,
         SweepRow, OfferFree, MayFlag, Offer, View, DayView
<1>8. LateInv'
  <2>1. CASE View(t, s).inStock
    BY <1>0, <2>1 DEF LateInv, TypeOK, SweepRow
  <2>2. CASE ~View(t, s).inStock
    BY <2>2 DEF LateInv, TypeOK, SweepRow, View
  <2> QED  BY <2>1, <2>2
<1>9. DayAgreesWithOffers'
  BY DEF DayAgreesWithOffers, TypeOK, LoopInv, PairInv, TargetInv, SweepRow,
         OfferFree, Offer, DayState, View, DayView
<1>10. KnownInv'
  BY DEF KnownInv, TypeOK, LinkInv, OnFile, SweepRow
<1> QED  BY <1>1, <1>2, <1>3, <1>4, <1>5, <1>6, <1>7, <1>8, <1>9, <1>10

LEMMA DayCloseBeginsStep ==
  ASSUME NEW t \in Persist,
         IInv, DayCloseBegins(t)
  PROVE  IInv'
<1> USE StoreOffersAssumptions DEF IInv, run
<1>1. TypeOK'
  BY DEF TypeOK, DayCloseBegins, DayTargets, Offer, DayState, Statement,
         NotOnFile
<1>2. OfferInv'
  BY DEF OfferInv, TypeOK, LinkInv, DayCloseBegins, DayTargets, Offer, View,
         OnFile
<1>3. LockInv'
  BY DEF LockInv, TypeOK, DayCloseBegins, DayTargets
<1>4. LinkInv'
  BY DEF LinkInv, TypeOK, OfferInv, LockInv, DayCloseBegins, DayTargets,
         Offer, View, OnFile
<1>5. LoopInv'
  BY DEF LoopInv, TypeOK, DayCloseBegins, DayTargets
<1>6. PairInv'
  BY DEF PairInv, TypeOK, LoopInv, TargetInv, DayCloseBegins, DayTargets,
         MayFlag, Offer, DayState, View, DayView
<1>7. TargetInv'
  BY DEF TargetInv, TypeOK, LockInv, LoopInv, PairInv, DayAgreesWithOffers,
         DayCloseBegins, DayTargets, MayFlag, Offer, View, DayView
<1>8. LateInv'
  BY DEF LateInv, TypeOK, LockInv, LoopInv, PairInv, DayCloseBegins,
         DayTargets, MayFlag, Offer, View
<1>9. DayAgreesWithOffers'
  BY DEF DayAgreesWithOffers, TypeOK, LoopInv, PairInv, TargetInv,
         DayCloseBegins, DayTargets, Offer, DayState, View, DayView
<1>10. KnownInv'
  BY DEF KnownInv, TypeOK, LinkInv, OnFile, DayCloseBegins
<1> QED  BY <1>1, <1>2, <1>3, <1>4, <1>5, <1>6, <1>7, <1>8, <1>9, <1>10

LEMMA DayCloseRowStep ==
  ASSUME NEW t \in Persist, NEW s \in Sku,
         IInv, DayCloseRow(t, s)
  PROVE  IInv'
<1> USE StoreOffersAssumptions DEF IInv, run
<1>1. TypeOK'
  BY DEF TypeOK, DayCloseRow, DayFree, Offer, DayState, Statement, NotOnFile
<1>2. OfferInv'
  BY DEF OfferInv, TypeOK, LinkInv, DayCloseRow, DayFree, Offer, View, OnFile
<1>3. LockInv'
  BY DEF LockInv, TypeOK, DayCloseRow, DayFree
<1>4. LinkInv'
  BY DEF LinkInv, TypeOK, OfferInv, LockInv, DayCloseRow, DayFree, Offer,
         View, OnFile
<1>5. LoopInv'
  BY DEF LoopInv, TypeOK, DayCloseRow, DayFree
<1>6. PairInv'
  BY DEF PairInv, TypeOK, LoopInv, TargetInv, DayCloseRow, DayFree, MayFlag,
         Offer, DayState, View, DayView
<1>7. TargetInv'
  <2>1. \A q \in Sku : DayView(t, q)' # "in" \/ DayView(t, q)' = DayView(t, q)
    BY DEF TypeOK, DayCloseRow, DayView, DayState
  <2>2. DayView(t, s)' # "in"
    BY DEF TypeOK, DayCloseRow, DayView, DayState
  <2>3. \A u \in Persist \ {t}, q \in Sku : DayView(u, q)' = DayView(u, q)
    BY DEF TypeOK, DayCloseRow, DayView
  <2> QED  BY <2>1, <2>2, <2>3 DEF TargetInv, TypeOK, DayCloseRow, MayFlag
<1>8. LateInv'
  BY DEF LateInv, TypeOK, LockInv, LoopInv, PairInv, DayCloseRow, DayFree,
         MayFlag, Offer, View
<1>9. DayAgreesWithOffers'
  BY DEF DayAgreesWithOffers, TypeOK, LoopInv, PairInv, TargetInv,
         DayCloseRow, DayFree, Offer, DayState, View, DayView
<1>10. KnownInv'
  BY DEF KnownInv, TypeOK, LinkInv, OnFile, DayCloseRow
<1> QED  BY <1>1, <1>2, <1>3, <1>4, <1>5, <1>6, <1>7, <1>8, <1>9, <1>10

LEMMA CommitStep ==
  ASSUME NEW t \in Persist,
         IInv, Commit(t)
  PROVE  IInv'
<1> USE StoreOffersAssumptions DEF IInv, run
<1>1. TypeOK'
  <2>1. offer' \in [Sku -> Offer] /\ day' \in [Sku -> DayState]
    BY Rows DEF Commit
  <2>2. late' \in [Persist -> SUBSET Sku]
    BY DEF TypeOK, Commit
  <2> QED  BY <2>1, <2>2 DEF TypeOK, Commit, End, Statement
<1>2. OfferInv'
  BY DEF OfferInv, TypeOK, LinkInv, Commit, End, Offer, View, OnFile
<1>3. LockInv'
  BY DEF LockInv, TypeOK, Commit, End
<1>4. LinkInv'
  BY DEF LinkInv, TypeOK, OfferInv, LockInv, Commit, End, Offer, View, OnFile
<1>5. LoopInv'
  BY DEF LoopInv, TypeOK, Commit, End
<1>6. PairInv'
  BY DEF PairInv, TypeOK, LoopInv, TargetInv, Commit, End, MayFlag, Offer,
         DayState, View, DayView
<1>7. TargetInv'
  BY DEF TargetInv, TypeOK, LockInv, LoopInv, PairInv, DayAgreesWithOffers,
         Commit, End, MayFlag, Offer, View, DayView
<1>8. LateInv'
  BY DEF LateInv, TypeOK, LockInv, LoopInv, PairInv, Commit, End, MayFlag,
         Offer, View
<1>9. DayAgreesWithOffers'
  BY DEF DayAgreesWithOffers, TypeOK, LoopInv, PairInv, TargetInv, Commit,
         End, Offer, DayState, View, DayView
<1>10. KnownInv'
  BY DEF KnownInv, TypeOK, LinkInv, OnFile, Commit, End, View
<1> QED  BY <1>1, <1>2, <1>3, <1>4, <1>5, <1>6, <1>7, <1>8, <1>9, <1>10

LEMMA AbortStep ==
  ASSUME NEW t \in Persist,
         IInv, Abort(t)
  PROVE  IInv'
<1> USE StoreOffersAssumptions DEF IInv, run
<1>1. TypeOK'
  BY DEF TypeOK, Abort, End, Offer, DayState, Statement, NotOnFile
<1>2. OfferInv'
  BY DEF OfferInv, TypeOK, LinkInv, Abort, End, Offer, View, OnFile
<1>3. LockInv'
  BY DEF LockInv, TypeOK, Abort, End
<1>4. LinkInv'
  BY DEF LinkInv, TypeOK, OfferInv, LockInv, Abort, End, Offer, View, OnFile
<1>5. LoopInv'
  BY DEF LoopInv, TypeOK, Abort, End
<1>6. PairInv'
  BY DEF PairInv, TypeOK, LoopInv, TargetInv, Abort, End, MayFlag, Offer,
         DayState, View, DayView
<1>7. TargetInv'
  BY DEF TargetInv, TypeOK, LockInv, LoopInv, PairInv, DayAgreesWithOffers,
         Abort, End, MayFlag, Offer, View, DayView
<1>8. LateInv'
  BY DEF LateInv, TypeOK, LockInv, LoopInv, PairInv, Abort, End, MayFlag,
         Offer, View
<1>9. DayAgreesWithOffers'
  BY DEF DayAgreesWithOffers, TypeOK, LoopInv, PairInv, TargetInv, Abort, End,
         Offer, DayState, View, DayView
<1>10. KnownInv'
  BY DEF KnownInv, TypeOK, LinkInv, OnFile, Abort, End
<1> QED  BY <1>1, <1>2, <1>3, <1>4, <1>5, <1>6, <1>7, <1>8, <1>9, <1>10

LEMMA RelinkStep ==
  ASSUME NEW s \in Sku, NEW b \in Bottling, IInv, Relink(s, b)
  PROVE  IInv'
<1> USE StoreOffersAssumptions DEF IInv, run
<1>0. /\ offer' \in [Sku -> Offer]
      /\ \A q \in Sku : q # s => offer'[q] = offer[q]
      /\ \A q \in Sku : offer'[q].inStock = offer[q].inStock
      /\ OnFile(offer'[s])
  <2> offer[s] \in Offer  BY DEF TypeOK
  <2> DEFINE row == [offer[s] EXCEPT !.link = b]
  <2>1. row \in Offer /\ row.inStock = offer[s].inStock /\ OnFile(row)
    BY DEF Offer, OnFile
  <2>2. offer' = [offer EXCEPT ![s] = row]
    BY DEF Relink
  <2> QED  BY <2>1, <2>2 DEF TypeOK
<1>1. TypeOK'
  BY <1>0 DEF TypeOK, Relink
<1>2. OfferInv'
  <2>1. ASSUME NEW q \in Sku, offer'[q].inStock
        PROVE  OnFile(offer'[q])
    <3>1. CASE q = s
      BY <1>0, <3>1
    <3>2. CASE q # s
      <4>1. offer'[q] = offer[q]
        BY <3>2 DEF Relink, TypeOK
      <4>2. OnFile(offer[q])
        BY <2>1, <4>1 DEF OfferInv
      <4> QED  BY <4>1, <4>2 DEF OnFile
    <3> QED  BY <3>1, <3>2
  <2> QED  BY <2>1 DEF OfferInv, OnFile
<1>3. LockInv'
  BY DEF LockInv, Relink
<1>4. LinkInv'
  BY <1>0 DEF LinkInv, OnFile, Relink
<1>5. LoopInv'
  BY DEF LoopInv, Relink
<1>6. PairInv'
  BY DEF PairInv, MayFlag, Relink
<1>7. TargetInv'
  BY DEF TargetInv, MayFlag, DayView, Relink
<1>8. LateInv'
  BY <1>0 DEF LateInv, Relink
<1>9. DayAgreesWithOffers'
  BY <1>0 DEF DayAgreesWithOffers, Relink
<1>10. KnownInv'
  BY <1>0 DEF KnownInv, OnFile, Relink
<1> QED  BY <1>1, <1>2, <1>3, <1>4, <1>5, <1>6, <1>7, <1>8, <1>9, <1>10

LEMMA InitIInv == Init => IInv
<1> USE StoreOffersAssumptions
<1> SUFFICES ASSUME Init PROVE IInv  OBVIOUS
<1>1. TypeOK
  BY DEF Init, TypeOK, Offer, NotOnFile, DayState, Statement
<1>2. OfferInv /\ LockInv /\ LinkInv /\ KnownInv /\ DayAgreesWithOffers
  BY DEF Init, OfferInv, LockInv, LinkInv, KnownInv, DayAgreesWithOffers,
         NotOnFile
<1>3. LoopInv /\ PairInv /\ TargetInv /\ LateInv
  BY DEF Init, LoopInv, PairInv, TargetInv, LateInv, DayState
<1> QED  BY <1>1, <1>2, <1>3 DEF IInv

LEMMA NextIInv == IInv /\ [Next]_vars => IInv'
<1> SUFFICES ASSUME IInv, [Next]_vars PROVE IInv'  OBVIOUS
<1>1. CASE UNCHANGED vars
  BY <1>1 DEF vars, IInv, TypeOK, OfferInv, LockInv, LinkInv, KnownInv,
              LoopInv, PairInv, TargetInv, LateInv, DayAgreesWithOffers,
              MayFlag, DayView
<1>2. CASE \E s \in Sku, b \in Bottling : Relink(s, b)
  BY <1>2, RelinkStep
<1>3. ASSUME NEW t \in Persist, PersistStep(t)
      PROVE  IInv'
  BY <1>3, OpenStep, WriteOfferStep, WriteSnapshotStep, BestEffortFailsStep,
     SweepBeginsStep, SweepRowStep, DayCloseBeginsStep, DayCloseRowStep,
     CommitStep, AbortStep
     DEF PersistStep
<1> QED  BY <1>1, <1>2, <1>3 DEF Next

LEMMA Invariance == Spec => []IInv
BY InitIInv, NextIInv, PTL DEF Spec

-----------------------------------------------------------------------------
(* Theorems *)

\* Type correctness.
THEOREM TypeCorrect == Spec => []TypeOK
<1>1. IInv => TypeOK  BY DEF IInv
<1> QED  BY <1>1, Invariance, PTL

\* However many persists overlap, wherever they are rolled back: the day's
\* snapshots and the offers are never seen to disagree.
THEOREM DayAgreement == Spec => []DayAgreesWithOffers
<1>1. IInv => DayAgreesWithOffers  BY DEF IInv
<1> QED  BY <1>1, Invariance, PTL

\* upsertFromScrape() never undoes a relink: only a commit rewrites offers, and
\* what it writes was read under the row's lock.
THEOREM RelinksStand == Spec => RelinkStands
<1>1. ASSUME IInv, [Next]_vars
      PROVE  [\A s \in Sku :
                OnFile(offer[s]) /\ offer'[s].link # offer[s].link
                  => UNCHANGED <<pc, mine>>]_vars
  <2>1. CASE UNCHANGED vars
    BY <2>1 DEF vars
  <2>2. CASE \E s \in Sku, b \in Bottling : Relink(s, b)
    BY <2>2 DEF Relink
  <2>3. ASSUME NEW t \in Persist, PersistStep(t), NEW s \in Sku,
               OnFile(offer[s])
        PROVE  offer'[s].link = offer[s].link
    <3>1. CASE Commit(t)
      <4>1. offer'[s] = View(t, s)
        BY <3>1 DEF Commit
      <4>2. mine[t][s] # Unwritten => mine[t][s].link = offer[s].link
        BY <1>1, <2>3 DEF IInv, LinkInv
      <4> QED  BY <4>1, <4>2 DEF View
    <3>2. CASE ~Commit(t)
      BY <2>3, <3>2 DEF PersistStep, Open, WriteOffer, WriteSnapshot,
           BestEffortFails, SweepBegins, SweepRow, DayCloseBegins, DayCloseRow,
           Abort
    <3> QED  BY <3>1, <3>2
  <2> QED  BY <1>1, <2>1, <2>2, <2>3 DEF Next
<1> QED  BY <1>1, Invariance, PTL DEF Spec, RelinkStands

\* A whole walk's sweep misses only offers another persist put in stock while
\* it was under way.
THEOREM SweepIsWhole == Spec => UnseenStaysOnlyByLateWrites
<1>1. ASSUME IInv, NEW t \in Persist, NEW s \in Sku,
             Commit(t), whole[t], s \notin seen[t], offer'[s].inStock
      PROVE  s \in late[t]
  <2>1. View(t, s).inStock
    BY <1>1 DEF Commit
  <2>2. mine[t][s] = Unwritten
    BY <1>1, <2>1 DEF IInv, PairInv, View
  <2> QED  BY <1>1, <2>1, <2>2 DEF IInv, LateInv, View, Commit
<1>2. IInv => [\A t \in Persist, s \in Sku :
                 /\ Commit(t)
                 /\ whole[t] /\ s \notin seen[t]
                 /\ offer'[s].inStock
                 => s \in late[t]]_vars
  BY <1>1
<1> QED  BY <1>2, Invariance, PTL DEF Spec, UnseenStaysOnlyByLateWrites

\* A walk that gave up takes nothing out of stock but what it saw sold out.
THEOREM FragmentsSpare == Spec => FragmentSparesTheUnseen
<1>1. ASSUME IInv, NEW t \in Persist, NEW s \in Sku,
             Commit(t), ~whole[t], s \notin gone[t], offer[s].inStock
      PROVE  offer'[s].inStock
  <2>1. offer'[s] = View(t, s)
    BY <1>1 DEF Commit
  <2> QED  BY <1>1, <2>1 DEF IInv, PairInv, MayFlag, View
<1>2. IInv => [\A t \in Persist, s \in Sku :
                 /\ Commit(t)
                 /\ ~whole[t] /\ s \notin gone[t]
                 /\ offer[s].inStock
                 => offer'[s].inStock]_vars
  BY <1>1
<1> QED  BY <1>2, Invariance, PTL DEF Spec, FragmentSparesTheUnseen

=============================================================================
