-------------------------- MODULE PushDigest_proofs --------------------------
(***************************************************************************)
(* What PushDigest promises for any number of users, offers, stores, runs, *)
(* full syncs, operators and days.                                         *)
(***************************************************************************)
EXTENDS PushDigest, TLAPS

-----------------------------------------------------------------------------
(* Type correctness *)

LEMMA OneIsADay == 1 \in Day /\ 2 \in Day
BY PushDigestAssumptions DEF Day

LEMMA DaysAreNumbers == ASSUME NEW x \in Day \cup ForcedDay PROVE x \in Nat
<1>1. CASE x \in Day
  BY <1>1, PushDigestAssumptions DEF Day
<1>2. CASE x \in ForcedDay
  BY <1>2, PushDigestAssumptions
<1> QED
  BY <1>1, <1>2

LEMMA RowDays == ASSUME NEW w \in Row PROVE w[3] \in Nat
<1>1. PICK u \in User, o \in Offer, x \in Day \cup ForcedDay : w = <<u, o, x>>
  BY DEF Row
<1>2. w[3] = x
  BY <1>1
<1> QED
  BY <1>2, DaysAreNumbers

LEMMA CandidatesAreRows ==
  ASSUME NEW d \in Day \cup ForcedDay
  PROVE  Candidates(d) \subseteq Row
BY PushDigestAssumptions DEF Candidates, Row

LEMMA TypeInit == Init => TypeOK
<1> SUFFICES ASSUME Init PROVE TypeOK
  OBVIOUS
<1>1. price \in [Offer -> [Day -> 0..MaxPrice]]
  BY PushDigestAssumptions DEF Init
<1>2. runStore \in [Run -> Store] /\ runBy \in [Run -> Run \cup FullSync]
  BY DEF Init
<1>3. stocked \subseteq Offer
  BY PushDigestAssumptions DEF Init
<1> QED
  BY <1>1, <1>2, <1>3, OneIsADay DEF Init, TypeOK, RunStep, Step

\* What the steps of runs and full syncs change.
LEMMA StartKept ==
  ASSUME TypeOK, NEW r \in Run, NEW s \in Store, NEW by \in Run \cup FullSync,
         Start(r, s, by)
  PROVE  /\ runPc' \in [Run -> RunStep]
         /\ runStore' \in [Run -> Store]
         /\ runBy' \in [Run -> Run \cup FullSync]
         /\ waited' \subseteq Run
BY DEF Start, TypeOK, RunStep

LEMMA GotoKept ==
  ASSUME TypeOK, NEW d, NEW s \in Step, Goto(d, s)
  PROVE  pc' \in [Dispatch -> Step]
BY DEF Goto, TypeOK

LEMMA PersistKept ==
  ASSUME TypeOK, NEW r \in Run, Persist(r)
  PROVE  /\ price' \in [Offer -> [Day -> 0..MaxPrice]]
         /\ stocked' \subseteq Offer
         /\ runPc' \in [Run -> RunStep]
         /\ runDay' \in [Run -> Day]
         /\ missed' \subseteq Offer
<1> DEFINE mine == OffersOf(runStore[r])
<1>1. mine \subseteq Offer
  BY DEF OffersOf
<1> HIDE DEF mine
<1>2. PICK seen \in SUBSET mine :
        \E p \in [seen -> 1..MaxPrice] :
          /\ price' = [o \in Offer |->
                         IF o \in seen
                         THEN [price[o] EXCEPT ![runDay[r]] = p[o]]
                         ELSE price[o]]
          /\ \E gone \in SUBSET (mine \ seen) :
               stocked' = (stocked \ gone) \cup seen
  BY DEF Persist, mine
<1>8. PICK p \in [seen -> 1..MaxPrice] :
        price' = [o \in Offer |->
                    IF o \in seen
                    THEN [price[o] EXCEPT ![runDay[r]] = p[o]]
                    ELSE price[o]]
  BY <1>2
<1>3. ASSUME NEW o \in seen
      PROVE  [price[o] EXCEPT ![runDay[r]] = p[o]] \in [Day -> 0..MaxPrice]
  <2>1. price[o] \in [Day -> 0..MaxPrice]
    BY <1>1, <1>3 DEF TypeOK
  <2>2. p[o] \in 0..MaxPrice
    BY <1>3, PushDigestAssumptions
  <2> QED
    BY <2>1, <2>2
<1>4. price' \in [Offer -> [Day -> 0..MaxPrice]]
  BY <1>8, <1>3 DEF TypeOK
<1>5. stocked' \subseteq Offer
  BY <1>1, <1>2 DEF TypeOK
<1>6. runPc' \in [Run -> RunStep] /\ runDay' \in [Run -> Day]
  BY OneIsADay DEF Persist, TypeOK, RunStep
<1>7. missed' \subseteq Offer
  BY <1>1 DEF Persist, TypeOK, mine
<1> QED
  BY <1>4, <1>5, <1>6, <1>7

LEMMA EndKept ==
  ASSUME TypeOK, NEW d \in Dispatch, End(d)
  PROVE  /\ pc' \in [Dispatch -> Step]
         /\ day' \in [Dispatch -> Day \cup ForcedDay]
         /\ claimed' \in [Dispatch -> SUBSET Row]
         /\ heard' \in [Dispatch -> SUBSET User]
<1>1. pc' \in [Dispatch -> Step]
  BY GotoKept DEF End, Step
<1> QED
  BY <1>1, OneIsADay DEF End, TypeOK

LEMMA ResolvedIsADay == TypeOK => LatestOrToday \in Day
BY DEF LatestOrToday, TypeOK

LEMMA TypeNext == TypeOK /\ [Next]_vars => TypeOK'
<1> SUFFICES ASSUME TypeOK, [Next]_vars PROVE TypeOK'
  OBVIOUS
<1> USE DEF dataVars, runVars, passVars, bookVars
<1>1. CASE NextDay
  <2>1. today' \in Day
    BY <1>1, PushDigestAssumptions DEF NextDay, TypeOK, Day
  <2> QED
    BY <1>1, <2>1 DEF NextDay, TypeOK
<1>2. ASSUME NEW r \in Run, NEW s \in Store, StartByHand(r, s) PROVE TypeOK'
  BY <1>2, StartKept DEF StartByHand, TypeOK
<1>3. ASSUME NEW r \in Run, NEW s \in Store, NEW f \in FullSync,
             StartScheduled(f, r, s)
      PROVE  TypeOK'
  <2>1. left' \in [FullSync -> SUBSET Store]
    BY <1>3 DEF StartScheduled, TypeOK
  <2> QED
    BY <1>3, <2>1, StartKept DEF StartScheduled, TypeOK
<1>4. ASSUME NEW r \in Run, BeginPersist(r) PROVE TypeOK'
  BY <1>4 DEF BeginPersist, TypeOK, RunStep
<1>5. ASSUME NEW r \in Run, Persist(r) PROVE TypeOK'
  BY <1>5, PersistKept DEF Persist, TypeOK
<1>6. ASSUME NEW r \in Run, RunEnds(r) PROVE TypeOK'
  <2>1. pc' \in [Dispatch -> Step]
    BY <1>6, GotoKept DEF RunEnds, Step, TypeOK
  <2> QED
    BY <1>6, <2>1 DEF RunEnds, TypeOK
<1>7. ASSUME NEW f \in FullSync, StartFullSync(f) PROVE TypeOK'
  BY <1>7 DEF StartFullSync, TypeOK
<1>8. ASSUME NEW f \in FullSync, NEW s \in Store, Skip(f, s) PROVE TypeOK'
  BY <1>8 DEF Skip, TypeOK
<1>9. ASSUME NEW f \in FullSync, DispatchAfterSync(f) PROVE TypeOK'
  <2>1. pc' \in [Dispatch -> Step]
    BY <1>9, GotoKept DEF DispatchAfterSync, Step
  <2> QED
    BY <1>9, <2>1 DEF DispatchAfterSync, TypeOK
<1>10. ASSUME NEW f \in FullSync, FullSyncDies(f) PROVE TypeOK'
  <2>1. pc' \in [Dispatch -> Step]
    BY <1>10, GotoKept DEF FullSyncDies, Step
  <2>2. runPc' \in [Run -> RunStep]
    BY <1>10 DEF FullSyncDies, TypeOK, RunStep
  <2> QED
    BY <1>10, <2>1, <2>2 DEF FullSyncDies, TypeOK
<1>11. ASSUME NEW d \in Operator, NEW x \in ForcedDay, DispatchByHand(d, x)
       PROVE  TypeOK'
  <2>1. pc' \in [Dispatch -> Step]
    BY <1>11, GotoKept DEF DispatchByHand, Step
  <2>2. day' \in [Dispatch -> Day \cup ForcedDay]
    BY <1>11 DEF DispatchByHand, TypeOK
  <2> QED
    BY <1>11, <2>1, <2>2 DEF DispatchByHand, TypeOK
<1>12. ASSUME NEW d \in Dispatch, ResolveDay(d) PROVE TypeOK'
  <2>1. pc' \in [Dispatch -> Step]
    BY <1>12, GotoKept DEF ResolveDay, Step
  <2>2. day' \in [Dispatch -> Day \cup ForcedDay]
    BY <1>12, ResolvedIsADay DEF ResolveDay, TypeOK
  <2> QED
    BY <1>12, <2>1, <2>2 DEF ResolveDay, TypeOK
<1>13. ASSUME NEW d \in Dispatch, Claim(d) PROVE TypeOK'
  <2>1. pc' \in [Dispatch -> Step]
    BY <1>13, GotoKept DEF Claim, Step
  <2>2. Candidates(day[d]) \subseteq Row
    BY CandidatesAreRows DEF TypeOK
  <2>3. claimed' \in [Dispatch -> SUBSET Row] /\ log' \subseteq Row
    BY <1>13, <2>2 DEF Claim, TypeOK
  <2>4. missed' \subseteq Offer
    BY <1>13 DEF Claim, TypeOK
  <2> QED
    BY <1>13, <2>1, <2>3, <2>4 DEF Claim, TypeOK
<1>14. ASSUME NEW d \in Dispatch, NEW u \in User, Deliver(d, u) PROVE TypeOK'
  <2>1. heard' \in [Dispatch -> SUBSET User]
    BY <1>14 DEF Deliver, TypeOK
  <2>2. inbox' \in [Row -> Nat]
    BY <1>14 DEF Deliver, TypeOK
  <2> QED
    BY <1>14, <2>1, <2>2 DEF Deliver, TypeOK
<1>15. ASSUME NEW d \in Dispatch, Push(d) PROVE TypeOK'
  <2>1. pc' \in [Dispatch -> Step]
    BY <1>15, GotoKept DEF Push, Step
  <2> QED
    BY <1>15, <2>1 DEF Push, TypeOK
<1>16. ASSUME NEW d \in Dispatch, Prune(d) PROVE TypeOK'
  <2>1. /\ pc' \in [Dispatch -> Step]
        /\ day' \in [Dispatch -> Day \cup ForcedDay]
        /\ claimed' \in [Dispatch -> SUBSET Row]
        /\ heard' \in [Dispatch -> SUBSET User]
    BY <1>16, EndKept DEF Prune
  <2>2. newest' \in Nat
    BY <1>16, PushDigestAssumptions DEF Prune, TypeOK, Day
  <2>3. log' \subseteq Row /\ pruned' \subseteq Row
    BY <1>16 DEF Prune, TypeOK
  <2> QED
    BY <1>16, <2>1, <2>2, <2>3 DEF Prune, TypeOK
<1>17. ASSUME NEW d \in Dispatch, DispatchFails(d) PROVE TypeOK'
  <2>1. /\ pc' \in [Dispatch -> Step]
        /\ day' \in [Dispatch -> Day \cup ForcedDay]
        /\ claimed' \in [Dispatch -> SUBSET Row]
        /\ heard' \in [Dispatch -> SUBSET User]
    BY <1>17, EndKept DEF DispatchFails
  <2>2. lost' \subseteq Row /\ missed' \subseteq Offer
    BY <1>17 DEF DispatchFails, TypeOK, Owes
  <2> QED
    BY <1>17, <2>1, <2>2 DEF DispatchFails, TypeOK
<1>18. CASE UNCHANGED vars
  BY <1>18 DEF vars, TypeOK
<1> QED
  BY <1>1, <1>2, <1>3, <1>4, <1>5, <1>6, <1>7, <1>8, <1>9, <1>10, <1>11,
     <1>12, <1>13, <1>14, <1>15, <1>16, <1>17, <1>18
  DEF Next, RunOrSyncStep, DispatchStep, Finished

\* Every variable keeps its type.
THEOREM TypeCorrect == Spec => []TypeOK
BY TypeInit, TypeNext, PTL DEF Spec

-----------------------------------------------------------------------------
(* A drop is announced once *)

Telling == {"announce", "prune"}

\* A dispatch knows of claimed rows only from its claim to its end.
OnlyWhileTelling ==
  \A d \in Dispatch :
    pc[d] \notin Telling => claimed[d] = {} /\ heard[d] = {}

\* Whoever was told has it in the inbox, and a dispatch that is past its loop
\* has told everyone.
ToldIsOnFile ==
  \A d \in Dispatch :
    /\ \A w \in claimed[d] : w[1] \in heard[d] => inbox[w] > 0
    /\ pc[d] = "prune" => Owes(d) = {}

PrunedIsOld == \A w \in pruned : w[3] + Retention < newest

\* A sync or a run that is still on its way has no dispatch yet.
DispatchComesAfter ==
  /\ \A f \in syncing : pc[f] = "idle"
  /\ \A r \in Run : runPc[r] = "none" => pc[r] = "idle" /\ r \notin waited
  /\ \A r \in waited : runBy[r] = r => pc[r] = "idle"

DigestInv ==
  /\ OnlyWhileTelling
  /\ ToldIsOnFile
  /\ PrunedIsOld
  /\ EachDropOnce

LEMMA DigestInit == Init => DigestInv /\ DispatchComesAfter
<1> SUFFICES ASSUME Init PROVE DigestInv /\ DispatchComesAfter
  OBVIOUS
<1>1. OnlyWhileTelling /\ ToldIsOnFile /\ PrunedIsOld
  BY DEF Init, OnlyWhileTelling, ToldIsOnFile, PrunedIsOld
<1>2. ASSUME NEW w \in Row PROVE inbox[w] = 0 /\ Owing(w) = {}
  BY DEF Init, Owing
<1>3. EachDropOnce
  BY <1>2 DEF Init, EachDropOnce
<1>4. DispatchComesAfter
  BY DEF Init, DispatchComesAfter, Dispatch
<1> QED
  BY <1>1, <1>3, <1>4 DEF DigestInv

\* What no dispatch that is telling takes part in disturbs nothing.
LEMMA ElsewhereKept ==
  ASSUME DigestInv,
         \A d \in Dispatch :
           pc'[d] = pc[d] \/ (pc[d] \notin Telling /\ pc'[d] \notin Telling),
         UNCHANGED <<claimed, heard, bookVars>>
  PROVE  DigestInv'
<1>1. OnlyWhileTelling' /\ ToldIsOnFile' /\ PrunedIsOld'
  BY DEF DigestInv, OnlyWhileTelling, ToldIsOnFile, PrunedIsOld, Owes,
         Telling, bookVars
<1>2. ASSUME NEW w \in Row PROVE Owing(w)' = Owing(w)
  BY DEF Owing, Owes, Telling
<1>3. EachDropOnce'
  BY <1>2 DEF DigestInv, EachDropOnce, bookVars
<1> QED
  BY <1>1, <1>3 DEF DigestInv

LEMMA ClaimKept ==
  ASSUME TypeOK, DigestInv, NEW d \in Dispatch, Claim(d)
  PROVE  DigestInv'
<1> DEFINE rows == Candidates(day[d]) \ log
<1>1. rows \subseteq Row
  BY CandidatesAreRows DEF TypeOK
<1>2. /\ pc[d] = "claim"
      /\ claimed' = [claimed EXCEPT ![d] = rows]
      /\ log' = log \cup rows
      /\ pc' = [pc EXCEPT ![d] = "announce"]
      /\ UNCHANGED <<heard, inbox, pruned, lost, newest>>
  BY DEF Claim, Goto
<1>3. rows \cap log = {}
  OBVIOUS
<1> HIDE DEF rows
<1>4. claimed[d] = {} /\ heard[d] = {}
  BY <1>2 DEF DigestInv, OnlyWhileTelling, Telling
<1>5. OnlyWhileTelling'
  BY <1>2 DEF DigestInv, OnlyWhileTelling, Telling, TypeOK
<1>6. ToldIsOnFile'
  BY <1>2, <1>4 DEF DigestInv, ToldIsOnFile, TypeOK, Owes
<1>7. PrunedIsOld'
  BY <1>2 DEF DigestInv, PrunedIsOld
<1>8. ASSUME NEW w \in Row, w \in rows PROVE Owing(w)' = Owing(w) \cup {d}
  BY <1>2, <1>4, <1>8 DEF Owing, Owes, TypeOK
<1>9. ASSUME NEW w \in Row, w \notin rows PROVE Owing(w)' = Owing(w)
  BY <1>2, <1>4, <1>9 DEF Owing, Owes, TypeOK
<1>10. ASSUME NEW w \in Row \ pruned
       PROVE  IF w \in log'
              THEN \/ inbox[w] = 1 /\ Owing(w)' = {} /\ w \notin lost
                   \/ /\ inbox[w] = 0 /\ w \notin lost
                      /\ \E e \in Dispatch : Owing(w)' = {e}
                   \/ inbox[w] = 0 /\ Owing(w)' = {} /\ w \in lost
              ELSE inbox[w] = 0 /\ Owing(w)' = {} /\ w \notin lost
  <2>1. CASE w \in rows
    <3>1. inbox[w] = 0 /\ Owing(w) = {} /\ w \notin lost
      BY <1>3, <2>1 DEF DigestInv, EachDropOnce
    <3>2. Owing(w)' = {d} /\ w \in log'
      BY <1>2, <1>8, <2>1, <3>1
    <3> QED
      BY <3>1, <3>2
  <2>2. CASE w \notin rows
    <3>1. Owing(w)' = Owing(w) /\ (w \in log' <=> w \in log)
      BY <1>2, <1>9, <2>2
    <3> QED
      BY <3>1 DEF DigestInv, EachDropOnce
  <2> QED
    BY <2>1, <2>2
<1>11. EachDropOnce'
  BY <1>2, <1>10 DEF EachDropOnce
<1> QED
  BY <1>5, <1>6, <1>7, <1>11 DEF DigestInv

LEMMA DeliverKept ==
  ASSUME TypeOK, DigestInv, NEW d \in Dispatch, NEW u \in User, Deliver(d, u)
  PROVE  DigestInv'
<1> DEFINE told == {w \in Owes(d) : w[1] = u}
<1>1. /\ pc[d] = "announce"
      /\ heard' = [heard EXCEPT ![d] = @ \cup {u}]
      /\ \A w \in Row : inbox'[w] = IF w \in told THEN inbox[w] + 1
                                                  ELSE inbox[w]
      /\ UNCHANGED <<pc, claimed, log, pruned, lost, newest>>
  BY DEF Deliver
<1>2. claimed[d] \subseteq Row /\ heard[d] \subseteq User
  BY DEF TypeOK
<1>3. told = {w \in claimed[d] : w[1] = u /\ w[1] \notin heard[d]}
  BY DEF Owes
<1>4. heard'[d] = heard[d] \cup {u} /\ \A e \in Dispatch \ {d} : heard'[e] = heard[e]
  BY <1>1 DEF TypeOK
<1> HIDE DEF told
<1>5. \A w \in Row : inbox[w] \in Nat
  BY DEF TypeOK
<1>6. OnlyWhileTelling'
  BY <1>1, <1>4 DEF DigestInv, OnlyWhileTelling, Telling
<1>7. ToldIsOnFile'
  <2>1. ASSUME NEW e \in Dispatch, NEW w \in claimed[e], w[1] \in heard'[e]
        PROVE  inbox'[w] > 0
    <3>1. w \in Row
      BY DEF TypeOK
    <3>2. CASE w \in told
      BY <1>1, <1>5, <3>1, <3>2
    <3>3. CASE w \notin told
      <4>1. w[1] \in heard[e]
        BY <1>3, <1>4, <2>1, <3>3
      <4>2. inbox[w] > 0
        BY <4>1 DEF DigestInv, ToldIsOnFile
      <4> QED
        BY <1>1, <3>1, <3>3, <4>2
    <3> QED
      BY <3>2, <3>3
  <2>2. ASSUME NEW e \in Dispatch, pc[e] = "prune" PROVE Owes(e)' = {}
    <3>1. e # d
      BY <1>1, <2>2
    <3>2. Owes(e) = {}
      BY <2>2 DEF DigestInv, ToldIsOnFile
    <3> QED
      BY <1>1, <1>4, <3>1, <3>2 DEF Owes
  <2> QED
    BY <1>1, <2>1, <2>2 DEF ToldIsOnFile
<1>8. PrunedIsOld'
  BY <1>1 DEF DigestInv, PrunedIsOld
<1>9. ASSUME NEW w \in Row, w \in told PROVE Owing(w)' = Owing(w) \ {d}
  BY <1>1, <1>3, <1>4, <1>9 DEF Owing, Owes
<1>10. ASSUME NEW w \in Row, w \notin told PROVE Owing(w)' = Owing(w)
  BY <1>1, <1>3, <1>4, <1>10 DEF Owing, Owes
<1>11. ASSUME NEW w \in Row \ pruned
       PROVE  IF w \in log
              THEN \/ inbox'[w] = 1 /\ Owing(w)' = {} /\ w \notin lost
                   \/ /\ inbox'[w] = 0 /\ w \notin lost
                      /\ \E e \in Dispatch : Owing(w)' = {e}
                   \/ inbox'[w] = 0 /\ Owing(w)' = {} /\ w \in lost
              ELSE inbox'[w] = 0 /\ Owing(w)' = {} /\ w \notin lost
  <2>1. CASE w \in told
    <3>1. d \in Owing(w)
      BY <1>1, <1>3, <2>1 DEF Owing, Owes
    <3>2. w \in log /\ inbox[w] = 0 /\ Owing(w) = {d} /\ w \notin lost
      BY <3>1 DEF DigestInv, EachDropOnce
    <3>3. inbox'[w] = 1
      BY <1>1, <2>1, <3>2
    <3> QED
      BY <1>9, <2>1, <3>2, <3>3
  <2>2. CASE w \notin told
    <3>1. Owing(w)' = Owing(w) /\ inbox'[w] = inbox[w]
      BY <1>1, <1>10, <2>2
    <3> QED
      BY <3>1 DEF DigestInv, EachDropOnce
  <2> QED
    BY <2>1, <2>2
<1>12. EachDropOnce'
  BY <1>1, <1>11 DEF EachDropOnce
<1> QED
  BY <1>6, <1>7, <1>8, <1>12 DEF DigestInv

LEMMA PushKept ==
  ASSUME TypeOK, DigestInv, NEW d \in Dispatch, Push(d)
  PROVE  DigestInv'
<1>1. /\ pc[d] = "announce"
      /\ Owes(d) = {}
      /\ pc' = [pc EXCEPT ![d] = "prune"]
      /\ UNCHANGED <<claimed, heard, log, inbox, pruned, lost, newest>>
  BY DEF Push, Goto, bookVars
<1>2. OnlyWhileTelling' /\ ToldIsOnFile' /\ PrunedIsOld'
  BY <1>1 DEF DigestInv, OnlyWhileTelling, ToldIsOnFile, PrunedIsOld, Telling,
              Owes, TypeOK
<1>3. ASSUME NEW w \in Row PROVE Owing(w)' = Owing(w)
  BY <1>1 DEF Owing, Owes, TypeOK
<1>4. EachDropOnce'
  BY <1>1, <1>3 DEF DigestInv, EachDropOnce
<1> QED
  BY <1>2, <1>4 DEF DigestInv

\* A dispatch that ends owes nothing any more.
LEMMA EndForgets ==
  ASSUME TypeOK, DigestInv, NEW d \in Dispatch, End(d), UNCHANGED inbox
  PROVE  /\ OnlyWhileTelling' /\ ToldIsOnFile'
         /\ \A w \in Row : Owing(w)' = Owing(w) \ {d}
<1>1. /\ pc' = [pc EXCEPT ![d] = "done"]
      /\ claimed' = [claimed EXCEPT ![d] = {}]
      /\ heard' = [heard EXCEPT ![d] = {}]
  BY DEF End, Goto
<1>2. OnlyWhileTelling' /\ ToldIsOnFile'
  BY <1>1 DEF DigestInv, OnlyWhileTelling, ToldIsOnFile, Telling, Owes, TypeOK
<1>3. \A w \in Row : Owing(w)' = Owing(w) \ {d}
  BY <1>1 DEF Owing, Owes, TypeOK
<1> QED
  BY <1>2, <1>3

LEMMA PruneKept ==
  ASSUME TypeOK, DigestInv, NEW d \in Dispatch, Prune(d)
  PROVE  DigestInv'
<1> DEFINE old == {w \in log : Expired(w, d)}
<1>1. /\ pc[d] = "prune"
      /\ log' = log \ old
      /\ pruned' = pruned \cup old
      /\ newest' = IF day[d] > newest THEN day[d] ELSE newest
      /\ End(d)
      /\ UNCHANGED <<inbox, lost>>
  BY DEF Prune
<1>2. \A w \in old : w[3] + Retention < day[d]
  BY DEF Expired
<1> HIDE DEF old
<1>3. /\ OnlyWhileTelling' /\ ToldIsOnFile'
      /\ \A w \in Row : Owing(w)' = Owing(w) \ {d}
  BY <1>1, EndForgets
<1>4. \A w \in Row : d \notin Owing(w)
  BY <1>1 DEF Owing
<1>5. PrunedIsOld'
  <2>0. day[d] \in Day \cup ForcedDay /\ newest \in Nat
    BY DEF TypeOK
  <2>1. day[d] \in Nat /\ newest \in Nat /\ Retention \in Nat
    BY <2>0, DaysAreNumbers, PushDigestAssumptions
  <2>2. \A w \in pruned : w \in Row /\ w[3] + Retention < newest
    BY DEF DigestInv, PrunedIsOld, TypeOK
  <2>3. \A w \in old : w \in Row
    BY DEF old, TypeOK
  <2>4. ASSUME NEW w \in pruned' PROVE w[3] + Retention < newest'
    <3>0. w \in Row
      BY <1>1, <2>2, <2>3
    <3>1. w[3] \in Nat
      BY <3>0, RowDays
    <3>2. CASE w \in pruned
      BY <1>1, <2>1, <2>2, <3>1, <3>2
    <3>3. CASE w \in old
      BY <1>1, <1>2, <2>1, <3>1, <3>3
    <3> QED
      BY <1>1, <3>2, <3>3
  <2> QED
    BY <2>4 DEF PrunedIsOld
<1>6. ASSUME NEW w \in Row \ pruned'
      PROVE  Owing(w)' = Owing(w) /\ (w \in log' <=> w \in log) /\ w \notin pruned
  BY <1>1, <1>3, <1>4
<1>7. EachDropOnce'
  BY <1>1, <1>6 DEF DigestInv, EachDropOnce
<1> QED
  BY <1>3, <1>5, <1>7 DEF DigestInv

LEMMA FailureKept ==
  ASSUME TypeOK, DigestInv, NEW d \in Dispatch, DispatchFails(d)
  PROVE  DigestInv'
<1>1. /\ End(d)
      /\ lost' = IF pc[d] = "announce" THEN lost \cup Owes(d) ELSE lost
      /\ UNCHANGED <<log, inbox, pruned, newest>>
  BY DEF DispatchFails
<1>2. /\ OnlyWhileTelling' /\ ToldIsOnFile'
      /\ \A w \in Row : Owing(w)' = Owing(w) \ {d}
  BY <1>1, EndForgets
<1>3. PrunedIsOld'
  BY <1>1 DEF DigestInv, PrunedIsOld
<1>4. \A w \in Row : d \in Owing(w) <=> pc[d] = "announce" /\ w \in Owes(d)
  BY DEF Owing
<1>5. ASSUME NEW w \in Row \ pruned
      PROVE  IF w \in log
             THEN \/ inbox[w] = 1 /\ Owing(w)' = {} /\ w \notin lost'
                  \/ /\ inbox[w] = 0 /\ w \notin lost'
                     /\ \E e \in Dispatch : Owing(w)' = {e}
                  \/ inbox[w] = 0 /\ Owing(w)' = {} /\ w \in lost'
             ELSE inbox[w] = 0 /\ Owing(w)' = {} /\ w \notin lost'
  <2>1. CASE d \in Owing(w)
    <3>1. w \in log /\ inbox[w] = 0 /\ Owing(w) = {d}
      BY <2>1 DEF DigestInv, EachDropOnce
    <3>2. w \in lost'
      BY <1>1, <1>4, <2>1
    <3> QED
      BY <1>2, <3>1, <3>2
  <2>2. CASE d \notin Owing(w)
    <3>1. Owing(w)' = Owing(w) /\ (w \in lost' <=> w \in lost)
      BY <1>1, <1>2, <1>4, <2>2
    <3> QED
      BY <3>1 DEF DigestInv, EachDropOnce
  <2> QED
    BY <2>1, <2>2
<1>6. EachDropOnce'
  BY <1>1, <1>5 DEF EachDropOnce
<1> QED
  BY <1>2, <1>3, <1>6 DEF DigestInv

\* A run or a full sync that ends has no dispatch under way to disturb.
LEMMA RunsKept ==
  ASSUME TypeOK, DigestInv, DispatchComesAfter, RunOrSyncStep
  PROVE  DigestInv'
<1> USE DEF bookVars, passVars
<1>1. ASSUME NEW x \in Run \cup FullSync, NEW s \in {"resolve", "done"},
             pc[x] = "idle", Goto(x, s), UNCHANGED <<claimed, heard, bookVars>>
      PROVE  DigestInv'
  <2>1. \A d \in Dispatch :
          pc'[d] = pc[d] \/ (pc[d] \notin Telling /\ pc'[d] \notin Telling)
    BY <1>1 DEF Goto, Telling, TypeOK, Dispatch
  <2> QED
    BY <1>1, <2>1, ElsewhereKept
<1>2. ASSUME NEW r \in Run, RunEnds(r) PROVE DigestInv'
  <2>1. CASE runBy[r] = r
    BY <1>1, <1>2, <2>1 DEF RunEnds, DispatchComesAfter
  <2>2. CASE runBy[r] # r
    BY <1>2, <2>2, ElsewhereKept DEF RunEnds
  <2> QED
    BY <2>1, <2>2
<1>3. ASSUME NEW f \in FullSync, DispatchAfterSync(f) PROVE DigestInv'
  BY <1>1, <1>3 DEF DispatchAfterSync, DispatchComesAfter
<1>4. ASSUME NEW f \in FullSync, FullSyncDies(f) PROVE DigestInv'
  BY <1>1, <1>4 DEF FullSyncDies, DispatchComesAfter
<1>5. ASSUME UNCHANGED <<passVars, bookVars>> PROVE DigestInv'
  BY <1>5, ElsewhereKept
<1> QED
  BY <1>2, <1>3, <1>4, <1>5
  DEF RunOrSyncStep, BeginPersist, Persist, StartByHand, StartScheduled,
      StartFullSync, Skip

LEMMA DigestNext ==
  TypeOK /\ DigestInv /\ DispatchComesAfter /\ [Next]_vars => DigestInv'
<1> SUFFICES ASSUME TypeOK, DigestInv, DispatchComesAfter, [Next]_vars
             PROVE  DigestInv'
  OBVIOUS
<1>1. CASE NextDay
  BY <1>1, ElsewhereKept DEF NextDay, passVars, bookVars
<1>2. CASE RunOrSyncStep
  BY <1>2, RunsKept
<1>3. ASSUME NEW d \in Dispatch, NEW s \in {"resolve", "claim"},
             pc[d] \in {"idle", "resolve"}, Goto(d, s),
             UNCHANGED <<claimed, heard, bookVars>>
      PROVE  DigestInv'
  <2>1. \A e \in Dispatch :
          pc'[e] = pc[e] \/ (pc[e] \notin Telling /\ pc'[e] \notin Telling)
    BY <1>3 DEF Goto, Telling, TypeOK
  <2> QED
    BY <1>3, <2>1, ElsewhereKept
<1>4. ASSUME NEW d \in Operator, NEW x \in ForcedDay, DispatchByHand(d, x)
      PROVE  DigestInv'
  BY <1>3, <1>4 DEF DispatchByHand, Dispatch
<1>5. ASSUME NEW d \in Dispatch, ResolveDay(d) PROVE DigestInv'
  BY <1>3, <1>5 DEF ResolveDay
<1>6. ASSUME NEW d \in Dispatch, NEW u \in User, Deliver(d, u) PROVE DigestInv'
  BY <1>6, DeliverKept
<1>7. ASSUME NEW d \in Dispatch, Claim(d) PROVE DigestInv'
  BY <1>7, ClaimKept
<1>8. ASSUME NEW d \in Dispatch, Push(d) PROVE DigestInv'
  BY <1>8, PushKept
<1>9. ASSUME NEW d \in Dispatch, Prune(d) PROVE DigestInv'
  BY <1>9, PruneKept
<1>10. ASSUME NEW d \in Dispatch, DispatchFails(d) PROVE DigestInv'
  BY <1>10, FailureKept
<1>11. CASE UNCHANGED vars
  BY <1>11, ElsewhereKept DEF vars, passVars, bookVars
<1> QED
  BY <1>1, <1>2, <1>4, <1>5, <1>6, <1>7, <1>8, <1>9, <1>10, <1>11
  DEF Next, DispatchStep, Finished

\* The runs and syncs under way are told apart from the dispatches by their
\* places, and only their own steps move those.
LEMMA AfterKept ==
  ASSUME TypeOK, DispatchComesAfter,
         UNCHANGED <<runPc, runBy, waited, syncing>>,
         \A x \in Run \cup FullSync : pc[x] = "idle" => pc'[x] = "idle"
  PROVE  DispatchComesAfter'
BY DEF DispatchComesAfter, TypeOK

LEMMA StartAfter ==
  ASSUME TypeOK, DispatchComesAfter, NEW r \in Run, NEW s \in Store,
         NEW by \in Run \cup FullSync, Start(r, s, by),
         UNCHANGED <<pc, syncing>>
  PROVE  DispatchComesAfter'
<1>1. /\ runPc[r] = "none"
      /\ runPc' = [runPc EXCEPT ![r] = "walking"]
      /\ runBy' = [runBy EXCEPT ![r] = by]
      /\ waited' = waited \cup {r}
  BY DEF Start
<1>2. pc[r] = "idle"
  BY <1>1 DEF DispatchComesAfter
<1> QED
  BY <1>1, <1>2 DEF DispatchComesAfter, TypeOK

LEMMA AfterNext == TypeOK /\ DispatchComesAfter /\ [Next]_vars => DispatchComesAfter'
<1> SUFFICES ASSUME TypeOK, DispatchComesAfter, [Next]_vars
             PROVE  DispatchComesAfter'
  OBVIOUS
<1> USE DEF runVars, passVars
<1>1. CASE NextDay
  BY <1>1, AfterKept DEF NextDay
<1>2. ASSUME NEW r \in Run, NEW s \in Store, StartByHand(r, s)
      PROVE  DispatchComesAfter'
  BY <1>2, StartAfter DEF StartByHand
<1>3. ASSUME NEW r \in Run, NEW s \in Store, NEW f \in FullSync,
             StartScheduled(f, r, s)
      PROVE  DispatchComesAfter'
  BY <1>3, StartAfter DEF StartScheduled
<1>4. ASSUME NEW r \in Run, NEW s \in {"persisting", "ended"},
             runPc[r] \in {"walking", "persisting"},
             runPc' = [runPc EXCEPT ![r] = s],
             UNCHANGED <<runBy, waited, syncing, pc>>
      PROVE  DispatchComesAfter'
  BY <1>4 DEF DispatchComesAfter, TypeOK
<1>5. ASSUME NEW r \in Run, BeginPersist(r) \/ Persist(r)
      PROVE  DispatchComesAfter'
  BY <1>4, <1>5 DEF BeginPersist, Persist
<1>6. ASSUME NEW r \in Run, RunEnds(r) PROVE DispatchComesAfter'
  <2>1. /\ r \in waited /\ waited' = waited \ {r}
        /\ \A x \in (Run \cup FullSync) \ {r} : pc'[x] = pc[x]
        /\ UNCHANGED <<runPc, runBy, syncing>>
    BY <1>6 DEF RunEnds, Goto, TypeOK, Dispatch
  <2>2. r \notin FullSync /\ runPc[r] # "none"
    BY <2>1, PushDigestAssumptions DEF DispatchComesAfter
  <2> QED
    BY <2>1, <2>2 DEF DispatchComesAfter, TypeOK
<1>7. ASSUME NEW f \in FullSync, StartFullSync(f) PROVE DispatchComesAfter'
  BY <1>7 DEF StartFullSync, DispatchComesAfter, TypeOK
<1>8. ASSUME NEW f \in FullSync, NEW s \in Store, Skip(f, s)
      PROVE  DispatchComesAfter'
  BY <1>8, AfterKept DEF Skip
<1>9. ASSUME NEW f \in FullSync, DispatchAfterSync(f) \/ FullSyncDies(f)
      PROVE  DispatchComesAfter'
  <2>1. /\ syncing' = syncing \ {f} /\ waited' \subseteq waited
        /\ \A x \in (Run \cup FullSync) \ {f} : pc'[x] = pc[x]
        /\ \A r \in Run : runPc'[r] = runPc[r] \/ runPc'[r] = "ended"
        /\ UNCHANGED runBy
    BY <1>9 DEF DispatchAfterSync, FullSyncDies, Goto, TypeOK, Dispatch
  <2>2. f \notin Run
    BY PushDigestAssumptions
  <2> QED
    BY <2>1, <2>2 DEF DispatchComesAfter, TypeOK
<1>10. ASSUME NEW d \in Dispatch, NEW s \in Step,
              pc[d] # "idle" \/ d \in Operator, Goto(d, s),
              UNCHANGED <<runPc, runBy, waited, syncing>>
       PROVE  DispatchComesAfter'
  <2>1. \A x \in Run \cup FullSync : pc[x] = "idle" => pc'[x] = "idle"
    BY <1>10, PushDigestAssumptions DEF Goto, TypeOK, Dispatch
  <2> QED
    BY <1>10, <2>1, AfterKept
<1>11. ASSUME NEW d \in Operator, NEW x \in ForcedDay, DispatchByHand(d, x)
       PROVE  DispatchComesAfter'
  BY <1>10, <1>11 DEF DispatchByHand, Dispatch, Step
<1>12. ASSUME NEW d \in Dispatch,
              ResolveDay(d) \/ Claim(d) \/ Push(d) \/ Prune(d) \/ DispatchFails(d)
       PROVE  DispatchComesAfter'
  BY <1>10, <1>12 DEF ResolveDay, Claim, Push, Prune, DispatchFails, End,
                      Active, Step
<1>13. ASSUME NEW d \in Dispatch, NEW u \in User, Deliver(d, u)
       PROVE  DispatchComesAfter'
  BY <1>13, AfterKept DEF Deliver
<1>14. CASE UNCHANGED vars
  BY <1>14, AfterKept DEF vars
<1> QED
  BY <1>1, <1>2, <1>3, <1>5, <1>6, <1>7, <1>8, <1>9, <1>11, <1>12, <1>13,
     <1>14
  DEF Next, RunOrSyncStep, DispatchStep, Finished

\* However many dispatches run at once, a drop the log remembers is in one
\* inbox message, or owed by one dispatch, or was lost by one.
THEOREM DropAnnouncedOnce == Spec => []EachDropOnce
<1>1. TypeOK /\ DigestInv /\ DispatchComesAfter /\ [Next]_vars
        => (TypeOK /\ DigestInv /\ DispatchComesAfter)'
  BY TypeNext, DigestNext, AfterNext
<1>2. DigestInv => EachDropOnce
  BY DEF DigestInv
<1> QED
  BY <1>1, <1>2, TypeInit, DigestInit, PTL DEF Spec

\* When notifications go out, every user's message is on file.
THEOREM InboxComesFirst == Spec => []InboxBeforePush
<1>1. TypeOK /\ DigestInv /\ DispatchComesAfter /\ [Next]_vars
        => (TypeOK /\ DigestInv /\ DispatchComesAfter)'
  BY TypeNext, DigestNext, AfterNext
<1>2. DigestInv => InboxBeforePush
  BY DEF DigestInv, ToldIsOnFile, InboxBeforePush, Owes
<1> QED
  BY <1>1, <1>2, TypeInit, DigestInit, PTL DEF Spec

\* Only the claim hands out rows, and none the log knows.
LEMMA ClaimsAreNew ==
  ASSUME TypeOK, [Next]_vars, NEW d \in Dispatch, NEW w \in claimed'[d] \ claimed[d]
  PROVE  w \in Row \ log
<1> USE DEF passVars, bookVars
<1>1. CASE UNCHANGED claimed
  BY <1>1
<1>2. ASSUME NEW e \in Dispatch, End(e) PROVE FALSE
  BY <1>2 DEF End, TypeOK
<1>3. ASSUME NEW e \in Dispatch, Claim(e) PROVE w \in Row \ log
  <2>1. claimed' = [claimed EXCEPT ![e] = Candidates(day[e]) \ log]
    BY <1>3 DEF Claim
  <2>2. w \in Candidates(day[e]) \ log
    BY <2>1 DEF TypeOK
  <2>3. Candidates(day[e]) \subseteq Row
    BY CandidatesAreRows DEF TypeOK
  <2> QED
    BY <2>2, <2>3
<1>4. ASSUME NEW e \in Dispatch, Prune(e) \/ DispatchFails(e) PROVE FALSE
  BY <1>2, <1>4 DEF Prune, DispatchFails
<1>5. ASSUME NEW e \in Dispatch, DispatchStep(e) PROVE w \in Row \ log
  <2>1. CASE ResolveDay(e)
    BY <1>1, <2>1 DEF ResolveDay
  <2>2. CASE Push(e)
    BY <1>1, <2>2 DEF Push
  <2>3. ASSUME NEW u \in User, Deliver(e, u) PROVE w \in Row \ log
    BY <1>1, <2>3 DEF Deliver
  <2> QED
    BY <1>3, <1>4, <1>5, <2>1, <2>2, <2>3 DEF DispatchStep
<1>6. CASE RunOrSyncStep
  BY <1>1, <1>6
  DEF RunOrSyncStep, BeginPersist, Persist, RunEnds, StartByHand,
      StartScheduled, StartFullSync, DispatchAfterSync, FullSyncDies, Skip
<1>7. CASE NextDay
  BY <1>1, <1>7 DEF NextDay
<1>8. ASSUME NEW e \in Operator, NEW x \in ForcedDay, DispatchByHand(e, x)
      PROVE  w \in Row \ log
  BY <1>1, <1>8 DEF DispatchByHand
<1>9. CASE UNCHANGED vars
  BY <1>1, <1>9 DEF vars
<1> QED
  BY <1>5, <1>6, <1>7, <1>8, <1>9 DEF Next, Finished

\* What the log does not know was never claimed, or was pruned as too old.
LEMMA UnknownIsNewOrOld ==
  ASSUME DigestInv, NEW w \in Row \ log, Taken(w)
  PROVE  w[3] + Retention < newest
<1>1. CASE w \in pruned
  BY <1>1 DEF DigestInv, PrunedIsOld
<1>2. CASE w \notin pruned
  <2>1. inbox[w] = 0 /\ Owing(w) = {} /\ w \notin lost
    BY <1>2 DEF DigestInv, EachDropOnce
  <2> QED
    BY <2>1 DEF Taken
<1> QED
  BY <1>1, <1>2

\* What was ever claimed, by whichever dispatch, is claimed again only once a
\* dispatch has covered a day more than the retention past it (claimDrops,
\* announce, dispatchAfterSync, pruneDigestLog).
THEOREM RepeatsAreOfOldDays == Spec => RepeatsAreOld
<1>1. TypeOK /\ DigestInv /\ DispatchComesAfter /\ [Next]_vars
        => (TypeOK /\ DigestInv /\ DispatchComesAfter)'
  BY TypeNext, DigestNext, AfterNext
<1> DEFINE P == \A d \in Dispatch :
                  \A w \in claimed'[d] \ claimed[d] :
                    Taken(w) => w[3] + Retention < newest
<1>2. TypeOK /\ DigestInv /\ [Next]_vars => [P]_vars
  BY ClaimsAreNew, UnknownIsNewOrOld
<1> QED
  BY <1>1, <1>2, TypeInit, DigestInit, PTL DEF Spec, RepeatsAreOld

-----------------------------------------------------------------------------
(* No drop is forgotten *)

\* A dispatch that will claim the latest day's drops is under way or to follow.
Coming ==
  \/ waited # {} \/ syncing # {}
  \/ \E d \in Dispatch : pc[d] = "resolve" \/ (pc[d] = "claim" /\ IsLatest(day[d]))

\* Whoever waits for a run dispatches after it.
Awaited == \A r \in waited : runBy[r] = r \/ runBy[r] \in syncing

AllClaimed ==
  \A d \in Day : IsLatest(d) =>
    \A w \in Candidates(d) : w[2] \notin missed => w \in log \cup pruned

ClaimInv == Awaited /\ (Coming \/ AllClaimed)

LEMMA LatestIsOne ==
  ASSUME NEW c, NEW d, IsLatest(c), IsLatest(d)
  PROVE  c = d
<1>1. c \in Nat /\ d \in Nat
  BY DaysAreNumbers DEF IsLatest
<1>2. ~(c > d) /\ ~(d > c)
  BY DEF IsLatest
<1> QED
  BY <1>1, <1>2

LEMMA CandidateParts ==
  ASSUME NEW d, NEW w
  PROVE  w \in Candidates(d)
           <=> \E x \in Wants : /\ w = <<x[1], x[2], d>>
                                /\ x[2] \in stocked /\ Fell(x[2], d)
BY DEF Candidates

LEMMA CandidateOffers ==
  ASSUME NEW d, NEW w \in Candidates(d)
  PROVE  w[2] \in Offer
BY PushDigestAssumptions DEF Candidates

LEMMA ClaimStays ==
  ASSUME AllClaimed, UNCHANGED <<price, stocked>>, missed \subseteq missed',
         log \cup pruned \subseteq log' \cup pruned'
  PROVE  AllClaimed'
<1>1. ASSUME NEW d PROVE (IsLatest(d)' <=> IsLatest(d)) /\ Candidates(d)' = Candidates(d)
  BY DEF IsLatest, Candidates, Fell
<1> QED
  BY <1>1 DEF AllClaimed

\* A step that prevents no dispatch which will claim the latest day.
LEMMA ClaimKeeps ==
  ASSUME ClaimInv, UNCHANGED <<price, stocked, waited, syncing, runBy>>,
         missed \subseteq missed', log \cup pruned \subseteq log' \cup pruned',
         \A d \in Dispatch : pc[d] = "resolve" \/ (pc[d] = "claim" /\ IsLatest(day[d]))
                               => pc'[d] = pc[d] /\ day'[d] = day[d]
  PROVE  ClaimInv'
<1>1. Awaited'
  BY DEF ClaimInv, Awaited
<1>2. ASSUME NEW d PROVE IsLatest(d)' <=> IsLatest(d)
  BY DEF IsLatest
<1>3. Coming => Coming'
  BY <1>2 DEF Coming
<1> QED
  BY <1>1, <1>3, ClaimStays DEF ClaimInv

\* The offers whose prices it changes are missed, or somebody waits for it.
LEMMA ClaimPersist ==
  ASSUME TypeOK, ClaimInv, NEW r \in Run, Persist(r)
  PROVE  ClaimInv'
<1> DEFINE mine == OffersOf(runStore[r])
<1>1. /\ UNCHANGED <<waited, syncing, runBy, pc, day, log, pruned>>
      /\ missed' = IF r \in waited \/ UNCHANGED <<price, stocked>>
                   THEN missed ELSE missed \cup mine
  BY DEF Persist, passVars, bookVars
<1>2. Awaited'
  BY <1>1 DEF ClaimInv, Awaited
<1>3. /\ \A o \in Offer \ mine : price'[o] = price[o] /\ (o \in stocked' => o \in stocked)
      /\ \A o \in Offer, e \in Day : price'[o][e] = 0 => price[o][e] = 0
  <2>4. PICK seen \in SUBSET mine :
          \E p \in [seen -> 1..MaxPrice] :
            /\ price' = [o \in Offer |->
                           IF o \in seen
                           THEN [price[o] EXCEPT ![runDay[r]] = p[o]]
                           ELSE price[o]]
            /\ \E gone \in SUBSET (mine \ seen) :
                 stocked' = (stocked \ gone) \cup seen
    BY DEF Persist
  <2> HIDE DEF mine
  <2>1. PICK p \in [seen -> 1..MaxPrice] :
          price' = [o \in Offer |->
                      IF o \in seen
                      THEN [price[o] EXCEPT ![runDay[r]] = p[o]]
                      ELSE price[o]]
    BY <2>4
  <2>2. \A o \in Offer \ mine : price'[o] = price[o] /\ (o \in stocked' => o \in stocked)
    BY <2>1, <2>4
  <2>3. ASSUME NEW o \in Offer, NEW e \in Day, price'[o][e] = 0 PROVE price[o][e] = 0
    <3>1. CASE o \in seen
      <4>1. price'[o] = [price[o] EXCEPT ![runDay[r]] = p[o]] /\ p[o] \in 1..MaxPrice
        BY <2>1, <3>1
      <4>2. p[o] # 0
        BY <4>1, PushDigestAssumptions
      <4>3. price[o] \in [Day -> 0..MaxPrice]
        BY DEF TypeOK
      <4> QED
        BY <2>3, <4>1, <4>2, <4>3
    <3>2. CASE o \notin seen
      BY <2>1, <2>3, <3>2
    <3> QED
      BY <3>1, <3>2
  <2> QED
    BY <2>2, <2>3
<1>4. CASE waited # {} \/ syncing # {} \/ \E d \in Dispatch : pc[d] = "resolve"
  BY <1>1, <1>2, <1>4 DEF ClaimInv, Coming
<1>5. CASE UNCHANGED <<price, stocked>>
  BY <1>1, <1>5, ClaimKeeps
<1>6. ASSUME waited = {}, syncing = {}, \A d \in Dispatch : pc[d] # "resolve",
             ~UNCHANGED <<price, stocked>>, ~Coming',
             NEW d \in Day, IsLatest(d)', NEW w \in Candidates(d)', w[2] \notin missed'
      PROVE  w \in log \cup pruned
  <2> HIDE DEF mine
  <2>1. w[2] \notin mine /\ w[2] \notin missed
    BY <1>1, <1>6
  <2>2. PICK x \in Wants : /\ w = <<x[1], x[2], d>>
                           /\ x[2] \in stocked' /\ Fell(x[2], d)'
    BY <1>6 DEF Candidates
  <2>3. x[2] \in Offer \ mine
    BY <2>1, <2>2, PushDigestAssumptions
  <2>4. price'[x[2]] = price[x[2]] /\ x[2] \in stocked
    BY <1>3, <2>2, <2>3
  <2>5. Fell(x[2], d) /\ price[x[2]][d] # 0
    BY <2>2, <2>4 DEF Fell
  <2>6. w \in Candidates(d)
    BY <2>2, <2>4, <2>5 DEF Candidates
  <2>7. IsLatest(d)
    BY <1>3, <1>6, <2>3, <2>5 DEF IsLatest
  <2>8. ~Coming
    <3> SUFFICES ASSUME Coming PROVE FALSE
      OBVIOUS
    <3>1. PICK c \in Dispatch : pc[c] = "claim" /\ IsLatest(day[c])
      BY <1>6 DEF Coming
    <3>2. day[c] = d
      BY <2>7, <3>1, LatestIsOne
    <3>3. IsLatest(day[c])'
      BY <1>1, <1>6, <3>2
    <3> QED
      BY <1>1, <1>6, <3>1, <3>3 DEF Coming
  <2> QED
    BY <2>1, <2>6, <2>7, <2>8 DEF ClaimInv, AllClaimed
<1>7. CASE /\ waited = {} /\ syncing = {} /\ \A d \in Dispatch : pc[d] # "resolve"
           /\ ~UNCHANGED <<price, stocked>>
  <2>1. ~Coming' => AllClaimed'
    BY <1>1, <1>6, <1>7 DEF AllClaimed
  <2> QED
    BY <1>2, <2>1 DEF ClaimInv
<1> QED
  BY <1>4, <1>5, <1>7

LEMMA ClaimNext == TypeOK /\ DispatchComesAfter /\ ClaimInv /\ [Next]_vars => ClaimInv'
<1> SUFFICES ASSUME TypeOK, DispatchComesAfter, ClaimInv, [Next]_vars PROVE ClaimInv'
  OBVIOUS
<1> USE DEF dataVars, runVars, passVars, bookVars
<1>1. \A x : IsLatest(x) => x \in Day
  BY DEF IsLatest
<1>2. CASE NextDay
  BY <1>2, ClaimKeeps DEF NextDay
<1>3. ASSUME NEW r \in Run, NEW s \in Store, NEW by \in {r} \cup syncing,
             Start(r, s, by), syncing' = syncing
      PROVE  ClaimInv'
  <2>1. waited' = waited \cup {r} /\ runBy' = [runBy EXCEPT ![r] = by]
    BY <1>3 DEF Start
  <2> QED
    BY <1>3, <2>1 DEF ClaimInv, Awaited, Coming, TypeOK
<1>4. ASSUME NEW r \in Run, NEW s \in Store,
             StartByHand(r, s) \/ \E f \in FullSync : StartScheduled(f, r, s)
      PROVE  ClaimInv'
  BY <1>3, <1>4 DEF StartByHand, StartScheduled
<1>5. ASSUME NEW f \in FullSync, StartFullSync(f) PROVE ClaimInv'
  BY <1>5 DEF StartFullSync, ClaimInv, Awaited, Coming
<1>6. ASSUME NEW f \in FullSync, NEW s \in Store, Skip(f, s) PROVE ClaimInv'
  BY <1>6, ClaimKeeps DEF Skip
<1>7. ASSUME NEW r \in Run, BeginPersist(r) PROVE ClaimInv'
  BY <1>7, ClaimKeeps DEF BeginPersist
<1>8. ASSUME NEW r \in Run, RunEnds(r) PROVE ClaimInv'
  <2>1. /\ r \in waited /\ waited' = waited \ {r} /\ UNCHANGED <<syncing, runBy>>
        /\ runBy[r] = r => pc'[r] = "resolve"
    BY <1>8 DEF RunEnds, Goto, TypeOK, Dispatch
  <2> QED
    BY <2>1 DEF ClaimInv, Awaited, Coming, Dispatch
<1>9. ASSUME NEW f \in FullSync, DispatchAfterSync(f) PROVE ClaimInv'
  <2>1. /\ syncing' = syncing \ {f} /\ UNCHANGED <<waited, runBy>>
        /\ pc'[f] = "resolve" /\ \A r \in waited : runBy[r] # f
    BY <1>9 DEF DispatchAfterSync, Goto, TypeOK, Dispatch
  <2> QED
    BY <2>1 DEF ClaimInv, Awaited, Coming, Dispatch
<1>10. ASSUME missed' = Offer PROVE AllClaimed'
  <2>1. \A d \in Day : \A w \in Candidates(d)' : w[2] \in Offer
    BY PushDigestAssumptions DEF Candidates
  <2> QED
    BY <1>10, <2>1 DEF AllClaimed
<1>11. ASSUME NEW f \in FullSync, FullSyncDies(f) PROVE ClaimInv'
  BY <1>10, <1>11 DEF FullSyncDies, ClaimInv, Awaited
<1>12. ASSUME NEW d \in Operator, NEW x \in ForcedDay, DispatchByHand(d, x)
       PROVE  ClaimInv'
  <2>1. /\ pc[d] = "idle"
        /\ \A c \in Dispatch \ {d} : pc'[c] = pc[c] /\ day'[c] = day[c]
    BY <1>12 DEF DispatchByHand, Goto, TypeOK
  <2> QED
    BY <1>12, <2>1, ClaimKeeps DEF DispatchByHand
<1>13. ASSUME NEW d \in Dispatch, ResolveDay(d) PROVE ClaimInv'
  <2>1. /\ pc'[d] = "claim" /\ day'[d] = LatestOrToday
        /\ UNCHANGED <<price, stocked, waited, syncing, runBy>>
    BY <1>13 DEF ResolveDay, Goto, TypeOK
  <2>2. CASE \E x \in Day : IsLatest(x)
    <3>1. IsLatest(LatestOrToday)
      BY <2>2 DEF LatestOrToday
    <3>2. IsLatest(day[d])'
      BY <2>1, <3>1 DEF IsLatest
    <3> QED
      BY <2>1, <3>2 DEF ClaimInv, Awaited, Coming
  \* With no price on file there is nothing to claim.
  <2>3. CASE ~\E x \in Day : IsLatest(x)
    <3>1. AllClaimed'
      BY <2>1, <2>3 DEF AllClaimed, IsLatest
    <3> QED
      BY <2>1, <3>1 DEF ClaimInv, Awaited
  <2> QED
    BY <2>2, <2>3
<1>14. ASSUME NEW d \in Dispatch, Claim(d) PROVE ClaimInv'
  <2>1. /\ pc[d] = "claim" /\ UNCHANGED <<price, stocked, waited, syncing, runBy, day, pruned>>
        /\ log' = log \cup (Candidates(day[d]) \ log)
        /\ missed' = IF IsLatest(day[d]) THEN {} ELSE missed
        /\ \A c \in Dispatch \ {d} : pc'[c] = pc[c]
    BY <1>14 DEF Claim, Goto, TypeOK
  <2>2. CASE IsLatest(day[d])
    <3>1. ASSUME NEW c, IsLatest(c)' PROVE c = day[d]
      <4>1. IsLatest(c)
        BY <2>1, <3>1 DEF IsLatest
      <4> QED
        BY <2>2, <4>1, LatestIsOne
    <3>2. Candidates(day[d])' = Candidates(day[d])
      BY <2>1 DEF Candidates, Fell
    <3>3. AllClaimed'
      BY <2>1, <3>1, <3>2 DEF AllClaimed
    <3> QED
      BY <2>1, <3>3 DEF ClaimInv, Awaited
  <2>3. CASE ~IsLatest(day[d])
    BY <2>1, <2>3, ClaimKeeps
  <2> QED
    BY <2>2, <2>3
<1>15. ASSUME NEW d \in Dispatch, NEW u \in User, Deliver(d, u) PROVE ClaimInv'
  BY <1>15, ClaimKeeps DEF Deliver
<1>16. ASSUME NEW d \in Dispatch, Push(d) \/ Prune(d) PROVE ClaimInv'
  <2>1. /\ pc[d] \in {"announce", "prune"} /\ missed' = missed
        /\ log \cup pruned \subseteq log' \cup pruned'
        /\ \A c \in Dispatch \ {d} : pc'[c] = pc[c] /\ day'[c] = day[c]
        /\ UNCHANGED <<price, stocked, waited, syncing, runBy>>
    BY <1>16 DEF Push, Prune, End, Goto, TypeOK
  <2> QED
    BY <2>1, ClaimKeeps
<1>17. ASSUME NEW d \in Dispatch, DispatchFails(d) PROVE ClaimInv'
  <2>1. /\ missed' = IF pc[d] \in {"resolve", "claim"} THEN Offer ELSE missed
        /\ \A c \in Dispatch \ {d} : pc'[c] = pc[c] /\ day'[c] = day[c]
        /\ UNCHANGED <<price, stocked, waited, syncing, runBy, log, pruned>>
    BY <1>17 DEF DispatchFails, End, Goto, TypeOK
  <2>2. CASE pc[d] \in {"resolve", "claim"}
    BY <1>10, <2>1, <2>2 DEF ClaimInv, Awaited
  <2>3. CASE pc[d] \notin {"resolve", "claim"}
    BY <2>1, <2>3, ClaimKeeps
  <2> QED
    BY <2>2, <2>3
<1>18. CASE UNCHANGED vars
  BY <1>18, ClaimKeeps DEF vars
<1> QED
  BY <1>2, <1>4, <1>5, <1>6, <1>7, <1>8, <1>9, <1>11, <1>12, <1>13, <1>14, <1>15,
     <1>16, <1>17, <1>18, ClaimPersist
  DEF Next, RunOrSyncStep, DispatchStep, Finished

LEMMA ClaimInit == Init => ClaimInv
<1> SUFFICES ASSUME Init PROVE ClaimInv
  OBVIOUS
<1>1. \A d \in Day : IsLatest(d) => d = 1
  BY PushDigestAssumptions DEF Init, IsLatest
<1>2. \A o : ~Fell(o, 1)
  BY DEF Fell, Day
<1>3. AllClaimed
  BY <1>1, <1>2 DEF AllClaimed, Candidates
<1> QED
  BY <1>3 DEF Init, ClaimInv, Awaited

\* With nothing left to come, every wanted drop of the latest day has been
\* claimed, unless an abandoned collection wrote it or a dispatch broke down
\* (runFullSync, startStoreSync, dispatchAfterSync, claimDrops).
THEOREM NoDropForgotten == Spec => []DropsAreClaimed
<1>1. TypeOK /\ DispatchComesAfter /\ ClaimInv /\ [Next]_vars => (TypeOK /\ ClaimInv)'
  BY TypeNext, ClaimNext
<1>2. TypeOK /\ DispatchComesAfter /\ [Next]_vars => DispatchComesAfter'
  BY AfterNext
<1>3. ClaimInv => DropsAreClaimed
  BY DEF ClaimInv, Coming, AllClaimed, DropsAreClaimed, Quiet
<1> QED
  BY <1>1, <1>2, <1>3, TypeInit, DigestInit, ClaimInit, PTL DEF Spec

-----------------------------------------------------------------------------
(* The ledger of drops *)

\* Only a row nobody has a claim on can be claimed.
LEMMA BookedMeansLogged ==
  ASSUME TypeOK, DigestInv, NEW w \in Row \ pruned
  PROVE  w \in Ledger!Booked <=> w \in log
<1>1. w \in ToldNow <=> inbox[w] > 0
  BY DEF ToldNow
<1>2. w \in LostNow <=> w \in lost
  BY DEF LostNow
<1>3. w \in UNION {OwedNow[d] : d \in Dispatch} <=> Owing(w) # {}
  BY DEF OwedNow, Owing
<1>4. w \in Ledger!Booked <=> inbox[w] > 0 \/ w \in lost \/ Owing(w) # {}
  BY <1>1, <1>2, <1>3 DEF Ledger!Booked
<1>5. inbox[w] \in Nat
  BY DEF TypeOK
<1> QED
  BY <1>4, <1>5 DEF DigestInv, EachDropOnce

LEMMA LedgerStart == Init => Ledger!LedgerInit
<1> SUFFICES ASSUME Init PROVE Ledger!LedgerInit
  OBVIOUS
<1>1. OwedNow = [d \in Dispatch |-> {}]
  BY DEF Init, OwedNow
<1>2. ToldNow = {} /\ LostNow = {} /\ pruned = {}
  BY DEF Init, ToldNow, LostNow
<1> QED
  BY <1>1, <1>2 DEF Ledger!LedgerInit

\* What no dispatch that announces takes part in leaves the ledger alone.
LEMMA LedgerKept ==
  ASSUME \A d \in Dispatch : pc[d] = "announce" <=> pc'[d] = "announce",
         UNCHANGED <<claimed, heard, inbox, pruned, lost>>
  PROVE  UNCHANGED Ledger!ledger
<1>1. OwedNow' = OwedNow
  BY DEF OwedNow, Owes
<1>2. ToldNow' = ToldNow /\ LostNow' = LostNow
  BY DEF ToldNow, LostNow
<1> QED
  BY <1>1, <1>2 DEF Ledger!ledger

LEMMA LedgerClaim ==
  ASSUME TypeOK, DigestInv, NEW d \in Dispatch, Claim(d)
  PROVE  Ledger!Claim(d) \/ UNCHANGED Ledger!ledger
<1> DEFINE rows == Candidates(day[d]) \ log
<1>1. rows \subseteq Row
  BY CandidatesAreRows DEF TypeOK
<1>2. /\ pc[d] = "claim"
      /\ claimed' = [claimed EXCEPT ![d] = rows]
      /\ pc' = [pc EXCEPT ![d] = "announce"]
      /\ UNCHANGED <<heard, inbox, pruned, lost>>
  BY DEF Claim, Goto
<1>3. rows \cap log = {}
  OBVIOUS
<1> HIDE DEF rows
<1>4. claimed[d] = {} /\ heard[d] = {}
  BY <1>2 DEF DigestInv, OnlyWhileTelling, Telling
<1>5. Owes(d)' = rows /\ \A e \in Dispatch \ {d} : Owes(e)' = Owes(e)
  BY <1>2, <1>4 DEF Owes, TypeOK
<1>6. OwedNow[d] = {} /\ OwedNow'[d] = rows \ pruned
  BY <1>2, <1>5 DEF OwedNow, TypeOK
<1>7. OwedNow' = [OwedNow EXCEPT ![d] = rows \ pruned]
  <2>1. /\ OwedNow = [e \in Dispatch |-> OwedNow[e]]
        /\ OwedNow' = [e \in Dispatch |-> OwedNow'[e]]
    BY DEF OwedNow
  <2>2. ASSUME NEW e \in Dispatch \ {d} PROVE OwedNow'[e] = OwedNow[e]
    <3>1. pc'[e] = pc[e]
      BY <1>2 DEF TypeOK
    <3> QED
      BY <1>2, <1>5, <3>1 DEF OwedNow
  <2> QED
    BY <1>6, <2>1, <2>2
<1>8. ToldNow' = ToldNow /\ LostNow' = LostNow /\ pruned' = pruned
  BY <1>2 DEF ToldNow, LostNow
<1>9. CASE rows \ pruned = {}
  <2>1. OwedNow' = OwedNow
    BY <1>6, <1>7, <1>9 DEF OwedNow
  <2> QED
    BY <1>8, <2>1 DEF Ledger!ledger
<1>10. CASE rows \ pruned # {}
  <2>1. (rows \ pruned) \cap (Ledger!Booked \cup pruned) = {}
    BY <1>1, <1>3, BookedMeansLogged
  <2> QED
    BY <1>6, <1>7, <1>8, <1>10, <2>1 DEF Ledger!Claim
<1> QED
  BY <1>9, <1>10

LEMMA LedgerTell ==
  ASSUME TypeOK, NEW d \in Dispatch, NEW u \in User, Deliver(d, u)
  PROVE  (OwedNow[d] # {} /\ Ledger!Tell(d, u)) \/ UNCHANGED Ledger!ledger
<1> DEFINE told == {w \in Owes(d) : w[1] = u}
           rows == {w \in OwedNow[d] : w[1] = u}
<1>1. /\ pc[d] = "announce"
      /\ heard' = [heard EXCEPT ![d] = @ \cup {u}]
      /\ inbox' = [w \in Row |-> IF w \in told THEN inbox[w] + 1 ELSE inbox[w]]
      /\ UNCHANGED <<pc, claimed, pruned, lost>>
  BY DEF Deliver
<1>2. rows = told \ pruned
  BY <1>1 DEF OwedNow
<1>3. Owes(d)' = Owes(d) \ told /\ \A e \in Dispatch \ {d} : Owes(e)' = Owes(e)
  BY <1>1 DEF Owes, TypeOK
<1>4. told \subseteq Row /\ \A w \in Row : inbox[w] \in Nat
  BY DEF Owes, TypeOK
<1> HIDE DEF told, rows
<1>5. OwedNow' = [OwedNow EXCEPT ![d] = @ \ rows]
  BY <1>1, <1>2, <1>3 DEF OwedNow
<1>6. ToldNow' = ToldNow \cup rows
  <2>1. \A w \in Row : inbox'[w] > 0 <=> inbox[w] > 0 \/ w \in told
    BY <1>1, <1>4
  <2> QED
    BY <1>1, <1>2, <1>4, <2>1 DEF ToldNow
<1>7. LostNow' = LostNow /\ pruned' = pruned
  BY <1>1 DEF LostNow
<1>8. CASE rows = {}
  <2>1. OwedNow' = OwedNow
    BY <1>5, <1>8 DEF OwedNow
  <2> QED
    BY <1>6, <1>7, <1>8, <2>1 DEF Ledger!ledger
<1>9. CASE rows # {}
  <2>1. OwedNow[d] # {}
    BY <1>9 DEF rows
  <2> QED
    BY <1>5, <1>6, <1>7, <1>9, <2>1 DEF Ledger!Tell, rows
<1> QED
  BY <1>8, <1>9

LEMMA LedgerLose ==
  ASSUME TypeOK, NEW d \in Dispatch, DispatchFails(d)
  PROVE  (OwedNow[d] # {} /\ Ledger!Lose(d)) \/ UNCHANGED Ledger!ledger
<1>1. /\ pc' = [pc EXCEPT ![d] = "done"]
      /\ lost' = IF pc[d] = "announce" THEN lost \cup Owes(d) ELSE lost
      /\ UNCHANGED <<inbox, pruned>>
      /\ \A e \in Dispatch \ {d} : claimed'[e] = claimed[e] /\ heard'[e] = heard[e]
  BY DEF DispatchFails, End, Goto, TypeOK
<1>2. OwedNow' = [OwedNow EXCEPT ![d] = {}]
  BY <1>1 DEF OwedNow, Owes, TypeOK
<1>3. LostNow' = LostNow \cup OwedNow[d]
  BY <1>1 DEF LostNow, OwedNow
<1>4. ToldNow' = ToldNow /\ pruned' = pruned
  BY <1>1 DEF ToldNow
<1>5. CASE OwedNow[d] = {}
  <2>1. OwedNow' = OwedNow
    BY <1>2, <1>5 DEF OwedNow
  <2> QED
    BY <1>3, <1>4, <1>5, <2>1 DEF Ledger!ledger
<1>6. CASE OwedNow[d] # {}
  BY <1>2, <1>3, <1>4, <1>6 DEF Ledger!Lose
<1> QED
  BY <1>5, <1>6

LEMMA LedgerForget ==
  ASSUME TypeOK, DigestInv, NEW d \in Dispatch, Prune(d)
  PROVE  Ledger!Forget \/ UNCHANGED Ledger!ledger
<1> DEFINE old == {w \in log : Expired(w, d)}
<1>1. /\ pc[d] = "prune"
      /\ pc' = [pc EXCEPT ![d] = "done"]
      /\ pruned' = pruned \cup old
      /\ UNCHANGED <<inbox, lost>>
      /\ \A e \in Dispatch \ {d} : claimed'[e] = claimed[e] /\ heard'[e] = heard[e]
  BY DEF Prune, End, Goto, TypeOK
<1>2. old \subseteq log /\ log \subseteq Row
  BY DEF TypeOK
<1> HIDE DEF old
<1> DEFINE rows == pruned' \ pruned
<1>3. rows = old \ pruned
  BY <1>1
<1>4. OwedNow' = [e \in Dispatch |-> OwedNow[e] \ rows]
  <2>1. ASSUME NEW e \in Dispatch PROVE OwedNow'[e] = OwedNow[e] \ rows
    BY <1>1, <1>3 DEF OwedNow, Owes, TypeOK
  <2> QED
    BY <2>1 DEF OwedNow
<1>5. ToldNow' = ToldNow \ rows /\ LostNow' = LostNow \ rows
  BY <1>1, <1>3 DEF ToldNow, LostNow
<1>6. CASE rows = {}
  <2>1. OwedNow' = OwedNow
    BY <1>4, <1>6 DEF OwedNow
  <2>2. pruned' = pruned
    BY <1>1, <1>6
  <2> QED
    BY <1>5, <1>6, <2>1, <2>2 DEF Ledger!ledger
<1>7. CASE rows # {}
  <2>1. rows \subseteq Ledger!Booked
    BY <1>2, <1>3, BookedMeansLogged
  <2>2. pruned \subseteq pruned'
    BY <1>1
  <2> QED
    BY <1>4, <1>5, <1>7, <2>1, <2>2 DEF Ledger!Forget
<1> QED
  BY <1>6, <1>7

LEMMA LedgerRuns ==
  ASSUME TypeOK, DispatchComesAfter, RunOrSyncStep
  PROVE  UNCHANGED Ledger!ledger
<1> USE DEF bookVars, passVars
<1>1. ASSUME NEW x \in Run \cup FullSync, NEW s \in {"resolve", "done"},
             pc[x] = "idle", Goto(x, s), UNCHANGED <<claimed, heard, bookVars>>
      PROVE  UNCHANGED Ledger!ledger
  <2>1. \A d \in Dispatch : pc[d] = "announce" <=> pc'[d] = "announce"
    BY <1>1 DEF Goto, TypeOK, Dispatch
  <2> QED
    BY <1>1, <2>1, LedgerKept
<1>2. ASSUME NEW r \in Run, RunEnds(r) PROVE UNCHANGED Ledger!ledger
  <2>1. CASE runBy[r] = r
    BY <1>1, <1>2, <2>1 DEF RunEnds, DispatchComesAfter
  <2>2. CASE runBy[r] # r
    BY <1>2, <2>2, LedgerKept DEF RunEnds
  <2> QED
    BY <2>1, <2>2
<1>3. ASSUME NEW f \in FullSync, DispatchAfterSync(f) PROVE UNCHANGED Ledger!ledger
  BY <1>1, <1>3 DEF DispatchAfterSync, DispatchComesAfter
<1>4. ASSUME NEW f \in FullSync, FullSyncDies(f) PROVE UNCHANGED Ledger!ledger
  BY <1>1, <1>4 DEF FullSyncDies, DispatchComesAfter
<1>5. ASSUME UNCHANGED <<passVars, bookVars>> PROVE UNCHANGED Ledger!ledger
  BY <1>5, LedgerKept
<1> QED
  BY <1>2, <1>3, <1>4, <1>5
  DEF RunOrSyncStep, BeginPersist, Persist, StartByHand, StartScheduled,
      StartFullSync, Skip

LEMMA LedgerStep ==
  TypeOK /\ DigestInv /\ DispatchComesAfter /\ [Next]_vars
    => [Ledger!LedgerNext]_(Ledger!ledger)
<1> SUFFICES ASSUME TypeOK, DigestInv, DispatchComesAfter, [Next]_vars
             PROVE  Ledger!LedgerNext \/ UNCHANGED Ledger!ledger
  OBVIOUS
<1> USE DEF dataVars, runVars, passVars, bookVars
<1>1. CASE NextDay
  BY <1>1, LedgerKept DEF NextDay
<1>2. CASE RunOrSyncStep
  BY <1>2, LedgerRuns
<1>3. ASSUME NEW d \in Dispatch, NEW s \in {"resolve", "claim"},
             pc[d] \in {"idle", "resolve"}, Goto(d, s),
             UNCHANGED <<claimed, heard, bookVars>>
      PROVE  UNCHANGED Ledger!ledger
  <2>1. \A e \in Dispatch : pc[e] = "announce" <=> pc'[e] = "announce"
    BY <1>3 DEF Goto, TypeOK
  <2> QED
    BY <1>3, <2>1, LedgerKept
<1>4. ASSUME NEW d \in Operator, NEW x \in ForcedDay, DispatchByHand(d, x)
      PROVE  UNCHANGED Ledger!ledger
  BY <1>3, <1>4 DEF DispatchByHand, Dispatch
<1>5. ASSUME NEW d \in Dispatch, ResolveDay(d) PROVE UNCHANGED Ledger!ledger
  BY <1>3, <1>5 DEF ResolveDay
<1>6. ASSUME NEW d \in Dispatch, NEW u \in User, Deliver(d, u)
      PROVE  Ledger!LedgerNext \/ UNCHANGED Ledger!ledger
  BY <1>6, LedgerTell DEF Ledger!LedgerNext
<1>7. ASSUME NEW d \in Dispatch, Claim(d)
      PROVE  Ledger!LedgerNext \/ UNCHANGED Ledger!ledger
  BY <1>7, LedgerClaim DEF Ledger!LedgerNext
\* The loop is through, so nothing is owed.
<1>8. ASSUME NEW d \in Dispatch, Push(d) PROVE UNCHANGED Ledger!ledger
  <2>1. /\ pc[d] = "announce" /\ Owes(d) = {} /\ pc' = [pc EXCEPT ![d] = "prune"]
        /\ UNCHANGED <<claimed, heard, inbox, pruned, lost>>
    BY <1>8 DEF Push, Goto
  <2>2. OwedNow' = OwedNow
    BY <2>1 DEF OwedNow, Owes, TypeOK
  <2> QED
    BY <2>1, <2>2 DEF Ledger!ledger, ToldNow, LostNow
<1>9. ASSUME NEW d \in Dispatch, Prune(d)
      PROVE  Ledger!LedgerNext \/ UNCHANGED Ledger!ledger
  BY <1>9, LedgerForget DEF Ledger!LedgerNext
<1>10. ASSUME NEW d \in Dispatch, DispatchFails(d)
       PROVE  Ledger!LedgerNext \/ UNCHANGED Ledger!ledger
  BY <1>10, LedgerLose DEF Ledger!LedgerNext
<1>11. CASE UNCHANGED vars
  BY <1>11, LedgerKept DEF vars
<1> QED
  BY <1>1, <1>2, <1>4, <1>5, <1>6, <1>7, <1>8, <1>9, <1>10, <1>11
  DEF Next, DispatchStep, Finished

\* Claims, messages, failures and prunes are the steps of a ledger in which a
\* drop is told or lost once and for good (dispatch, claimDrops, announce,
\* pruneDigestLog).
THEOREM LedgerKeptByDigest == Spec => ImplementsLedger
<1>1. TypeOK /\ DigestInv /\ DispatchComesAfter /\ [Next]_vars
        => (TypeOK /\ DigestInv /\ DispatchComesAfter)'
  BY TypeNext, DigestNext, AfterNext
<1> QED
  BY <1>1, LedgerStep, LedgerStart, TypeInit, DigestInit, PTL
  DEF Spec, ImplementsLedger, Ledger!LedgerSpec

\* What a drop's claim came to, it came to for good: a drop told or lost stays
\* told or lost, whatever is claimed, delivered, broken down or started after
\* it, until its claim is pruned.  With DropAnnouncedOnce, a lost one is never
\* told meanwhile.
VerdictsStand ==
  [][/\ ToldNow \subseteq ToldNow' \cup pruned'
     /\ LostNow \subseteq LostNow' \cup pruned']_vars

LEMMA LedgerVerdicts ==
  ASSUME [Ledger!LedgerNext]_(Ledger!ledger)
  PROVE  /\ ToldNow \subseteq ToldNow' \cup pruned'
         /\ LostNow \subseteq LostNow' \cup pruned'
<1>1. CASE UNCHANGED Ledger!ledger
  BY <1>1 DEF Ledger!ledger
<1>2. CASE Ledger!Forget
  BY <1>2 DEF Ledger!Forget
<1>3. ASSUME NEW d \in Dispatch, Ledger!Claim(d) \/ Ledger!Lose(d)
      PROVE  ToldNow \subseteq ToldNow' /\ LostNow \subseteq LostNow'
  BY <1>3 DEF Ledger!Claim, Ledger!Lose
<1>4. ASSUME NEW d \in Dispatch, NEW u \in User, Ledger!Tell(d, u)
      PROVE  ToldNow \subseteq ToldNow' /\ LostNow \subseteq LostNow'
  BY <1>4 DEF Ledger!Tell
<1> QED
  BY <1>1, <1>2, <1>3, <1>4 DEF Ledger!LedgerNext

\* A drop once told, or lost, stays so until its claim is pruned (announce,
\* dispatchAfterSync, pruneDigestLog).
THEOREM ToldOrLostForGood == Spec => VerdictsStand
<1>1. TypeOK /\ DigestInv /\ DispatchComesAfter /\ [Next]_vars
        => (TypeOK /\ DigestInv /\ DispatchComesAfter)'
  BY TypeNext, DigestNext, AfterNext
<1>2. TypeOK /\ DigestInv /\ DispatchComesAfter /\ [Next]_vars
        => /\ ToldNow \subseteq ToldNow' \cup pruned'
           /\ LostNow \subseteq LostNow' \cup pruned'
  BY LedgerStep, LedgerVerdicts
<1> QED
  BY <1>1, <1>2, TypeInit, DigestInit, PTL DEF Spec, VerdictsStand

=============================================================================
