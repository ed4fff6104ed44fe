---------------------------- MODULE LlmBatch_proofs ----------------------------
(***************************************************************************)
(* What LlmBatch promises for any list, batch size, pool and number of     *)
(* rounds.                                                                 *)
(***************************************************************************)
EXTENDS LlmBatch, FiniteSetTheorems, TLAPS

-----------------------------------------------------------------------------
(* The inductive invariant *)

\* A busy worker has from..last still to settle, cut up at to and at cuts.
InOrder(w) ==
  /\ 1 <= from[w] /\ from[w] <= to[w] /\ to[w] <= last[w]
  /\ last[w] < next /\ last[w] <= Size
  /\ \A e \in cuts[w] : to[w] < e /\ e <= last[w]
  /\ to[w] < last[w] => last[w] \in cuts[w]

\* Nobody has settled it.
Open(i) == i >= next \/ \E w \in Worker : /\ Busy(w)
                                          /\ from[w] <= i /\ i <= last[w]

Cursor == next <= Size + 1 /\ \A w \in Worker : first[w] <= last[w] + 1

Claims ==
  \A w \in Worker : IF Busy(w) THEN InOrder(w) ELSE cuts[w] = {}

Apart ==
  \A v, w \in Worker :
    v # w /\ Busy(v) /\ Busy(w) => last[v] < from[w] \/ last[w] < from[v]

Accounted ==
  \A i \in Item : answers[i] + reports[i] = IF Open(i) THEN 0 ELSE 1

WorkInv == Cursor /\ Claims /\ Apart /\ Accounted

\* What was left at the stop is beyond all that was claimed before it.
LateInv ==
  /\ ~Stopped => late = {}
  /\ \A i \in late : /\ answers[i] = 0
                     /\ \A w \in Worker : Busy(w) => last[w] < i

\* Whoever has seen the gate where it is waits for it.
AheadInv ==
  \A w \in Worker :
    /\ ahead[w] <= 1
    /\ pc[w] = "gated" =>
         until[w] <= gate /\ (until[w] < gate => ahead[w] = 0)

LEMMA InitHolds == Init => TypeOK /\ WorkInv /\ LateInv /\ AheadInv
<1> SUFFICES ASSUME Init PROVE TypeOK /\ WorkInv /\ LateInv /\ AheadInv
  OBVIOUS
<1>1. TypeOK
  <2>1. 0 \in 0..Rounds
    BY LlmBatchAssumptions
  <2>2. round \in [Worker -> 0..Rounds]
    BY <2>1 DEF Init
  <2>3. cuts \in [Worker -> SUBSET Item] /\ pc \in [Worker -> Step]
    BY DEF Init, Step
  <2>4. answers \in [Item -> Nat] /\ reports \in [Item -> Nat]
    BY DEF Init
  <2>5. /\ next \in Nat /\ next >= 1 /\ gate \in Nat /\ now \in Nat
        /\ done \in Nat /\ late \subseteq Item
    BY DEF Init
  <2>7. aborted \in BOOLEAN /\ expired \in BOOLEAN
    BY DEF Init
  <2>6. /\ first \in [Worker -> Nat] /\ last \in [Worker -> Nat]
        /\ from \in [Worker -> Nat] /\ to \in [Worker -> Nat]
        /\ until \in [Worker -> Nat] /\ ahead \in [Worker -> Nat]
    BY DEF Init
  <2> QED
    BY <2>2, <2>3, <2>4, <2>5, <2>6, <2>7 DEF TypeOK
<1>2. \A w \in Worker : ~Busy(w)
  BY DEF Init, Busy
<1>3. Cursor /\ Claims /\ Apart
  BY <1>2, LlmBatchAssumptions DEF Init, Cursor, Claims, Apart
<1>4. Accounted
  BY DEF Init, Accounted, Open, Item
<1>5. LateInv /\ AheadInv
  BY DEF Init, LateInv, AheadInv
<1> QED
  BY <1>1, <1>3, <1>4, <1>5 DEF WorkInv

-----------------------------------------------------------------------------
(* Type correctness *)

LEMMA BatchEndBounds ==
  ASSUME TypeOK, next <= Size
  PROVE  /\ BatchEnd \in Nat
         /\ next <= BatchEnd /\ BatchEnd <= Size
         /\ next..BatchEnd \subseteq Item
BY LlmBatchAssumptions DEF BatchEnd, TypeOK, Item

LEMMA NextBatch ==
  ASSUME NEW x \in Nat PROVE x + 1 \in Nat /\ x + 1 >= 1
OBVIOUS

LEMMA GotoKept ==
  ASSUME TypeOK, NEW w \in Worker, NEW s \in Step, Goto(w, s)
  PROVE  pc' \in [Worker -> Step]
BY DEF Goto, TypeOK

LEMMA PlusKept ==
  ASSUME NEW f \in [Item -> Nat], NEW S
  PROVE  Plus(f, S) \in [Item -> Nat]
BY DEF Plus

LEMMA ProceedKept ==
  ASSUME TypeOK, NEW w \in Worker, Proceed(w)
  PROVE  /\ pc' \in [Worker -> Step]
         /\ from' \in [Worker -> Nat] /\ to' \in [Worker -> Nat]
         /\ cuts' \in [Worker -> SUBSET Item]
         /\ round' \in [Worker -> 0..Rounds]
<1>1. CASE Goto(w, "settled") /\ UNCHANGED tryVars
  <2>1. pc' \in [Worker -> Step]
    BY <1>1, GotoKept DEF Step
  <2> QED
    BY <1>1, <2>1 DEF tryVars, TypeOK
<1>2. ASSUME NEW e \in cuts[w],
             from' = [from EXCEPT ![w] = to[w] + 1],
             to' = [to EXCEPT ![w] = e],
             cuts' = [cuts EXCEPT ![w] = @ \ {e}],
             round' = [round EXCEPT ![w] = 0],
             Goto(w, "look")
      PROVE  /\ pc' \in [Worker -> Step]
             /\ from' \in [Worker -> Nat] /\ to' \in [Worker -> Nat]
             /\ cuts' \in [Worker -> SUBSET Item]
             /\ round' \in [Worker -> 0..Rounds]
  <2>1. pc' \in [Worker -> Step]
    BY <1>2, GotoKept DEF Step
  <2>2. e \in Nat /\ to[w] + 1 \in Nat
    BY <1>2, LlmBatchAssumptions DEF TypeOK, Item
  <2>3. 0 \in 0..Rounds
    BY LlmBatchAssumptions
  <2>4. from' \in [Worker -> Nat] /\ to' \in [Worker -> Nat]
    BY <1>2, <2>2 DEF TypeOK
  <2>5. cuts' \in [Worker -> SUBSET Item]
    BY <1>2 DEF TypeOK
  <2>6. round' \in [Worker -> 0..Rounds]
    BY <1>2, <2>3 DEF TypeOK
  <2> QED
    BY <2>1, <2>4, <2>5, <2>6
<1> QED
  BY <1>1, <1>2 DEF Proceed

LEMMA MissedKept ==
  ASSUME TypeOK PROVE Missed \subseteq Item
<1>1. next \in Nat /\ next >= 1 /\ late \subseteq Item
  BY DEF TypeOK
<1>2. next..Size \subseteq Item
  BY <1>1, LlmBatchAssumptions DEF Item
<1> QED
  BY <1>1, <1>2 DEF Missed

LEMMA TypeNext == TypeOK /\ WorkInv /\ [Next]_vars => TypeOK'
<1> SUFFICES ASSUME TypeOK, WorkInv, [Next]_vars PROVE TypeOK'
  OBVIOUS
<1> USE DEF poolVars, tryVars, stopVars, gateVars, itemVars
<1>1. ASSUME NEW w \in Worker, Claim(w) PROVE TypeOK'
  <2>1. pc' \in [Worker -> Step]
    BY <1>1, GotoKept DEF Claim, Step
  <2>2. BatchEnd \in Nat /\ next \in Nat
    BY <1>1, BatchEndBounds DEF Claim, TypeOK
  <2> QED
    BY <1>1, <2>1, <2>2, NextBatch DEF Claim, TypeOK
<1>2. ASSUME NEW w \in Worker, SkipBatch(w) PROVE TypeOK'
  <2>1. pc' \in [Worker -> Step]
    BY <1>2, GotoKept DEF SkipBatch, Step
  <2>2. BatchEnd \in Nat /\ next \in Nat
    BY <1>2, BatchEndBounds DEF SkipBatch, TypeOK
  <2>3. reports' \in [Item -> Nat]
    BY <1>2, PlusKept DEF SkipBatch, TypeOK
  <2> QED
    BY <1>2, <2>1, <2>2, <2>3, NextBatch DEF SkipBatch, TypeOK
<1>3. ASSUME NEW w \in Worker, Finish(w) PROVE TypeOK'
  <2>1. pc' \in [Worker -> Step]
    BY <1>3, GotoKept DEF Finish, Step
  <2>2. done' \in Nat
    <3>1. done \in Nat /\ first[w] \in Nat /\ last[w] \in Nat
      BY DEF TypeOK
    <3>2. first[w] <= last[w] + 1
      BY DEF WorkInv, Cursor
    <3> QED
      BY <1>3, <3>1, <3>2 DEF Finish
  <2>3. round' \in [Worker -> 0..Rounds]
    BY <1>3, LlmBatchAssumptions DEF Finish, TypeOK
  <2>4. /\ first' \in [Worker -> Nat] /\ last' \in [Worker -> Nat]
        /\ from' \in [Worker -> Nat] /\ to' \in [Worker -> Nat]
    BY <1>3 DEF Finish, TypeOK
  <2> QED
    BY <1>3, <2>1, <2>2, <2>3, <2>4 DEF Finish, TypeOK
<1>4. ASSUME NEW w \in Worker, Leave(w) PROVE TypeOK'
  <2>1. pc' \in [Worker -> Step]
    BY <1>4, GotoKept DEF Leave, Step
  <2> QED
    BY <1>4, <2>1 DEF Leave, TypeOK
<1>5. ASSUME NEW w \in Worker, Look(w) PROVE TypeOK'
  <2>1. pc' \in [Worker -> Step]
    BY <1>5, GotoKept DEF Look, Step
  <2> QED
    BY <1>5, <2>1 DEF Look, TypeOK
<1>6. ASSUME NEW w \in Worker, Send(w) PROVE TypeOK'
  <2>1. pc' \in [Worker -> Step]
    BY <1>6, GotoKept DEF Send, Step
  <2>2. ahead' \in [Worker -> Nat]
    BY <1>6 DEF Send, TypeOK
  <2> QED
    BY <1>6, <2>1, <2>2 DEF Send, TypeOK
<1>7. ASSUME NEW w \in Worker, Answer(w) PROVE TypeOK'
  <2>1. answers' \in [Item -> Nat]
    BY <1>7, PlusKept DEF Answer, TypeOK
  <2> QED
    BY <1>7, <2>1, ProceedKept DEF Answer, TypeOK
<1>8. ASSUME NEW w \in Worker, FailFatally(w) PROVE TypeOK'
  <2>1. reports' \in [Item -> Nat]
    BY <1>8, PlusKept DEF FailFatally, GiveUp, TypeOK
  <2> QED
    BY <1>8, <2>1, ProceedKept, MissedKept DEF FailFatally, GiveUp, TypeOK
<1>9. ASSUME NEW w \in Worker, FailForGood(w) PROVE TypeOK'
  <2>1. reports' \in [Item -> Nat]
    BY <1>9, PlusKept DEF FailForGood, GiveUp, TypeOK
  <2> QED
    BY <1>9, <2>1, ProceedKept DEF FailForGood, GiveUp, TypeOK
<1>10. ASSUME NEW w \in Worker, Retry(w) PROVE TypeOK'
  <2>1. pc' \in [Worker -> Step]
    BY <1>10, GotoKept DEF Retry, Step
  <2>2. gate' \in Nat /\ ahead' \in [Worker -> Nat]
    BY <1>10 DEF Retry, TypeOK
  <2>3. round' \in [Worker -> 0..Rounds]
    BY <1>10, LlmBatchAssumptions DEF Retry, TypeOK
  <2> QED
    BY <1>10, <2>1, <2>2, <2>3 DEF Retry, TypeOK
<1>11. ASSUME NEW w \in Worker, Halve(w) PROVE TypeOK'
  <2>1. pc' \in [Worker -> Step]
    BY <1>11, GotoKept DEF Halve, Step
  <2>2. from[w] \in Nat /\ to[w] \in Nat /\ from[w] < to[w]
    BY <1>11 DEF Halve, TypeOK
  <2>3. from[w] + ((to[w] - from[w]) \div 2) \in Nat
    BY <2>2
  <2>4. to[w] \in Item
    <3>1. InOrder(w)
      BY <1>11 DEF Halve, WorkInv, Claims, Busy
    <3>2. last[w] \in Nat
      BY DEF TypeOK
    <3> QED
      BY <2>2, <3>1, <3>2, LlmBatchAssumptions DEF InOrder, Item
  <2>5. round' \in [Worker -> 0..Rounds]
    BY <1>11, LlmBatchAssumptions DEF Halve, TypeOK
  <2> QED
    BY <1>11, <2>1, <2>3, <2>4, <2>5 DEF Halve, TypeOK
<1>12. CASE Expire
  BY <1>12, MissedKept DEF Expire, TypeOK
<1>13. CASE Tick
  BY <1>13 DEF Tick, TypeOK
<1>14. CASE UNCHANGED vars
  BY <1>14 DEF vars, TypeOK
<1> QED
  BY <1>1, <1>2, <1>3, <1>4, <1>5, <1>6, <1>7, <1>8, <1>9, <1>10, <1>11,
     <1>12, <1>13, <1>14
  DEF Next, WorkerStep, Ended

-----------------------------------------------------------------------------
(* Every item once *)

\* Steps that settle nothing and leave every worker its items.
LEMMA SameSpans ==
  ASSUME WorkInv, UNCHANGED <<next, first, last, from, to, cuts, itemVars>>,
         \A w \in Worker : Busy(w)' <=> Busy(w)
  PROVE  WorkInv'
<1>1. \A i \in Item : Open(i)' <=> Open(i)
  BY DEF Open
<1>2. Accounted'
  BY <1>1 DEF WorkInv, Accounted, itemVars
<1>3. Cursor' /\ Claims' /\ Apart'
  BY DEF WorkInv, Cursor, Claims, InOrder, Apart
<1> QED
  BY <1>2, <1>3 DEF WorkInv

LEMMA ClaimWork ==
  ASSUME TypeOK, WorkInv, NEW w \in Worker, Claim(w)
  PROVE  WorkInv'
<1>1. /\ pc[w] = "free" /\ pc' = [pc EXCEPT ![w] = "look"]
      /\ next' = BatchEnd + 1
      /\ first' = [first EXCEPT ![w] = next]
      /\ last' = [last EXCEPT ![w] = BatchEnd]
      /\ from' = [from EXCEPT ![w] = next]
      /\ to' = [to EXCEPT ![w] = BatchEnd]
      /\ UNCHANGED <<cuts, answers, reports>>
  BY DEF Claim, Goto, itemVars
<1>2. /\ next \in Nat /\ next >= 1 /\ BatchEnd \in Nat /\ Size \in Nat
      /\ next <= BatchEnd /\ BatchEnd <= Size
  BY BatchEndBounds, LlmBatchAssumptions DEF Claim, TypeOK
<1>3. /\ ~Busy(w) /\ Busy(w)'
      /\ \A v \in Worker \ {w} : Busy(v)' <=> Busy(v)
  BY <1>1 DEF Busy, TypeOK
<1>4. /\ first'[w] = next /\ last'[w] = BatchEnd
      /\ from'[w] = next /\ to'[w] = BatchEnd
      /\ \A v \in Worker \ {w} : /\ first'[v] = first[v] /\ last'[v] = last[v]
                                 /\ from'[v] = from[v] /\ to'[v] = to[v]
  BY <1>1 DEF TypeOK
<1>5. \A v \in Worker : /\ first[v] \in Nat /\ last[v] \in Nat
                        /\ from[v] \in Nat /\ to[v] \in Nat
  BY DEF TypeOK
<1> HIDE DEF BatchEnd
<1>6. Cursor'
  BY <1>1, <1>2, <1>4 DEF Cursor, WorkInv
<1>7. Claims'
  <2>1. cuts[w] = {}
    BY <1>3 DEF WorkInv, Claims
  <2>2. InOrder(w)'
    BY <1>1, <1>2, <1>4, <2>1 DEF InOrder
  <2>3. ASSUME NEW v \in Worker \ {w}, Busy(v) PROVE InOrder(v)'
    <3>1. InOrder(v)
      BY <2>3 DEF WorkInv, Claims
    <3> QED
      BY <1>1, <1>2, <1>4, <1>5, <3>1 DEF InOrder
  <2> QED
    BY <1>1, <1>3, <2>2, <2>3 DEF Claims, WorkInv
<1>8. Apart'
  <2>1. ASSUME NEW v \in Worker \ {w}, Busy(v) PROVE last[v] < next
    BY <2>1 DEF WorkInv, Claims, InOrder
  <2> QED
    BY <1>3, <1>4, <2>1 DEF Apart, WorkInv
<1>9. ASSUME NEW i \in Item PROVE Open(i)' <=> Open(i)
  <2>1. i \in Nat
    BY <1>2 DEF Item
  <2>2. Open(i) <=> \/ i >= next
                    \/ \E v \in Worker \ {w} : /\ Busy(v)
                                               /\ from[v] <= i /\ i <= last[v]
    BY <1>3 DEF Open
  <2>3. Open(i)' <=> \/ i >= BatchEnd + 1
                     \/ next <= i /\ i <= BatchEnd
                     \/ \E v \in Worker \ {w} : /\ Busy(v)
                                                /\ from[v] <= i /\ i <= last[v]
    BY <1>1, <1>3, <1>4 DEF Open
  <2> QED
    BY <1>2, <2>1, <2>2, <2>3
<1>10. Accounted'
  BY <1>1, <1>9 DEF Accounted, WorkInv
<1> QED
  BY <1>6, <1>7, <1>8, <1>10 DEF WorkInv

LEMMA SkipWork ==
  ASSUME TypeOK, WorkInv, NEW w \in Worker, SkipBatch(w)
  PROVE  /\ WorkInv'
         /\ \A i \in next..BatchEnd : Open(i)
<1>1. /\ pc[w] = "free" /\ pc' = [pc EXCEPT ![w] = "settled"]
      /\ next' = BatchEnd + 1
      /\ first' = [first EXCEPT ![w] = next]
      /\ last' = [last EXCEPT ![w] = BatchEnd]
      /\ reports' = Plus(reports, next..BatchEnd)
      /\ UNCHANGED <<from, to, cuts, answers>>
  BY DEF SkipBatch, Goto, tryVars
<1>2. /\ next \in Nat /\ next >= 1 /\ BatchEnd \in Nat /\ Size \in Nat
      /\ next <= BatchEnd /\ BatchEnd <= Size
  BY BatchEndBounds, LlmBatchAssumptions DEF SkipBatch, TypeOK
<1>3. /\ ~Busy(w) /\ ~Busy(w)'
      /\ \A v \in Worker \ {w} : Busy(v)' <=> Busy(v)
  BY <1>1 DEF Busy, TypeOK
<1>4. /\ first'[w] = next /\ last'[w] = BatchEnd
      /\ \A v \in Worker \ {w} : first'[v] = first[v] /\ last'[v] = last[v]
  BY <1>1 DEF TypeOK
<1>5. \A v \in Worker : /\ first[v] \in Nat /\ last[v] \in Nat
                        /\ from[v] \in Nat /\ to[v] \in Nat
  BY DEF TypeOK
<1> HIDE DEF BatchEnd
<1>6. Cursor'
  BY <1>1, <1>2, <1>4 DEF Cursor, WorkInv
<1>7. Claims'
  <2>1. ASSUME NEW v \in Worker \ {w}, Busy(v) PROVE InOrder(v)'
    <3>1. InOrder(v)
      BY <2>1 DEF WorkInv, Claims
    <3> QED
      BY <1>1, <1>2, <1>4, <1>5, <3>1 DEF InOrder
  <2> QED
    BY <1>1, <1>3, <2>1 DEF Claims, WorkInv
<1>8. Apart'
  BY <1>1, <1>3, <1>4 DEF Apart, WorkInv
<1>9. ASSUME NEW v \in Worker, Busy(v) PROVE v # w /\ last[v] < next
  BY <1>3, <1>9 DEF WorkInv, Claims, InOrder
<1>10. ASSUME NEW i \in Item
       PROVE  /\ i \in next..BatchEnd => Open(i) /\ ~Open(i)'
              /\ i \notin next..BatchEnd => (Open(i)' <=> Open(i))
  <2>1. i \in Nat
    BY <1>2 DEF Item
  <2>2. Open(i)' <=> \/ i >= BatchEnd + 1
                     \/ \E v \in Worker : /\ Busy(v)
                                          /\ from[v] <= i /\ i <= last[v]
    BY <1>1, <1>3, <1>4 DEF Open
  <2>3. i \in next..BatchEnd =>
          ~ \E v \in Worker : Busy(v) /\ from[v] <= i /\ i <= last[v]
    BY <1>2, <1>5, <1>9, <2>1
  <2>4. i \in next..BatchEnd <=> next <= i /\ i <= BatchEnd
    BY <1>2, <2>1
  <2> QED
    BY <1>2, <2>1, <2>2, <2>3, <2>4 DEF Open
<1>11. ASSUME NEW i \in Item
       PROVE  answers'[i] + reports'[i] = IF Open(i)' THEN 0 ELSE 1
  <2>1. answers[i] \in Nat /\ reports[i] \in Nat
    BY DEF TypeOK
  <2>2. answers[i] + reports[i] = IF Open(i) THEN 0 ELSE 1
    BY DEF WorkInv, Accounted
  <2>3. CASE i \in next..BatchEnd
    <3>1. reports'[i] = reports[i] + 1
      BY <1>1, <2>3 DEF Plus
    <3> QED
      BY <1>1, <1>10, <2>1, <2>2, <2>3, <3>1
  <2>4. CASE i \notin next..BatchEnd
    <3>1. reports'[i] = reports[i]
      BY <1>1, <2>4 DEF Plus
    <3> QED
      BY <1>1, <1>10, <2>2, <2>4, <3>1
  <2> QED
    BY <2>3, <2>4
<1>12. Accounted'
  BY <1>11 DEF Accounted
<1>13. next..BatchEnd \subseteq Item
  BY <1>2 DEF Item
<1> QED
  BY <1>6, <1>7, <1>8, <1>10, <1>12, <1>13 DEF WorkInv

LEMMA FinishWork ==
  ASSUME TypeOK, WorkInv, NEW w \in Worker, Finish(w)
  PROVE  WorkInv'
<1>1. /\ pc[w] = "settled" /\ pc' = [pc EXCEPT ![w] = "free"]
      /\ first' = [first EXCEPT ![w] = 1]
      /\ last' = [last EXCEPT ![w] = 0]
      /\ from' = [from EXCEPT ![w] = 1]
      /\ to' = [to EXCEPT ![w] = 0]
      /\ UNCHANGED <<next, cuts, answers, reports>>
  BY DEF Finish, Goto, itemVars
<1>2. /\ ~Busy(w) /\ ~Busy(w)'
      /\ \A v \in Worker \ {w} : Busy(v)' <=> Busy(v)
  BY <1>1 DEF Busy, TypeOK
<1>3. /\ first'[w] = 1 /\ last'[w] = 0
      /\ \A v \in Worker \ {w} : /\ first'[v] = first[v] /\ last'[v] = last[v]
                                 /\ from'[v] = from[v] /\ to'[v] = to[v]
  BY <1>1 DEF TypeOK
<1>4. Cursor'
  BY <1>1, <1>3 DEF Cursor, WorkInv
<1>5. Claims'
  BY <1>1, <1>2, <1>3 DEF Claims, InOrder, WorkInv
<1>6. Apart'
  BY <1>2, <1>3 DEF Apart, WorkInv
<1>7. \A i \in Item : Open(i)' <=> Open(i)
  BY <1>1, <1>2, <1>3 DEF Open
<1>8. Accounted'
  BY <1>1, <1>7 DEF Accounted, WorkInv
<1> QED
  BY <1>4, <1>5, <1>6, <1>8 DEF WorkInv

\* What a worker has sent is of its own items, which nobody has settled.
LEMMA SentIsOpen ==
  ASSUME TypeOK, WorkInv, NEW w \in Worker, pc[w] = "sent"
  PROVE  /\ InOrder(w)
         /\ from[w] \in Nat /\ to[w] \in Nat /\ last[w] \in Nat
         /\ from[w]..to[w] \subseteq Item
         /\ \A i \in from[w]..to[w] : Open(i)
<1>1. Busy(w) /\ InOrder(w)
  BY DEF Busy, WorkInv, Claims
<1>2. from[w] \in Nat /\ to[w] \in Nat /\ last[w] \in Nat
  BY DEF TypeOK
<1>3. from[w]..to[w] \subseteq Item
  BY <1>1, <1>2, LlmBatchAssumptions DEF InOrder, Item
<1>4. \A i \in from[w]..to[w] : from[w] <= i /\ i <= last[w]
  BY <1>1, <1>2 DEF InOrder
<1> QED
  BY <1>1, <1>2, <1>3, <1>4 DEF Open

\* The attempt's items are settled and the rest stays the worker's.
LEMMA ProceedOrder ==
  ASSUME TypeOK, WorkInv, NEW w \in Worker, pc[w] = "sent", Proceed(w),
         UNCHANGED <<next, first, last>>
  PROVE  /\ \A v \in Worker \ {w} :
              /\ Busy(v)' <=> Busy(v)
              /\ from'[v] = from[v] /\ to'[v] = to[v] /\ cuts'[v] = cuts[v]
         /\ Busy(w)' => InOrder(w)' /\ from'[w] = to[w] + 1
         /\ ~Busy(w)' => cuts'[w] = {} /\ to[w] = last[w]
<1>1. /\ InOrder(w) /\ from[w] \in Nat /\ to[w] \in Nat /\ last[w] \in Nat
      /\ Size \in Nat
  BY SentIsOpen, LlmBatchAssumptions
<1>2. CASE cuts[w] = {} /\ Goto(w, "settled") /\ UNCHANGED tryVars
  <2>1. to[w] = last[w]
    BY <1>1, <1>2 DEF InOrder
  <2>2. ~Busy(w)' /\ \A v \in Worker \ {w} : Busy(v)' <=> Busy(v)
    BY <1>2 DEF Goto, Busy, TypeOK
  <2> QED
    BY <1>2, <2>1, <2>2 DEF tryVars
<1>3. ASSUME NEW e \in cuts[w],
             \A f \in cuts[w] : e <= f,
             from' = [from EXCEPT ![w] = to[w] + 1],
             to' = [to EXCEPT ![w] = e],
             cuts' = [cuts EXCEPT ![w] = @ \ {e}],
             Goto(w, "look")
      PROVE  /\ \A v \in Worker \ {w} :
                  /\ Busy(v)' <=> Busy(v)
                  /\ from'[v] = from[v] /\ to'[v] = to[v] /\ cuts'[v] = cuts[v]
             /\ Busy(w)' /\ InOrder(w)' /\ from'[w] = to[w] + 1
  <2>1. Busy(w)' /\ \A v \in Worker \ {w} : Busy(v)' <=> Busy(v)
    BY <1>3 DEF Goto, Busy, TypeOK
  <2>2. /\ from'[w] = to[w] + 1 /\ to'[w] = e /\ cuts'[w] = cuts[w] \ {e}
        /\ \A v \in Worker \ {w} :
             from'[v] = from[v] /\ to'[v] = to[v] /\ cuts'[v] = cuts[v]
    BY <1>3 DEF TypeOK
  <2>3. e \in Nat /\ \A f \in cuts[w] : f \in Nat
    BY <1>3, LlmBatchAssumptions DEF TypeOK, Item
  <2>4. to[w] < e /\ e <= last[w]
    BY <1>1, <1>3 DEF InOrder
  <2>5. \A f \in cuts[w] \ {e} : e < f /\ f <= last[w]
    BY <1>1, <1>3, <2>3 DEF InOrder
  <2>6. e < last[w] => last[w] \in cuts[w] \ {e}
    BY <1>1, <2>3, <2>4 DEF InOrder
  <2>7. InOrder(w)'
    BY <1>1, <2>2, <2>3, <2>4, <2>5, <2>6 DEF InOrder
  <2> QED
    BY <2>1, <2>2, <2>7
<1> QED
  BY <1>2, <1>3 DEF Proceed

LEMMA ProceedWork ==
  ASSUME TypeOK, WorkInv, NEW w \in Worker, pc[w] = "sent", Proceed(w),
         UNCHANGED <<next, first, last>>,
         \A i \in Item :
           IF i \in from[w]..to[w]
           THEN answers'[i] + reports'[i] = answers[i] + reports[i] + 1
           ELSE answers'[i] + reports'[i] = answers[i] + reports[i]
  PROVE  WorkInv'
<1>1. /\ InOrder(w) /\ from[w] \in Nat /\ to[w] \in Nat /\ last[w] \in Nat
      /\ Busy(w) /\ Size \in Nat
      /\ \A i \in from[w]..to[w] : Open(i)
  BY SentIsOpen, LlmBatchAssumptions DEF Busy
<1>2. /\ \A v \in Worker \ {w} :
           /\ Busy(v)' <=> Busy(v)
           /\ from'[v] = from[v] /\ to'[v] = to[v] /\ cuts'[v] = cuts[v]
      /\ Busy(w)' => InOrder(w)' /\ from'[w] = to[w] + 1
      /\ ~Busy(w)' => cuts'[w] = {} /\ to[w] = last[w]
  BY ProceedOrder
<1>3. Cursor'
  BY DEF Cursor, WorkInv
<1>4. Claims'
  <2>1. ASSUME NEW v \in Worker \ {w}
        PROVE  IF Busy(v)' THEN InOrder(v)' ELSE cuts'[v] = {}
    BY <1>2 DEF WorkInv, Claims, InOrder
  <2> QED
    BY <1>2, <2>1 DEF Claims
<1>5. Apart'
  <2>1. ASSUME NEW v \in Worker \ {w}, Busy(v), Busy(w)'
        PROVE  last[v] < from'[w] \/ last[w] < from[v]
    <3>1. last[v] < from[w] \/ last[w] < from[v]
      BY <1>1, <2>1 DEF WorkInv, Apart
    <3>2. last[v] \in Nat /\ from[v] \in Nat
      BY DEF TypeOK
    <3> QED
      BY <1>1, <1>2, <2>1, <3>1, <3>2 DEF InOrder
  <2> QED
    BY <1>2, <2>1 DEF Apart, WorkInv
<1>6. ASSUME NEW i \in Item
      PROVE  /\ i \in from[w]..to[w] => ~Open(i)'
             /\ i \notin from[w]..to[w] => (Open(i)' <=> Open(i))
  <2>1. i \in Nat
    BY <1>1 DEF Item
  <2>2. Open(i)' <=> \/ i >= next
                     \/ Busy(w)' /\ to[w] + 1 <= i /\ i <= last[w]
                     \/ \E v \in Worker \ {w} : /\ Busy(v)
                                                /\ from[v] <= i /\ i <= last[v]
    BY <1>2 DEF Open
  <2>3. Open(i) <=> \/ i >= next
                    \/ from[w] <= i /\ i <= last[w]
                    \/ \E v \in Worker \ {w} : /\ Busy(v)
                                               /\ from[v] <= i /\ i <= last[v]
    BY <1>1 DEF Open
  <2>4. next \in Nat
    BY DEF TypeOK
  <2>5. ASSUME i \in from[w]..to[w] PROVE ~Open(i)'
    <3>1. from[w] <= i /\ i <= to[w] /\ i <= last[w] /\ i < next
      BY <1>1, <2>1, <2>4, <2>5 DEF InOrder
    <3>2. ASSUME NEW v \in Worker \ {w}, Busy(v), from[v] <= i, i <= last[v]
          PROVE  FALSE
      <4>1. last[v] < from[w] \/ last[w] < from[v]
        BY <1>1, <3>2 DEF WorkInv, Apart
      <4>2. last[v] \in Nat /\ from[v] \in Nat
        BY DEF TypeOK
      <4> QED
        BY <1>1, <2>1, <3>1, <3>2, <4>1, <4>2
    <3> QED
      BY <1>1, <2>1, <2>2, <2>4, <3>1, <3>2
  <2>6. ASSUME i \notin from[w]..to[w] PROVE Open(i)' <=> Open(i)
    <3>1. i < from[w] \/ to[w] < i
      BY <1>1, <2>1, <2>6
    <3>2. Busy(w)' /\ to[w] + 1 <= i /\ i <= last[w]
            <=> from[w] <= i /\ i <= last[w]
      BY <1>1, <1>2, <2>1, <3>1 DEF InOrder
    <3> QED
      BY <2>2, <2>3, <3>2
  <2> QED
    BY <2>5, <2>6
<1>7. ASSUME NEW i \in Item
      PROVE  answers'[i] + reports'[i] = IF Open(i)' THEN 0 ELSE 1
  <2>1. answers[i] + reports[i] = IF Open(i) THEN 0 ELSE 1
    BY DEF WorkInv, Accounted
  <2>2. CASE i \in from[w]..to[w]
    BY <1>1, <1>6, <2>1, <2>2
  <2>3. CASE i \notin from[w]..to[w]
    BY <1>6, <2>1, <2>3
  <2> QED
    BY <2>2, <2>3
<1>8. Accounted'
  BY <1>7 DEF Accounted
<1> QED
  BY <1>3, <1>4, <1>5, <1>8 DEF WorkInv

LEMMA HalveWork ==
  ASSUME TypeOK, WorkInv, NEW w \in Worker, Halve(w)
  PROVE  WorkInv'
<1> DEFINE mid == from[w] + ((to[w] - from[w]) \div 2)
<1>1. /\ pc[w] = "sent" /\ from[w] < to[w]
      /\ pc' = [pc EXCEPT ![w] = "look"]
      /\ to' = [to EXCEPT ![w] = mid]
      /\ cuts' = [cuts EXCEPT ![w] = @ \cup {to[w]}]
      /\ UNCHANGED <<next, first, last, from, answers, reports>>
  BY DEF Halve, Goto, poolVars, itemVars
<1>2. /\ InOrder(w) /\ from[w] \in Nat /\ to[w] \in Nat /\ last[w] \in Nat
  BY <1>1, SentIsOpen
<1>3. mid \in Nat /\ from[w] <= mid /\ mid < to[w]
  BY <1>1, <1>2
<1> HIDE DEF mid
<1>4. /\ Busy(w) /\ Busy(w)'
      /\ \A v \in Worker : Busy(v)' <=> Busy(v)
  BY <1>1 DEF Busy, TypeOK
<1>5. /\ to'[w] = mid /\ cuts'[w] = cuts[w] \cup {to[w]}
      /\ \A v \in Worker \ {w} : to'[v] = to[v] /\ cuts'[v] = cuts[v]
  BY <1>1 DEF TypeOK
<1>6. InOrder(w)'
  <2>1. \A e \in cuts[w] : e \in Nat
    BY LlmBatchAssumptions DEF TypeOK, Item
  <2>2. \A e \in cuts[w] \cup {to[w]} : mid < e /\ e <= last[w]
    BY <1>2, <1>3, <2>1 DEF InOrder
  <2>3. mid < last[w] /\ last[w] \in cuts[w] \cup {to[w]}
    BY <1>2, <1>3 DEF InOrder
  <2>4. mid <= last[w]
    BY <1>2, <1>3, <2>3
  <2> QED
    BY <1>1, <1>2, <1>3, <1>5, <2>2, <2>3, <2>4 DEF InOrder
<1>7. Claims'
  BY <1>1, <1>4, <1>5, <1>6 DEF Claims, InOrder, WorkInv
<1>8. Cursor' /\ Apart'
  BY <1>1, <1>4 DEF Cursor, Apart, WorkInv
<1>9. \A i \in Item : Open(i)' <=> Open(i)
  BY <1>1, <1>4 DEF Open
<1>10. Accounted'
  BY <1>1, <1>9 DEF Accounted, WorkInv
<1> QED
  BY <1>7, <1>8, <1>10 DEF WorkInv

LEMMA WorkNext == TypeOK /\ WorkInv /\ [Next]_vars => WorkInv'
<1> SUFFICES ASSUME TypeOK, WorkInv, [Next]_vars PROVE WorkInv'
  OBVIOUS
<1> USE DEF poolVars, tryVars, itemVars
<1>1. ASSUME NEW w \in Worker, Claim(w) PROVE WorkInv'
  BY <1>1, ClaimWork
<1>2. ASSUME NEW w \in Worker, SkipBatch(w) PROVE WorkInv'
  BY <1>2, SkipWork
<1>3. ASSUME NEW w \in Worker, Finish(w) PROVE WorkInv'
  BY <1>3, FinishWork
<1>4. ASSUME NEW w \in Worker, Leave(w) PROVE WorkInv'
  <2>1. \A v \in Worker : Busy(v)' <=> Busy(v)
    BY <1>4 DEF Leave, Goto, Busy, TypeOK
  <2> QED
    BY <1>4, <2>1, SameSpans DEF Leave
<1>5. ASSUME NEW w \in Worker, Look(w) PROVE WorkInv'
  <2>1. \A v \in Worker : Busy(v)' <=> Busy(v)
    BY <1>5 DEF Look, Goto, Busy, TypeOK
  <2> QED
    BY <1>5, <2>1, SameSpans DEF Look
<1>6. ASSUME NEW w \in Worker, Send(w) PROVE WorkInv'
  <2>1. \A v \in Worker : Busy(v)' <=> Busy(v)
    BY <1>6 DEF Send, Goto, Busy, TypeOK
  <2> QED
    BY <1>6, <2>1, SameSpans DEF Send
<1>7. ASSUME NEW w \in Worker, Retry(w) PROVE WorkInv'
  <2>1. \A v \in Worker : Busy(v)' <=> Busy(v)
    BY <1>7 DEF Retry, Goto, Busy, TypeOK
  <2> QED
    BY <1>7, <2>1, SameSpans DEF Retry
<1>8. ASSUME NEW w \in Worker, Answer(w) PROVE WorkInv'
  <2>0. /\ answers \in [Item -> Nat] /\ reports \in [Item -> Nat]
        /\ answers' = Plus(answers, from[w]..to[w]) /\ reports' = reports
    BY <1>8 DEF Answer, TypeOK
  <2>1. \A i \in Item : /\ answers[i] \in Nat /\ reports[i] \in Nat
                        /\ reports'[i] = reports[i]
                        /\ answers'[i] = IF i \in from[w]..to[w]
                                         THEN answers[i] + 1 ELSE answers[i]
    BY <2>0 DEF Plus
  <2>2. \A i \in Item :
          IF i \in from[w]..to[w]
          THEN answers'[i] + reports'[i] = answers[i] + reports[i] + 1
          ELSE answers'[i] + reports'[i] = answers[i] + reports[i]
    BY <2>1
  <2> QED
    BY <1>8, <2>2, ProceedWork DEF Answer
<1>9. ASSUME NEW w \in Worker, pc[w] = "sent", GiveUp(w),
             UNCHANGED <<poolVars, answers>>
      PROVE  WorkInv'
  <2>0. /\ answers \in [Item -> Nat] /\ reports \in [Item -> Nat]
        /\ reports' = Plus(reports, from[w]..to[w]) /\ answers' = answers
    BY <1>9 DEF GiveUp, TypeOK
  <2>1. \A i \in Item : /\ answers[i] \in Nat /\ reports[i] \in Nat
                        /\ answers'[i] = answers[i]
                        /\ reports'[i] = IF i \in from[w]..to[w]
                                         THEN reports[i] + 1 ELSE reports[i]
    BY <2>0 DEF Plus
  <2>2. \A i \in Item :
          IF i \in from[w]..to[w]
          THEN answers'[i] + reports'[i] = answers[i] + reports[i] + 1
          ELSE answers'[i] + reports'[i] = answers[i] + reports[i]
    BY <2>1
  <2> QED
    BY <1>9, <2>2, ProceedWork DEF GiveUp
<1>10. ASSUME NEW w \in Worker, FailFatally(w) \/ FailForGood(w) PROVE WorkInv'
  BY <1>9, <1>10 DEF FailFatally, FailForGood
<1>11. ASSUME NEW w \in Worker, Halve(w) PROVE WorkInv'
  BY <1>11, HalveWork
<1>12. CASE Expire \/ Tick \/ UNCHANGED vars
  <2>1. UNCHANGED <<next, first, last, from, to, cuts, itemVars, pc>>
    BY <1>12 DEF Expire, Tick, vars
  <2> QED
    BY <2>1, SameSpans DEF Busy
<1> QED
  BY <1>1, <1>2, <1>3, <1>4, <1>5, <1>6, <1>7, <1>8, <1>10, <1>11, <1>12
  DEF Next, WorkerStep, Ended

\* Every variable keeps its type.
THEOREM TypeCorrect == Spec => []TypeOK
BY InitHolds, TypeNext, WorkNext, PTL DEF Spec

\* No item is settled twice, for any list, batch size and pool.
THEOREM SettledAtMostOnce == Spec => []EveryItemOnce
<1>1. TypeOK /\ WorkInv => EveryItemOnce
  BY DEF WorkInv, Accounted, EveryItemOnce
<1> QED
  BY <1>1, InitHolds, TypeNext, WorkNext, PTL DEF Spec

-----------------------------------------------------------------------------
(* The run as BatchWork sees it *)

LEMMA OpenIsUnsettled ==
  ASSUME TypeOK, WorkInv, NEW S \in SUBSET Item, \A i \in S : Open(i)
  PROVE  S \in SUBSET Work!Unsettled
BY DEF WorkInv, Accounted, Work!Unsettled

\* A step settles some items nobody has settled before, or is not seen.
LEMMA StepSettles ==
  TypeOK /\ WorkInv /\ [Next]_vars => [Work!Next]_Work!work
<1> SUFFICES ASSUME TypeOK, WorkInv, [Next]_vars
             PROVE  [Work!Next]_<<answers, reports>>
  BY DEF Work!work
<1> USE DEF itemVars
<1>1. ASSUME NEW w \in Worker, SkipBatch(w) PROVE Work!Next
  <2>0. next \in Nat /\ next <= Size
    BY <1>1 DEF SkipBatch, TypeOK
  <2>1. /\ next..BatchEnd \subseteq Item
        /\ next \in next..BatchEnd
    BY <2>0, BatchEndBounds
  <2>2. next..BatchEnd \in SUBSET Work!Unsettled
    BY <1>1, <2>1, SkipWork, OpenIsUnsettled
  <2>3. Work!Settle(next..BatchEnd)
    BY <1>1 DEF SkipBatch, Plus, Work!Settle, Work!Plus
  <2> QED
    BY <2>1, <2>2, <2>3 DEF Work!Next
<1>2. ASSUME NEW w \in Worker, pc[w] = "sent",
             Work!Settle(from[w]..to[w])
      PROVE  Work!Next
  <2>1. /\ from[w]..to[w] \in SUBSET Work!Unsettled
    BY <1>2, SentIsOpen, OpenIsUnsettled
  <2>2. from[w] \in from[w]..to[w]
    BY <1>2, SentIsOpen DEF InOrder
  <2> QED
    BY <1>2, <2>1, <2>2 DEF Work!Next
<1>3. ASSUME NEW w \in Worker, Answer(w) PROVE Work!Next
  <2>1. Work!Settle(from[w]..to[w])
    BY <1>3 DEF Answer, Plus, Work!Settle, Work!Plus
  <2> QED
    BY <1>2, <1>3, <2>1 DEF Answer
<1>4. ASSUME NEW w \in Worker, FailFatally(w) \/ FailForGood(w)
      PROVE  Work!Next
  <2>1. Work!Settle(from[w]..to[w])
    BY <1>4 DEF FailFatally, FailForGood, GiveUp, Plus, Work!Settle, Work!Plus
  <2> QED
    BY <1>2, <1>4, <2>1 DEF FailFatally, FailForGood
<1>5. ASSUME NEW w \in Worker,
             \/ Claim(w) \/ Finish(w) \/ Leave(w) \/ Look(w) \/ Send(w)
             \/ Retry(w) \/ Halve(w)
      PROVE  UNCHANGED <<answers, reports>>
  BY <1>5 DEF Claim, Finish, Leave, Look, Send, Retry, Halve
<1>6. CASE Expire \/ Tick \/ UNCHANGED vars
  BY <1>6 DEF Expire, Tick, vars
<1> QED
  BY <1>1, <1>3, <1>4, <1>5, <1>6 DEF Next, WorkerStep, Ended

\* Every run settles items as BatchWork allows.  That all of them are settled
\* in the end is for the model checker.
THEOREM SettlesLikeBatchWork == Spec => Work!Init /\ [][Work!Next]_Work!work
<1>1. Init => Work!Init
  BY DEF Init, Work!Init
<1> QED
  BY <1>1, InitHolds, TypeNext, WorkNext, StepSettles, PTL DEF Spec

-----------------------------------------------------------------------------
(* The deadline and the gate *)

\* A worker that is busy after a step was busy before with the same last item,
\* unless it has just claimed.
LEMMA BusyWas ==
  ASSUME TypeOK, NEW w \in Worker, WorkerStep(w), ~Claim(w),
         NEW v \in Worker, Busy(v)'
  PROVE  Busy(v) /\ last'[v] = last[v]
<1> USE DEF poolVars, tryVars
<1>1. CASE v = w
  <2>1. /\ pc[w] \in {"look", "gated", "sent"}
        /\ last' = last
    BY <1>1 DEF WorkerStep, SkipBatch, Finish, Leave, Look, Send, Answer,
                FailFatally, Retry, FailForGood, Halve, Goto, Busy, TypeOK
  <2> QED
    BY <1>1, <2>1 DEF Busy
<1>2. CASE v # w
  <2>1. pc'[v] = pc[v]
    BY <1>2 DEF WorkerStep, SkipBatch, Finish, Leave, Look, Send, Answer,
                FailFatally, Retry, FailForGood, GiveUp, Proceed, Halve, Goto,
                TypeOK
  <2>2. last'[v] = last[v]
    BY <1>2 DEF WorkerStep, SkipBatch, Finish, Leave, Look, Send, Answer,
                FailFatally, Retry, FailForGood, Halve, TypeOK
  <2> QED
    BY <2>1, <2>2 DEF Busy
<1> QED
  BY <1>1, <1>2

LEMMA LateNext ==
  TypeOK /\ WorkInv /\ LateInv /\ [Next]_vars => LateInv'
<1> SUFFICES ASSUME TypeOK, WorkInv, LateInv, [Next]_vars PROVE LateInv'
  OBVIOUS
<1> USE DEF poolVars, tryVars, stopVars, gateVars, itemVars
<1>1. \A w \in Worker : Busy(w) => last[w] < next
  BY DEF WorkInv, Claims, InOrder
<1>2. ASSUME NEW i \in Missed
      PROVE  answers[i] = 0 /\ \A w \in Worker : Busy(w) => last[w] < i
  <2>1. CASE Stopped
    BY <1>2, <2>1 DEF Missed, LateInv
  <2>2. CASE ~Stopped
    <3>1. i \in next..Size /\ next \in Nat /\ next >= 1
      BY <1>2, <2>2 DEF Missed, TypeOK
    <3>2. i \in Item /\ i \in Nat /\ next <= i
      BY <3>1, LlmBatchAssumptions DEF Item
    <3>3. answers[i] = 0
      <4>1. answers[i] + reports[i] = 0
        BY <3>2 DEF WorkInv, Accounted, Open
      <4>2. answers[i] \in Nat /\ reports[i] \in Nat
        BY <3>2 DEF TypeOK
      <4> QED
        BY <4>1, <4>2
    <3>4. \A w \in Worker : last[w] \in Nat
      BY DEF TypeOK
    <3> QED
      BY <1>1, <3>1, <3>2, <3>3, <3>4
  <2> QED
    BY <2>1, <2>2
<1>3. ASSUME NEW w \in Worker, Claim(w) PROVE LateInv'
  <2>1. late = {} /\ late' = late /\ ~Stopped'
    BY <1>3 DEF Claim, LateInv, Stopped
  <2> QED
    BY <2>1 DEF LateInv
<1>4. ASSUME NEW w \in Worker, WorkerStep(w), ~Claim(w) PROVE LateInv'
  <2>1. \A v \in Worker : Busy(v)' => Busy(v) /\ last'[v] = last[v]
    BY <1>4, BusyWas
  <2>2. ASSUME UNCHANGED <<stopVars, answers>> PROVE LateInv'
    BY <2>1, <2>2 DEF LateInv, Stopped
  <2>3. CASE FailFatally(w)
    <3>1. /\ late' = Missed /\ Stopped' /\ UNCHANGED answers
      BY <2>3 DEF FailFatally, Stopped
    <3> QED
      BY <1>2, <2>1, <3>1 DEF LateInv
  <2>4. CASE Answer(w)
    <3>1. /\ UNCHANGED stopVars
          /\ answers' = Plus(answers, from[w]..to[w])
          /\ pc[w] = "sent"
      BY <2>4 DEF Answer
    <3>2. /\ InOrder(w) /\ Busy(w) /\ last[w] \in Nat
          /\ from[w] \in Nat /\ to[w] \in Nat
      BY <3>1, SentIsOpen DEF Busy
    <3>3. ASSUME NEW i \in late PROVE answers'[i] = 0
      <4>1. i \in Item /\ i \in Nat /\ last[w] < i /\ answers[i] = 0
        BY <3>2, LlmBatchAssumptions DEF LateInv, TypeOK, Item
      <4>2. i \notin from[w]..to[w]
        BY <3>2, <4>1 DEF InOrder
      <4> QED
        BY <3>1, <4>1, <4>2 DEF Plus
    <3> QED
      BY <2>1, <3>1, <3>3 DEF LateInv, Stopped
  <2> QED
    BY <1>4, <2>2, <2>3, <2>4
    DEF WorkerStep, SkipBatch, Finish, Leave, Look, Send, Retry, FailForGood,
        Halve
<1>5. CASE Expire
  <2>1. late' = Missed /\ Stopped' /\ UNCHANGED <<answers, pc, last>>
    BY <1>5 DEF Expire, Stopped
  <2> QED
    BY <1>2, <2>1 DEF LateInv, Busy
<1>6. CASE Tick \/ UNCHANGED vars
  <2>1. UNCHANGED <<stopVars, answers, pc, last>>
    BY <1>6 DEF Tick, vars
  <2> QED
    BY <2>1 DEF LateInv, Stopped, Busy
<1> QED
  BY <1>3, <1>4, <1>5, <1>6 DEF Next, Ended

\* What was unclaimed when the run was stopped is never answered.
THEOREM StoppedForGood == Spec => []NothingLate
<1>1. LateInv => NothingLate
  BY DEF LateInv, NothingLate
<1> QED
  BY <1>1, InitHolds, TypeNext, WorkNext, LateNext, PTL DEF Spec

LEMMA AheadNext == TypeOK /\ AheadInv /\ [Next]_vars => AheadInv'
<1> SUFFICES ASSUME TypeOK, AheadInv, [Next]_vars PROVE AheadInv'
  OBVIOUS
<1> USE DEF gateVars
<1>1. /\ gate \in Nat /\ now \in Nat
      /\ \A v \in Worker : ahead[v] \in Nat /\ until[v] \in Nat
  BY DEF TypeOK
<1>2. ASSUME UNCHANGED <<until, gate, ahead>>,
             \A v \in Worker : pc'[v] = "gated" => pc[v] = "gated"
      PROVE  AheadInv'
  BY <1>2 DEF AheadInv
<1>3. ASSUME NEW w \in Worker,
             \/ Claim(w) \/ SkipBatch(w) \/ Finish(w) \/ Leave(w) \/ Answer(w)
             \/ FailFatally(w) \/ FailForGood(w) \/ Halve(w)
      PROVE  AheadInv'
  <2>1. UNCHANGED <<until, gate, ahead>>
    BY <1>3 DEF Claim, SkipBatch, Finish, Leave, Answer, FailFatally,
                FailForGood, Halve
  <2>2. \A v \in Worker : pc'[v] = "gated" => pc[v] = "gated"
    BY <1>3 DEF Claim, SkipBatch, Finish, Leave, Answer, FailFatally,
                FailForGood, GiveUp, Proceed, Halve, Goto, TypeOK, tryVars
  <2> QED
    BY <1>2, <2>1, <2>2
<1>4. ASSUME NEW w \in Worker, Look(w) PROVE AheadInv'
  <2>1. /\ until'[w] = gate /\ UNCHANGED <<gate, ahead>>
        /\ \A v \in Worker \ {w} : until'[v] = until[v] /\ pc'[v] = pc[v]
    BY <1>4 DEF Look, Goto, TypeOK
  <2> QED
    BY <1>1, <2>1 DEF AheadInv
<1>5. ASSUME NEW w \in Worker, Send(w) PROVE AheadInv'
  <2>1. /\ pc[w] = "gated" /\ now >= until[w] /\ pc'[w] = "sent"
        /\ ahead'[w] = (IF now < gate THEN ahead[w] + 1 ELSE ahead[w])
        /\ UNCHANGED gate
        /\ \A v \in Worker \ {w} : /\ until'[v] = until[v] /\ pc'[v] = pc[v]
                                   /\ ahead'[v] = ahead[v]
    BY <1>5 DEF Send, Goto, TypeOK
  <2>2. now < gate => ahead[w] = 0
    BY <1>1, <2>1 DEF AheadInv
  <2> QED
    BY <1>1, <2>1, <2>2 DEF AheadInv
<1>6. ASSUME NEW w \in Worker, Retry(w) PROVE AheadInv'
  <2>1. /\ UNCHANGED until
        /\ \A v \in Worker : pc'[v] = "gated" => pc[v] = "gated"
        /\ \/ gate' = gate /\ ahead' = ahead
           \/ gate' = gate + 1 /\ \A v \in Worker : ahead'[v] = 0
    BY <1>1, <1>6 DEF Retry, Goto, TypeOK
  <2> QED
    BY <1>1, <2>1 DEF AheadInv
<1>7. CASE Expire \/ Tick \/ UNCHANGED vars
  BY <1>2, <1>7 DEF Expire, Tick, vars
<1> QED
  BY <1>3, <1>4, <1>5, <1>6, <1>7 DEF Next, WorkerStep, Ended

\* A gate holds every worker but for one call each.
THEOREM GateHolds == Spec => []OneSendAhead
<1>1. AheadInv => OneSendAhead
  BY DEF AheadInv, OneSendAhead
<1> QED
  BY <1>1, InitHolds, TypeNext, WorkNext, AheadNext, PTL DEF Spec

-----------------------------------------------------------------------------
(* The count that is reported *)

Idle(w) == pc[w] \in {"free", "gone"}

Held(w, i) == first[w] <= i /\ i <= last[w]

\* Counted are the items claimed that no worker holds.
Counted == {i \in 1..(next - 1) : \A w \in Worker : ~Held(w, i)}

\* Batches are intervals that do not meet.
Batches ==
  /\ \A w \in Worker : IF Idle(w) THEN first[w] = 1 /\ last[w] = 0
                       ELSE /\ 1 <= first[w] /\ first[w] <= last[w]
                            /\ last[w] < next
  /\ \A w \in Worker : Busy(w) => first[w] <= from[w]
  /\ \A v, w \in Worker :
       v # w /\ ~Idle(v) /\ ~Idle(w) => last[v] < first[w] \/ last[w] < first[v]

CountInv == Batches /\ done = Cardinality(Counted)

LEMMA CountInit == Init => CountInv
<1> SUFFICES ASSUME Init PROVE CountInv
  OBVIOUS
<1>1. Batches
  BY DEF Init, Batches, Idle, Busy
<1>2. Counted = {}
  BY DEF Init, Counted
<1> QED
  BY <1>1, <1>2, FS_EmptySet DEF Init, CountInv

\* A step that claims and counts nothing.
LEMMA CountStays ==
  ASSUME TypeOK, CountInv, UNCHANGED <<next, first, last, done>>,
         \A w \in Worker : /\ Idle(w)' <=> Idle(w)
                           /\ Busy(w)' => Busy(w) /\ from[w] <= from'[w],
         from' \in [Worker -> Nat]
  PROVE  CountInv'
<1>1. Counted' = Counted
  BY DEF Counted, Held
<1>2. \A w \in Worker : first[w] \in Nat /\ from[w] \in Nat /\ from'[w] \in Nat
  BY DEF TypeOK
<1>3. Batches'
  BY <1>2 DEF CountInv, Batches
<1> QED
  BY <1>1, <1>3 DEF CountInv

LEMMA CountClaims ==
  ASSUME TypeOK, WorkInv, CountInv, NEW w \in Worker, Claim(w) \/ SkipBatch(w)
  PROVE  CountInv'
<1>1. /\ pc[w] = "free" /\ next <= Size /\ next' = BatchEnd + 1
      /\ first'[w] = next /\ last'[w] = BatchEnd /\ done' = done
      /\ pc'[w] = "settled" \/ (pc'[w] = "look" /\ from'[w] = next)
      /\ \A v \in Worker \ {w} : /\ first'[v] = first[v] /\ last'[v] = last[v]
                                 /\ pc'[v] = pc[v] /\ from'[v] = from[v]
  BY DEF Claim, SkipBatch, Goto, TypeOK, tryVars
<1>2. /\ BatchEnd \in Nat /\ next <= BatchEnd /\ next \in Nat /\ next >= 1
      /\ \A v \in Worker : first[v] \in Nat /\ last[v] \in Nat /\ from[v] \in Nat
  BY <1>1, BatchEndBounds DEF TypeOK
<1>3. first[w] = 1 /\ last[w] = 0
  BY <1>1 DEF CountInv, Batches, Idle
<1>4. Batches'
  <2>1. ASSUME NEW v \in Worker
        PROVE  /\ IF Idle(v)' THEN first'[v] = 1 /\ last'[v] = 0
                  ELSE 1 <= first'[v] /\ first'[v] <= last'[v] /\ last'[v] < next'
               /\ Busy(v)' => first'[v] <= from'[v]
    <3>1. CASE v = w
      BY <1>1, <1>2, <3>1 DEF Idle, Busy
    <3>2. CASE v # w
      BY <1>1, <1>2, <3>2 DEF CountInv, Batches, Idle, Busy
    <3> QED
      BY <3>1, <3>2
  <2>2. ASSUME NEW v \in Worker \ {w}, ~Idle(v)' PROVE last'[v] < first'[w]
    BY <1>1, <1>2, <2>2 DEF CountInv, Batches, Idle
  <2>3. ASSUME NEW u \in Worker, NEW v \in Worker, u # v, ~Idle(u)', ~Idle(v)'
        PROVE  last'[u] < first'[v] \/ last'[v] < first'[u]
    <3>1. CASE u # w /\ v # w
      BY <1>1, <2>3, <3>1 DEF CountInv, Batches, Idle
    <3> QED
      BY <2>2, <2>3, <3>1
  <2> QED
    BY <2>1, <2>3 DEF Batches
<1>5. Counted' = Counted
  <2>1. ASSUME NEW i \in Counted' PROVE i \in Counted
    <3>1. i \in 1..BatchEnd /\ \A v \in Worker : ~Held(v, i)'
      BY <1>1, <1>2, <2>1 DEF Counted
    <3>2. i < next
      BY <1>1, <1>2, <3>1 DEF Held
    <3>3. \A v \in Worker : ~Held(v, i)
      BY <1>1, <1>2, <1>3, <3>1 DEF Held
    <3> QED
      BY <1>2, <3>1, <3>2, <3>3 DEF Counted
  <2>2. ASSUME NEW i \in Counted PROVE i \in Counted'
    <3>1. i \in 1..(next - 1) /\ \A v \in Worker : ~Held(v, i)
      BY <2>2 DEF Counted
    <3>2. \A v \in Worker : ~Held(v, i)'
      BY <1>1, <1>2, <3>1 DEF Held
    <3> QED
      BY <1>1, <1>2, <3>1, <3>2 DEF Counted
  <2> QED
    BY <2>1, <2>2
<1> QED
  BY <1>1, <1>4, <1>5 DEF CountInv

\* What is counted then is one batch, which was not counted before.
LEMMA CountFinish ==
  ASSUME TypeOK, CountInv, NEW w \in Worker, Finish(w)
  PROVE  CountInv'
<1> DEFINE B == first[w]..last[w]
<1>1. /\ pc[w] = "settled" /\ pc'[w] = "free" /\ next' = next
      /\ first'[w] = 1 /\ last'[w] = 0
      /\ done' = done + (last[w] - first[w] + 1)
      /\ \A v \in Worker \ {w} : /\ first'[v] = first[v] /\ last'[v] = last[v]
                                 /\ pc'[v] = pc[v] /\ from'[v] = from[v]
  BY DEF Finish, Goto, TypeOK
<1>2. /\ next \in Nat
      /\ \A v \in Worker : first[v] \in Nat /\ last[v] \in Nat
  BY DEF TypeOK
<1>3. 1 <= first[w] /\ first[w] <= last[w] /\ last[w] < next
  BY <1>1 DEF CountInv, Batches, Idle
<1>4. Batches'
  <2>1. ASSUME NEW v \in Worker
        PROVE  /\ IF Idle(v)' THEN first'[v] = 1 /\ last'[v] = 0
                  ELSE 1 <= first'[v] /\ first'[v] <= last'[v] /\ last'[v] < next'
               /\ Busy(v)' => first'[v] <= from'[v]
    <3>1. CASE v = w
      BY <1>1, <3>1 DEF Idle, Busy
    <3>2. CASE v # w
      BY <1>1, <3>2 DEF CountInv, Batches, Idle, Busy
    <3> QED
      BY <3>1, <3>2
  <2>2. ASSUME NEW u \in Worker, NEW v \in Worker, u # v, ~Idle(u)', ~Idle(v)'
        PROVE  last'[u] < first'[v] \/ last'[v] < first'[u]
    <3>1. u # w /\ v # w
      BY <1>1, <2>2 DEF Idle
    <3> QED
      BY <1>1, <2>2, <3>1 DEF CountInv, Batches, Idle
  <2> QED
    BY <2>1, <2>2 DEF Batches
<1>5. \A v \in Worker \ {w} : \A i \in B : ~Held(v, i)
  <2> SUFFICES ASSUME NEW v \in Worker \ {w}, NEW i \in B PROVE ~Held(v, i)
    OBVIOUS
  <2>1. i \in Int /\ first[w] <= i /\ i <= last[w]
    BY <1>2
  <2>2. CASE Idle(v)
    BY <1>2, <1>3, <2>1, <2>2 DEF CountInv, Batches, Held
  <2>3. CASE ~Idle(v)
    <3>1. last[v] < first[w] \/ last[w] < first[v]
      BY <1>1, <2>3 DEF CountInv, Batches, Idle
    <3> QED
      BY <1>2, <2>1, <3>1 DEF Held
  <2> QED
    BY <2>2, <2>3
<1>6. /\ Counted' = Counted \cup B /\ Counted \cap B = {}
      /\ Counted \subseteq 1..(next - 1)
  <2>1. ASSUME NEW i \in Counted' PROVE i \in Counted \cup B
    <3>1. i \in 1..(next - 1) /\ \A v \in Worker : ~Held(v, i)'
      BY <1>1, <2>1 DEF Counted
    <3>2. \A v \in Worker \ {w} : ~Held(v, i)
      BY <1>1, <3>1 DEF Held
    <3>3. ~Held(w, i) \/ i \in B
      BY <1>2, <3>1 DEF Held
    <3> QED
      BY <3>1, <3>2, <3>3 DEF Counted
  <2>2. ASSUME NEW i \in Counted \cup B PROVE i \in Counted'
    <3>1. i \in 1..(next - 1)
      BY <1>2, <1>3, <2>2 DEF Counted
    <3>2. \A v \in Worker \ {w} : ~Held(v, i)
      BY <1>5, <2>2 DEF Counted
    <3>3. \A v \in Worker : ~Held(v, i)'
      BY <1>1, <3>1, <3>2 DEF Held
    <3> QED
      BY <1>1, <3>1, <3>3 DEF Counted
  <2>3. ASSUME NEW i \in Counted PROVE i \notin B
    BY <1>2, <2>3 DEF Counted, Held
  <2> QED
    BY <2>1, <2>2, <2>3 DEF Counted
<1>7. IsFiniteSet(1..(next - 1)) /\ IsFiniteSet(B) /\ Cardinality(B) = last[w] - first[w] + 1
  <2>1. /\ first[w] \in Int /\ last[w] \in Int /\ next - 1 \in Int
        /\ ~(first[w] > last[w])
    BY <1>2, <1>3
  <2>2. IsFiniteSet(1..(next - 1))
    BY <2>1, FS_Interval
  <2>3. IsFiniteSet(B)
    BY <2>1, FS_Interval
  <2>4. Cardinality(B) = last[w] - first[w] + 1
    BY <2>1, FS_Interval
  <2> QED
    BY <2>2, <2>3, <2>4
<1> HIDE DEF B
<1>8. IsFiniteSet(Counted) /\ Cardinality(Counted) \in Nat
  BY <1>6, <1>7, FS_Subset, FS_CardinalityType
<1>9. Cardinality(Counted \cup B) = Cardinality(Counted) + Cardinality(B)
  <2>1. Cardinality(Counted \cap B) = 0
    BY <1>6, FS_EmptySet
  <2>2. Cardinality(B) \in Nat
    BY <1>7, FS_CardinalityType
  <2>3. Cardinality(Counted \cup B)
          = Cardinality(Counted) + Cardinality(B) - Cardinality(Counted \cap B)
    BY <1>7, <1>8, FS_Union
  <2> QED
    BY <1>8, <2>1, <2>2, <2>3
<1>10. done' = Cardinality(Counted')
  BY <1>1, <1>6, <1>7, <1>9 DEF CountInv
<1> QED
  BY <1>4, <1>10 DEF CountInv

LEMMA CountNext == TypeOK /\ WorkInv /\ CountInv /\ [Next]_vars => CountInv'
<1> SUFFICES ASSUME TypeOK, WorkInv, CountInv, [Next]_vars PROVE CountInv'
  OBVIOUS
<1> USE DEF poolVars, tryVars
<1>1. \A v \in Worker : from[v] \in Nat /\ to[v] \in Nat
  BY DEF TypeOK
<1>2. from' \in [Worker -> Nat]
  BY TypeNext DEF TypeOK
<1>3. ASSUME UNCHANGED <<pc, next, first, last, from, done>> PROVE CountInv'
  BY <1>1, <1>2, <1>3, CountStays DEF Idle, Busy
<1>4. ASSUME NEW w \in Worker, Busy(w), pc'[w] \in {"look", "gated", "sent", "settled"},
             \A v \in Worker \ {w} : pc'[v] = pc[v],
             UNCHANGED <<next, first, last, done>>,
             \A v \in Worker : from[v] <= from'[v]
      PROVE  CountInv'
  <2>1. \A v \in Worker : /\ Idle(v)' <=> Idle(v)
                          /\ Busy(v)' => Busy(v)
    BY <1>4 DEF Idle, Busy
  <2> QED
    BY <1>2, <1>4, <2>1, CountStays
<1>5. ASSUME NEW w \in Worker, Leave(w) PROVE CountInv'
  <2>1. \A v \in Worker : (Idle(v)' <=> Idle(v)) /\ (Busy(v)' => Busy(v))
    BY <1>5 DEF Leave, Goto, TypeOK, Idle, Busy
  <2> QED
    BY <1>1, <1>2, <1>5, <2>1, CountStays DEF Leave
<1>6. ASSUME NEW w \in Worker, Look(w) \/ Send(w) \/ Retry(w) \/ Halve(w)
      PROVE  CountInv'
  <2>1. /\ Busy(w) /\ pc'[w] \in {"look", "gated", "sent"}
        /\ \A v \in Worker \ {w} : pc'[v] = pc[v]
        /\ UNCHANGED <<next, first, last, from, done>>
    BY <1>6 DEF Look, Send, Retry, Halve, Goto, TypeOK, Busy
  <2> QED
    BY <1>1, <1>4, <2>1
<1>7. ASSUME NEW w \in Worker, pc[w] = "sent", Proceed(w), UNCHANGED <<poolVars, done>>
      PROVE  CountInv'
  <2>1. Busy(w) /\ from[w] <= to[w]
    BY <1>7 DEF Busy, WorkInv, Claims, InOrder
  <2>2. /\ pc'[w] \in {"look", "settled"}
        /\ \A v \in Worker \ {w} : pc'[v] = pc[v]
    BY <1>7 DEF Proceed, Goto, TypeOK
  <2>3. from' = from \/ from' = [from EXCEPT ![w] = to[w] + 1]
    BY <1>7 DEF Proceed
  <2>4. \A v \in Worker : from[v] <= from'[v]
    BY <1>1, <2>1, <2>3 DEF TypeOK
  <2> QED
    BY <1>4, <1>7, <2>1, <2>2, <2>4
<1>8. ASSUME NEW w \in Worker, Answer(w) \/ FailFatally(w) \/ FailForGood(w)
      PROVE  CountInv'
  BY <1>7, <1>8 DEF Answer, FailFatally, FailForGood, GiveUp
<1>9. CASE Expire \/ Tick \/ UNCHANGED vars
  BY <1>3, <1>9 DEF Expire, Tick, vars
<1> QED
  BY <1>5, <1>6, <1>8, <1>9, CountClaims, CountFinish DEF Next, WorkerStep, Ended

\* The count reported is never ahead of the items, and has caught up when no
\* batch is under way (LlmBatchRunner.run, its onProgress).
THEOREM ProgressIsCounted == Spec => []ProgressIsTrue
<1>1. TypeOK /\ WorkInv /\ CountInv => ProgressIsTrue
  <2> SUFFICES ASSUME TypeOK, WorkInv, CountInv PROVE ProgressIsTrue
    OBVIOUS
  <2>1. /\ next \in Nat /\ next <= Size + 1 /\ Size \in Nat
        /\ \A v \in Worker : first[v] \in Nat /\ last[v] \in Nat /\ from[v] \in Nat
    BY LlmBatchAssumptions DEF TypeOK, WorkInv, Cursor
  <2>2. Settled = {i \in Item : ~Open(i)}
    BY DEF Settled, WorkInv, Accounted, TypeOK
  <2>3. ASSUME NEW i \in Counted PROVE i \in Settled
    <3>1. i \in Item /\ i < next /\ \A v \in Worker : ~Held(v, i)
      BY <2>1, <2>3 DEF Counted, Item
    <3>2. i \in Int
      BY <3>1 DEF Item
    <3>3. \A v \in Worker : Busy(v) => ~(from[v] <= i /\ i <= last[v])
      BY <2>1, <3>1, <3>2 DEF CountInv, Batches, Held
    <3>4. ~Open(i)
      BY <2>1, <3>1, <3>2, <3>3 DEF Open
    <3> QED
      BY <2>2, <3>1, <3>4
  <2>4. IsFiniteSet(Settled)
    <3>1. IsFiniteSet(Item) /\ Settled \subseteq Item
      BY <2>1, FS_Interval DEF Item, Settled
    <3> QED
      BY <3>1, FS_Subset
  <2>5. done <= Cardinality(Settled)
    BY <2>3, <2>4, FS_Subset DEF CountInv
  <2>6. ASSUME \A w \in Worker : pc[w] \in {"free", "gone"}
        PROVE  Settled \subseteq Counted
    <3> SUFFICES ASSUME NEW i \in Settled PROVE i \in Counted
      OBVIOUS
    <3>1. i \in Item /\ ~(i >= next) /\ i \in Int /\ 1 <= i
      BY <2>1, <2>2 DEF Open, Item
    <3>2. \A v \in Worker : ~Held(v, i)
      BY <2>6, <3>1 DEF CountInv, Batches, Idle, Held
    <3> QED
      BY <2>1, <3>1, <3>2 DEF Counted
  <2>7. (\A w \in Worker : pc[w] \in {"free", "gone"}) => Settled = Counted
    BY <2>3, <2>6
  <2> QED
    BY <2>5, <2>7 DEF ProgressIsTrue, CountInv
<1> QED
  BY <1>1, InitHolds, CountInit, TypeNext, WorkNext, CountNext, PTL DEF Spec

-----------------------------------------------------------------------------
(* The steps still to come *)

GateInv == now <= gate

LEMMA GateInit == Init => GateInv
BY DEF Init, GateInv

LEMMA GateNext == TypeOK /\ GateInv /\ [Next]_vars => GateInv'
<1> SUFFICES ASSUME TypeOK, GateInv, [Next]_vars PROVE GateInv'
  OBVIOUS
<1>1. gate \in Nat /\ now \in Nat
  BY DEF TypeOK
<1>2. \/ UNCHANGED <<gate, now>>
      \/ gate' \in {gate, gate + 1} /\ now' = now
      \/ now < gate /\ now' = now + 1 /\ gate' = gate
  BY DEF Next, WorkerStep, Claim, SkipBatch, Finish, Leave, Look, Send, Answer,
         FailFatally, Retry, FailForGood, Halve, Expire, Tick, Ended, vars,
         gateVars
<1> QED
  BY <1>1, <1>2 DEF GateInv

\* The turns of all workers add up.
LEMMA TurnsOfOne ==
  ASSUME NEW f \in [Worker -> 0..Most], NEW g \in [Worker -> 0..Most],
         NEW w \in Worker, \A v \in Worker \ {w} : g[v] = f[v]
  PROVE  /\ Cardinality(TurnsOf(f)) \in Nat /\ Cardinality(TurnsOf(g)) \in Nat
         /\ Cardinality(TurnsOf(g)) = Cardinality(TurnsOf(f)) - f[w] + g[w]
<1> DEFINE Rest == {t \in Worker \X (1..Most) : t[1] # w /\ t[2] <= f[t[1]]}
           Own(n) == {w} \X (1..n)
<1>1. Most \in Nat /\ f[w] \in 0..Most /\ g[w] \in 0..Most
  BY LlmBatchAssumptions DEF Most
<1>2. IsFiniteSet(Rest)
  <2>1. IsFiniteSet(1..Most)
    BY <1>1, FS_Interval
  <2>2. IsFiniteSet(Worker \X (1..Most))
    BY <2>1, FS_Product, LlmBatchAssumptions
  <2> QED
    BY <2>2, FS_Subset
<1>3. ASSUME NEW n \in 0..Most
      PROVE  IsFiniteSet(Own(n)) /\ Cardinality(Own(n)) = n
  <2>1. n \in Int /\ 1 \in Int
    BY <1>1
  <2>2. IsFiniteSet(1..n)
    BY <2>1, FS_Interval
  <2>3. Cardinality(1..n) = IF 1 > n THEN 0 ELSE n - 1 + 1
    BY <2>1, FS_Interval
  <2>4. Cardinality(1..n) = n
    BY <1>1, <2>3
  <2>5. IsFiniteSet({w}) /\ Cardinality({w}) = 1
    BY FS_Singleton
  <2>6. IsFiniteSet(Own(n))
    BY <2>2, <2>5, FS_Product
  <2>7. Cardinality(Own(n)) = Cardinality({w}) * Cardinality(1..n)
    BY <2>2, <2>5, FS_Product
  <2> QED
    BY <1>1, <2>4, <2>5, <2>6, <2>7
<1>4. ASSUME NEW h \in [Worker -> 0..Most], \A v \in Worker \ {w} : h[v] = f[v]
      PROVE  /\ Cardinality(TurnsOf(h)) = Cardinality(Rest) + h[w]
             /\ Cardinality(Rest) \in Nat /\ h[w] \in Nat
  <2>1. h[w] \in 0..Most
    OBVIOUS
  <2>2. ASSUME NEW t PROVE t \in TurnsOf(h) <=> t \in Rest \cup Own(h[w])
    <3>1. t \in Own(h[w]) <=> t \in Worker \X (1..Most) /\ t[1] = w /\ t[2] <= h[w]
      BY <1>1, <2>1
    <3>2. t \in TurnsOf(h) <=> /\ t \in Worker \X (1..Most)
                               /\ t[2] <= h[t[1]]
      BY DEF TurnsOf
    <3>3. t \in Rest <=> /\ t \in Worker \X (1..Most) /\ t[1] # w
                         /\ t[2] <= h[t[1]]
      BY <1>4
    <3> QED
      BY <3>1, <3>2, <3>3
  <2>3. TurnsOf(h) = Rest \cup Own(h[w])
    BY <2>2
  <2>4. Rest \cap Own(h[w]) = {}
    OBVIOUS
  <2>5. IsFiniteSet(Own(h[w])) /\ Cardinality(Own(h[w])) = h[w]
    BY <1>3, <2>1
  <2> HIDE DEF Rest, Own
  <2>6. Cardinality(Rest \cup Own(h[w]))
          = Cardinality(Rest) + Cardinality(Own(h[w])) - Cardinality(Rest \cap Own(h[w]))
    BY <1>2, <2>5, FS_Union
  <2>7. Cardinality(Rest \cap Own(h[w])) = 0
    BY <2>4, FS_EmptySet
  <2>8. Cardinality(Rest) \in Nat
    BY <1>2, FS_CardinalityType
  <2> QED
    BY <1>1, <2>1, <2>3, <2>5, <2>6, <2>7, <2>8
<1> HIDE DEF Rest, Own
<1>5. /\ Cardinality(TurnsOf(f)) = Cardinality(Rest) + f[w]
      /\ Cardinality(Rest) \in Nat /\ f[w] \in Nat
  BY <1>4
<1>6. Cardinality(TurnsOf(g)) = Cardinality(Rest) + g[w] /\ g[w] \in Nat
  BY <1>4
<1> QED
  BY <1>5, <1>6

LEMMA TurnsLeftType ==
  ASSUME TypeOK, NEW w \in Worker
  PROVE  /\ TurnsLeft(w) \in 0..Most
         /\ pc[w] = "sent" => TurnsLeft(w) >= 3
<1>1. pc[w] \in Step /\ round[w] \in 0..Rounds /\ Rounds \in Nat
  BY LlmBatchAssumptions DEF TypeOK
<1> QED
  BY <1>1 DEF TurnsLeft, Most, Step

\* What is pending is what is open.
LEMMA PendingIsOpen ==
  ASSUME TypeOK, WorkInv
  PROVE  Pending = {i \in Item : Open(i)}
BY DEF Pending, Settled, WorkInv, Accounted, TypeOK

LEMMA PendingFinite ==
  ASSUME TypeOK
  PROVE  /\ IsFiniteSet(Pending) /\ IsFiniteSet(Uncut)
         /\ Cardinality(Pending) \in Nat /\ Cardinality(Uncut) \in Nat
<1>1. IsFiniteSet(Item)
  BY FS_Interval, LlmBatchAssumptions DEF Item
<1>2. IsFiniteSet(Pending) /\ IsFiniteSet(Uncut)
  BY <1>1, FS_Subset DEF Pending, Uncut
<1> QED
  BY <1>2, FS_CardinalityType

LEMMA FewerItems ==
  ASSUME NEW S, NEW T, IsFiniteSet(S), T \subseteq S
  PROVE  /\ Cardinality(T) \in Nat /\ Cardinality(S) \in Nat
         /\ Cardinality(T) <= Cardinality(S)
         /\ T # S => Cardinality(T) < Cardinality(S)
<1>1. IsFiniteSet(T) /\ Cardinality(T) <= Cardinality(S)
  BY FS_Subset
<1>2. Cardinality(S) = Cardinality(T) => S = T
  BY FS_Subset
<1>3. Cardinality(T) \in Nat /\ Cardinality(S) \in Nat
  BY <1>1, FS_CardinalityType
<1> QED
  BY <1>1, <1>2, <1>3

TurnsNow == TurnsOf([v \in Worker |-> TurnsLeft(v)])

LEMMA TurnsCounted == Cardinality(TurnsNow) \in Nat
<1>1. IsFiniteSet(1..Most)
  BY FS_Interval, LlmBatchAssumptions DEF Most
<1>2. IsFiniteSet(Worker \X (1..Most))
  BY <1>1, FS_Product, LlmBatchAssumptions
<1>3. IsFiniteSet(TurnsNow)
  BY <1>2, FS_Subset DEF TurnsNow, TurnsOf
<1> QED
  BY <1>3, FS_CardinalityType

LEMMA EffortType == TypeOK /\ GateInv => Effort \in Nat
<1> SUFFICES ASSUME TypeOK, GateInv PROVE Effort \in Nat
  OBVIOUS
<1> DEFINE p == Cardinality(Pending)
           u == Cardinality(Uncut)
           k == Cardinality(TurnsNow)
<1>1. p \in Nat /\ u \in Nat
  BY PendingFinite
<1>2. k \in Nat
  BY TurnsCounted
<1>3. Most \in Nat
  BY LlmBatchAssumptions DEF Most
<1>4. gate - now \in Nat
  BY DEF TypeOK, GateInv
<1>5. Effort = Most * (p + u) + k + (gate - now) + (IF expired THEN 0 ELSE 1)
  BY DEF Effort, TurnsNow
<1> HIDE DEF p, u, k
<1>6. Most * (p + u) \in Nat
  BY <1>1, <1>3
<1> QED
  BY <1>2, <1>4, <1>5, <1>6

LEMMA TurnsMove ==
  ASSUME TypeOK, TypeOK', NEW w \in Worker,
         \A v \in Worker \ {w} : pc'[v] = pc[v] /\ round'[v] = round[v]
  PROVE  /\ TurnsLeft(w) \in 0..Most /\ TurnsLeft(w)' \in 0..Most
         /\ Cardinality(TurnsNow) \in Nat /\ Cardinality(TurnsNow') \in Nat
         /\ Cardinality(TurnsNow')
              = Cardinality(TurnsNow) - TurnsLeft(w) + TurnsLeft(w)'
<1> DEFINE f == [v \in Worker |-> TurnsLeft(v)]
           g == [v \in Worker |-> TurnsLeft(v)']
<1>1. ASSUME NEW v \in Worker PROVE TurnsLeft(v)' \in 0..Most
  <2>1. pc'[v] \in Step /\ round'[v] \in 0..Rounds /\ Rounds \in Nat
    BY LlmBatchAssumptions DEF TypeOK
  <2> QED
    BY <2>1 DEF TurnsLeft, Most, Step
<1>2. f \in [Worker -> 0..Most] /\ g \in [Worker -> 0..Most]
  BY <1>1, TurnsLeftType
<1>3. \A v \in Worker \ {w} : TurnsLeft(v)' = TurnsLeft(v)
  BY DEF TurnsLeft
<1>4. \A v \in Worker \ {w} : g[v] = f[v]
  BY <1>3
<1>5. f[w] = TurnsLeft(w) /\ g[w] = TurnsLeft(w)'
  OBVIOUS
<1>6. TurnsNow = TurnsOf(f) /\ TurnsNow' = TurnsOf(g)
  BY DEF TurnsNow, TurnsOf
<1> HIDE DEF f, g
<1> QED
  BY <1>2, <1>4, <1>5, <1>6, TurnsOfOne

\* A step of one worker that settles or cuts something pays for all its turns.
LEMMA CostlyStep ==
  ASSUME TypeOK, TypeOK', NEW w \in Worker,
         \A v \in Worker \ {w} : pc'[v] = pc[v] /\ round'[v] = round[v],
         Pending' \subseteq Pending, Uncut' \subseteq Uncut,
         Pending' # Pending \/ Uncut' # Uncut,
         TurnsLeft(w) >= 1,
         UNCHANGED <<gate, now>>, expired' = expired
  PROVE  Effort' < Effort
<1> DEFINE p == Cardinality(Pending)
           u == Cardinality(Uncut)
           q == Cardinality(Pending')
           x == Cardinality(Uncut')
           k == Cardinality(TurnsNow)
           m == Cardinality(TurnsNow')
<1>1. /\ p \in Nat /\ u \in Nat /\ q \in Nat /\ x \in Nat
      /\ q + x + 1 <= p + u
  BY PendingFinite, FewerItems
<1>2. /\ m \in Nat /\ k \in Nat /\ m = k - TurnsLeft(w) + TurnsLeft(w)'
      /\ TurnsLeft(w) \in 0..Most /\ TurnsLeft(w)' \in 0..Most
  BY TurnsMove
<1>3. Most \in Nat
  BY LlmBatchAssumptions DEF Most
<1>4. /\ Effort = Most * (p + u) + k + (gate - now) + (IF expired THEN 0 ELSE 1)
      /\ Effort' = Most * (q + x) + m + (gate - now) + (IF expired THEN 0 ELSE 1)
  BY DEF Effort, TurnsNow
<1>5. gate - now \in Int
  BY DEF TypeOK
<1> HIDE DEF p, u, q, x, k, m
<1>6. Most * (q + x) + Most <= Most * (p + u)
  <2>1. PICK d \in Nat : p + u = q + x + 1 + d
    <3>1. (p + u) - (q + x + 1) \in Nat
      BY <1>1
    <3> QED
      BY <1>1, <3>1
  <2>2. Most * (p + u) = Most * (q + x) + Most + Most * d
    BY <1>1, <1>3, <2>1
  <2>3. Most * d \in Nat /\ Most * (q + x) \in Nat
    BY <1>1, <1>3, <2>1
  <2> QED
    BY <1>3, <2>2, <2>3
<1>7. Most * (q + x) \in Nat /\ Most * (p + u) \in Nat
  BY <1>1, <1>3
<1> QED
  BY <1>2, <1>3, <1>4, <1>5, <1>6, <1>7

\* Any other step of a worker uses up more of its turns than it moves the gate.
LEMMA CheapStep ==
  ASSUME TypeOK, TypeOK', NEW w \in Worker,
         \A v \in Worker \ {w} : pc'[v] = pc[v] /\ round'[v] = round[v],
         Pending' = Pending, Uncut' = Uncut,
         (gate' - gate) + TurnsLeft(w)' < TurnsLeft(w),
         UNCHANGED <<now, expired>>
  PROVE  Effort' < Effort
<1> DEFINE p == Cardinality(Pending)
           u == Cardinality(Uncut)
           k == Cardinality(TurnsNow)
           m == Cardinality(TurnsNow')
           e == Most * (p + u)
<1>1. /\ m \in Nat /\ k \in Nat /\ m = k - TurnsLeft(w) + TurnsLeft(w)'
      /\ TurnsLeft(w) \in 0..Most /\ TurnsLeft(w)' \in 0..Most
  BY TurnsMove
<1>2. e \in Nat
  BY PendingFinite, LlmBatchAssumptions DEF Most
<1>3. /\ Effort = e + k + (gate - now) + (IF expired THEN 0 ELSE 1)
      /\ Effort' = e + m + (gate' - now) + (IF expired THEN 0 ELSE 1)
  BY DEF Effort, TurnsNow
<1>4. gate \in Int /\ now \in Int /\ gate' \in Int /\ Most \in Int
  BY LlmBatchAssumptions DEF TypeOK, Most
<1> HIDE DEF p, u, k, m, e
<1> QED
  BY <1>1, <1>2, <1>3, <1>4

LEMMA ClaimCosts ==
  ASSUME TypeOK, TypeOK', WorkInv, NEW w \in Worker, Claim(w)
  PROVE  Effort' < Effort
<1>1. /\ pc[w] = "free" /\ pc' = [pc EXCEPT ![w] = "look"]
      /\ to' = [to EXCEPT ![w] = BatchEnd]
      /\ UNCHANGED <<cuts, round, answers, reports, gate, now, expired>>
  BY DEF Claim, Goto, itemVars, gateVars, stopVars
<1>2. /\ next \in Nat /\ next >= 1 /\ BatchEnd \in Nat /\ Size \in Nat
      /\ next <= BatchEnd /\ BatchEnd <= Size
  BY BatchEndBounds, LlmBatchAssumptions DEF Claim, TypeOK
<1> HIDE DEF BatchEnd
<1>3. /\ ~Busy(w) /\ Busy(w)'
      /\ \A v \in Worker \ {w} : /\ Busy(v)' <=> Busy(v)
                                 /\ to'[v] = to[v] /\ pc'[v] = pc[v]
      /\ to'[w] = BatchEnd
  BY <1>1 DEF Busy, TypeOK
<1>4. Pending' = Pending
  BY <1>1 DEF Pending, Settled
<1>5. Uncut' = Uncut \ {BatchEnd}
  <2>1. cuts'[w] = {}
    BY <1>1, <1>3 DEF WorkInv, Claims
  <2> QED
    BY <1>1, <1>3, <1>4, <2>1 DEF Uncut
<1>6. BatchEnd \in Uncut
  <2>1. BatchEnd \in Pending
    BY <1>2, PendingIsOpen DEF Open, Item
  <2>2. ASSUME NEW v \in Worker, Busy(v)
        PROVE  BatchEnd # to[v] /\ BatchEnd \notin cuts[v]
    <3>1. /\ to[v] \in Nat /\ last[v] \in Nat /\ to[v] <= last[v]
          /\ last[v] < next
          /\ \A e \in cuts[v] : e <= last[v]
      BY <2>2 DEF WorkInv, Claims, InOrder, TypeOK
    <3> QED
      BY <1>2, <3>1
  <2> QED
    BY <2>1, <2>2 DEF Uncut
<1>7. TurnsLeft(w) >= 1
  BY <1>1 DEF TurnsLeft
<1> QED
  BY <1>1, <1>3, <1>4, <1>5, <1>6, <1>7, CostlyStep

LEMMA SkipCosts ==
  ASSUME TypeOK, TypeOK', WorkInv, NEW w \in Worker, SkipBatch(w)
  PROVE  Effort' < Effort
<1>1. /\ pc[w] = "free" /\ pc' = [pc EXCEPT ![w] = "settled"]
      /\ reports' = Plus(reports, next..BatchEnd) /\ next <= Size
      /\ UNCHANGED <<to, cuts, round, answers, gate, now, expired>>
  BY DEF SkipBatch, Goto, tryVars, gateVars, stopVars
<1>2. /\ next \in Nat /\ next >= 1 /\ BatchEnd \in Nat /\ Size \in Nat
      /\ next <= BatchEnd /\ BatchEnd <= Size
  BY <1>1, BatchEndBounds, LlmBatchAssumptions DEF TypeOK
<1> HIDE DEF BatchEnd
<1>3. \A v \in Worker : /\ Busy(v)' <=> Busy(v)
                        /\ v # w => pc'[v] = pc[v]
  BY <1>1 DEF Busy, TypeOK
<1>4. \A i \in Item : /\ answers[i] \in Nat /\ reports[i] \in Nat
                      /\ reports'[i] = IF i \in next..BatchEnd
                                       THEN reports[i] + 1 ELSE reports[i]
  BY <1>1 DEF Plus, TypeOK
<1>5. Pending' \subseteq Pending
  BY <1>1, <1>4 DEF Pending, Settled
<1>6. next \in Pending \ Pending'
  <2>1. next \in Item /\ next \in next..BatchEnd
    BY <1>1, <1>2 DEF Item
  <2>2. next \in Pending
    BY <1>2, <2>1, PendingIsOpen DEF Open
  <2>3. next \notin Pending'
    BY <1>1, <1>4, <2>1 DEF Pending, Settled
  <2> QED
    BY <2>2, <2>3
<1>7. Uncut' \subseteq Uncut
  BY <1>1, <1>3, <1>5 DEF Uncut
<1>8. TurnsLeft(w) >= 1
  BY <1>1 DEF TurnsLeft
<1> QED
  BY <1>1, <1>3, <1>5, <1>6, <1>7, <1>8, CostlyStep

\* A call that settles what it was about.
LEMMA SettlingCosts ==
  ASSUME TypeOK, TypeOK', WorkInv, NEW w \in Worker, pc[w] = "sent", Proceed(w),
         UNCHANGED <<next, first, last, gate, now, expired>>,
         \A i \in Item :
           IF i \in from[w]..to[w]
           THEN answers'[i] + reports'[i] = answers[i] + reports[i] + 1
           ELSE answers'[i] + reports'[i] = answers[i] + reports[i]
  PROVE  Effort' < Effort
<1>1. /\ InOrder(w) /\ from[w] \in Nat /\ to[w] \in Nat /\ last[w] \in Nat
      /\ Busy(w) /\ from[w]..to[w] \subseteq Item
      /\ \A i \in from[w]..to[w] : Open(i)
  BY SentIsOpen DEF Busy
<1>2. \A v \in Worker \ {w} : pc'[v] = pc[v] /\ round'[v] = round[v]
  BY DEF Proceed, Goto, tryVars, TypeOK
<1>3. \A i \in Item : answers[i] + reports[i] \in Nat
  BY DEF TypeOK
<1>4. Pending' \subseteq Pending
  BY <1>3 DEF Pending, Settled
<1>5. \A i \in from[w]..to[w] : i \in Pending /\ i \notin Pending'
  <2>1. \A i \in from[w]..to[w] : i \in Pending
    BY <1>1, PendingIsOpen
  <2>2. \A i \in from[w]..to[w] : i \notin Pending'
    BY <1>1, <1>3 DEF Pending, Settled
  <2> QED
    BY <2>1, <2>2
<1>6. from[w] \in from[w]..to[w] /\ to[w] \in from[w]..to[w]
  BY <1>1 DEF InOrder
<1>7. Uncut' \subseteq Uncut
  <2> SUFFICES ASSUME NEW i \in Uncut' PROVE i \in Uncut
    OBVIOUS
  <2>1. i \in Pending' /\ i \in Pending /\ i # to[w]
    BY <1>4, <1>5, <1>6 DEF Uncut
  <2>2. \A v \in Worker \ {w} : Busy(v) => i # to[v] /\ i \notin cuts[v]
    BY ProceedOrder DEF Uncut
  <2>3. i \notin cuts[w]
    <3>1. CASE cuts[w] = {}
      BY <3>1
    <3>2. ASSUME NEW e \in cuts[w],
                 to' = [to EXCEPT ![w] = e],
                 cuts' = [cuts EXCEPT ![w] = @ \ {e}],
                 Goto(w, "look")
          PROVE  i \notin cuts[w]
      <4>1. Busy(w)' /\ to'[w] = e /\ cuts'[w] = cuts[w] \ {e}
        BY <3>2 DEF Goto, Busy, TypeOK
      <4> QED
        BY <4>1 DEF Uncut
    <3> QED
      BY <3>1, <3>2 DEF Proceed
  <2> QED
    BY <2>1, <2>2, <2>3 DEF Uncut
<1>8. TurnsLeft(w) >= 1
  BY TurnsLeftType, LlmBatchAssumptions DEF Most
<1> QED
  BY <1>2, <1>4, <1>5, <1>6, <1>7, <1>8, CostlyStep

\* Where a batch is cut, nothing was cut before.
LEMMA HalveCosts ==
  ASSUME TypeOK, TypeOK', WorkInv, NEW w \in Worker, Halve(w)
  PROVE  Effort' < Effort
<1> DEFINE mid == from[w] + ((to[w] - from[w]) \div 2)
<1>1. /\ pc[w] = "sent" /\ pc' = [pc EXCEPT ![w] = "look"] /\ from[w] < to[w]
      /\ to' = [to EXCEPT ![w] = mid]
      /\ cuts' = [cuts EXCEPT ![w] = @ \cup {to[w]}]
      /\ round' = [round EXCEPT ![w] = 0]
      /\ UNCHANGED <<answers, reports, gate, now, expired>>
  BY DEF Halve, Goto, itemVars, gateVars, stopVars
<1>2. /\ InOrder(w) /\ from[w] \in Nat /\ to[w] \in Nat /\ last[w] \in Nat
      /\ Busy(w) /\ from[w]..to[w] \subseteq Item
      /\ \A i \in from[w]..to[w] : Open(i)
  BY <1>1, SentIsOpen DEF Busy
<1>3. mid \in Nat /\ from[w] <= mid /\ mid < to[w]
  BY <1>1, <1>2
<1> HIDE DEF mid
<1>4. /\ \A v \in Worker : Busy(v)' <=> Busy(v)
      /\ \A v \in Worker \ {w} : /\ pc'[v] = pc[v] /\ round'[v] = round[v]
                                 /\ to'[v] = to[v] /\ cuts'[v] = cuts[v]
      /\ to'[w] = mid /\ cuts'[w] = cuts[w] \cup {to[w]}
  BY <1>1 DEF Busy, TypeOK
<1>5. Pending' = Pending
  BY <1>1 DEF Pending, Settled
<1>6. Uncut' = Uncut \ {mid}
  BY <1>2, <1>4, <1>5 DEF Uncut
<1>7. mid \in Uncut
  <2>1. mid \in Pending
    BY <1>2, <1>3, PendingIsOpen
  <2>2. mid # to[w] /\ mid \notin cuts[w]
    <3>1. \A e \in cuts[w] : to[w] < e /\ e \in Nat
      BY <1>2, LlmBatchAssumptions DEF InOrder, TypeOK, Item
    <3> QED
      BY <1>2, <1>3, <3>1
  <2>3. ASSUME NEW v \in Worker \ {w}, Busy(v)
        PROVE  mid # to[v] /\ mid \notin cuts[v]
    <3>1. /\ from[v] \in Nat /\ to[v] \in Nat /\ last[v] \in Nat
          /\ from[v] <= to[v] /\ to[v] <= last[v]
          /\ \A e \in cuts[v] : to[v] < e /\ e <= last[v] /\ e \in Nat
      BY <2>3, LlmBatchAssumptions DEF WorkInv, Claims, InOrder, TypeOK, Item
    <3>2. last[v] < from[w] \/ last[w] < from[v]
      BY <1>2, <2>3 DEF WorkInv, Apart
    <3>3. mid <= last[w]
      BY <1>2, <1>3 DEF InOrder
    <3> QED
      BY <1>2, <1>3, <3>1, <3>2, <3>3
  <2> QED
    BY <2>1, <2>2, <2>3 DEF Uncut
<1>8. TurnsLeft(w) >= 1
  BY <1>1, TurnsLeftType, LlmBatchAssumptions DEF Most
<1> QED
  BY <1>1, <1>4, <1>5, <1>6, <1>7, <1>8, CostlyStep

\* Looking, sending, resending, finishing and leaving.
LEMMA TurnCosts ==
  ASSUME TypeOK, TypeOK', NEW w \in Worker,
         Look(w) \/ Send(w) \/ Retry(w) \/ Finish(w) \/ Leave(w)
  PROVE  Effort' < Effort
<1>1. /\ \A v \in Worker : Busy(v)' <=> Busy(v)
      /\ \A v \in Worker \ {w} : pc'[v] = pc[v] /\ round'[v] = round[v]
      /\ UNCHANGED <<cuts, answers, reports, now, expired>>
      /\ \A v \in Worker : Busy(v) => to'[v] = to[v]
  BY DEF Look, Send, Retry, Finish, Leave, Goto, Busy, TypeOK, tryVars, itemVars,
         gateVars, stopVars
<1>2. Pending' = Pending
  BY <1>1 DEF Pending, Settled
<1>3. Uncut' = Uncut
  BY <1>1, <1>2 DEF Uncut
<1>4. /\ gate \in Nat /\ round[w] \in 0..Rounds /\ Rounds \in Nat
      /\ round'[w] \in 0..Rounds
  BY LlmBatchAssumptions DEF TypeOK
<1>5. (gate' - gate) + TurnsLeft(w)' < TurnsLeft(w)
  <2>1. CASE Retry(w)
    <3>1. /\ pc[w] = "sent" /\ pc'[w] = "look" /\ round'[w] = round[w] + 1
          /\ gate' = gate \/ gate' = gate + 1
      BY <2>1 DEF Retry, Goto, TypeOK
    <3> QED
      BY <1>4, <3>1 DEF TurnsLeft
  <2>2. CASE Look(w) \/ Send(w) \/ Finish(w) \/ Leave(w)
    <3>1. /\ gate' = gate
          /\ \/ pc[w] = "look" /\ pc'[w] = "gated" /\ round'[w] = round[w]
             \/ pc[w] = "gated" /\ pc'[w] = "sent" /\ round'[w] = round[w]
             \/ pc[w] = "settled" /\ pc'[w] = "free"
             \/ pc[w] = "free" /\ pc'[w] = "gone"
      BY <2>2 DEF Look, Send, Finish, Leave, Goto, TypeOK, tryVars, gateVars
    <3> QED
      BY <1>4, <3>1 DEF TurnsLeft
  <2> QED
    BY <2>1, <2>2
<1> QED
  BY <1>1, <1>2, <1>3, <1>5, CheapStep

LEMMA ClockCosts ==
  ASSUME TypeOK, TypeOK', GateInv, Expire \/ Tick
  PROVE  Effort' < Effort
<1>1. /\ UNCHANGED <<pc, to, cuts, round, answers, reports, gate>>
      /\ \/ now' = now /\ ~expired /\ expired'
         \/ now' = now + 1 /\ expired' = expired
  BY DEF Expire, Tick, tryVars, itemVars, gateVars, stopVars
<1>2. /\ Pending' = Pending /\ Uncut' = Uncut /\ TurnsNow' = TurnsNow
      BY <1>1 DEF Pending, Settled, Uncut, Busy, TurnsNow, TurnsOf, TurnsLeft
<1> DEFINE e == Most * (Cardinality(Pending) + Cardinality(Uncut))
                  + Cardinality(TurnsNow)
<1>3. /\ Effort = e + (gate - now) + (IF expired THEN 0 ELSE 1)
      /\ Effort' = e + (gate - now') + (IF expired' THEN 0 ELSE 1)
  BY <1>1, <1>2 DEF Effort, TurnsNow
<1>4. e + (gate - now) + (IF expired THEN 0 ELSE 1) \in Nat
  BY <1>3, EffortType
<1>5. gate \in Nat /\ now \in Nat
  BY DEF TypeOK
<1>6. e \in Int
  BY PendingFinite, TurnsCounted, LlmBatchAssumptions DEF Most
<1> HIDE DEF e
<1> QED
  BY <1>1, <1>3, <1>4, <1>5, <1>6

LEMMA EffortNext ==
  TypeOK /\ WorkInv /\ GateInv /\ [Next]_vars => [Effort' < Effort]_vars
<1> SUFFICES ASSUME TypeOK, WorkInv, GateInv, Next, vars' # vars
             PROVE  Effort' < Effort
  OBVIOUS
<1>1. TypeOK'
  BY TypeNext
<1>2. ASSUME NEW w \in Worker, Answer(w) PROVE Effort' < Effort
  <2>0. /\ answers \in [Item -> Nat] /\ reports \in [Item -> Nat]
        /\ answers' = Plus(answers, from[w]..to[w]) /\ reports' = reports
    BY <1>2 DEF Answer, TypeOK
  <2>1. \A i \in Item : /\ answers[i] \in Nat /\ reports[i] \in Nat
                        /\ reports'[i] = reports[i]
                        /\ answers'[i] = IF i \in from[w]..to[w]
                                         THEN answers[i] + 1 ELSE answers[i]
    BY <2>0 DEF Plus
  <2>2. \A i \in Item :
          IF i \in from[w]..to[w]
          THEN answers'[i] + reports'[i] = answers[i] + reports[i] + 1
          ELSE answers'[i] + reports'[i] = answers[i] + reports[i]
    BY <2>1
  <2> QED
    BY <1>1, <1>2, <2>2, SettlingCosts DEF Answer, poolVars, gateVars, stopVars
<1>3. ASSUME NEW w \in Worker, FailFatally(w) \/ FailForGood(w)
      PROVE  Effort' < Effort
  <2>0. /\ answers \in [Item -> Nat] /\ reports \in [Item -> Nat]
        /\ reports' = Plus(reports, from[w]..to[w]) /\ answers' = answers
    BY <1>3 DEF FailFatally, FailForGood, GiveUp, TypeOK
  <2>1. \A i \in Item : /\ answers[i] \in Nat /\ reports[i] \in Nat
                        /\ answers'[i] = answers[i]
                        /\ reports'[i] = IF i \in from[w]..to[w]
                                         THEN reports[i] + 1 ELSE reports[i]
    BY <2>0 DEF Plus
  <2>2. \A i \in Item :
          IF i \in from[w]..to[w]
          THEN answers'[i] + reports'[i] = answers[i] + reports[i] + 1
          ELSE answers'[i] + reports'[i] = answers[i] + reports[i]
    BY <2>1
  <2>3. /\ pc[w] = "sent" /\ Proceed(w)
        /\ UNCHANGED <<next, first, last, gate, now, expired>>
    BY <1>3 DEF FailFatally, FailForGood, GiveUp, poolVars, gateVars, stopVars
  <2> QED
    BY <1>1, <2>2, <2>3, SettlingCosts
<1>4. ASSUME NEW w \in Worker, WorkerStep(w) PROVE Effort' < Effort
  BY <1>1, <1>2, <1>3, <1>4, ClaimCosts, SkipCosts, HalveCosts, TurnCosts
  DEF WorkerStep
<1> QED
  BY <1>1, <1>4, ClockCosts DEF Next, Ended

\* Every step leaves fewer to come, whatever fails: a run that goes on ends,
\* after no more steps than there were to come at first (LlmBatchRunner.run).
THEOREM RunsOut == Spec => EveryStepCosts
BY InitHolds, TypeNext, WorkNext, GateInit, GateNext, EffortNext, PTL
DEF Spec, EveryStepCosts

LEMMA EffortAtFirst ==
  Init => Effort = Most * (Size + Size) + Cardinality(Worker) + 1
<1> SUFFICES ASSUME Init
             PROVE  Effort = Most * (Size + Size) + Cardinality(Worker) + 1
  OBVIOUS
<1>1. Pending = Item /\ Uncut = Item
  BY DEF Init, Pending, Settled, Uncut, Busy
<1>2. Cardinality(Item) = Size
  <2>1. 1 \in Int /\ Size \in Int
    BY LlmBatchAssumptions
  <2>2. Cardinality(1..Size) = IF 1 > Size THEN 0 ELSE Size - 1 + 1
    BY <2>1, FS_Interval
  <2> QED
    BY <2>2, LlmBatchAssumptions DEF Item
<1>3. TurnsNow = Worker \X {1}
  <2>1. \A w \in Worker : TurnsLeft(w) = 1
    BY DEF Init, TurnsLeft
  <2>2. 1 \in 1..Most /\ \A k \in 1..Most : k <= 1 <=> k = 1
    BY LlmBatchAssumptions DEF Most
  <2>3. TurnsNow = {t \in Worker \X (1..Most) : t[2] <= 1}
    BY <2>1 DEF TurnsNow, TurnsOf
  <2> QED
    BY <2>2, <2>3
<1>4. Cardinality(TurnsNow) = Cardinality(Worker) /\ Cardinality(Worker) \in Nat
  <2>1. IsFiniteSet({1}) /\ Cardinality({1}) = 1
    BY FS_Singleton
  <2>2. Cardinality(Worker \X {1}) = Cardinality(Worker) * Cardinality({1})
    BY <2>1, FS_Product, LlmBatchAssumptions
  <2>3. Cardinality(Worker) \in Nat
    BY FS_CardinalityType, LlmBatchAssumptions
  <2> QED
    BY <1>3, <2>1, <2>2, <2>3
<1>5. Effort = Most * (Size + Size) + Cardinality(TurnsNow) + (0 - 0) + 1
  BY <1>1, <1>2 DEF Init, Effort, TurnsNow
<1>6. Most * (Size + Size) \in Nat
  BY LlmBatchAssumptions DEF Most
<1> QED
  BY <1>4, <1>5, <1>6

\* The steps to come are counted by a number, at first one that the list, the
\* pool and the retries determine: with RunsOut, no run takes more.
THEOREM EffortIsBounded ==
  Spec => /\ Effort = Most * (Size + Size) + Cardinality(Worker) + 1
          /\ [](Effort \in Nat)
BY InitHolds, TypeNext, WorkNext, GateInit, GateNext, EffortType, EffortAtFirst,
   PTL DEF Spec

\* A worker with nobody else's help can take its next step, and the clock moves
\* on to the time of a worker that waits for it.
Ready(w) == pc[w] \notin {"gone", "gated"} \/ (pc[w] = "gated" /\ until[w] <= now)

\* Until all workers are gone, one of them is ready or is waiting for a gate
\* that the clock has yet to reach: none waits for another (LlmBatchRunner.run).
THEOREM NobodyIsStuck ==
  Spec => []((\A w \in Worker : pc[w] = "gone")
               \/ (\E w \in Worker : Ready(w)) \/ now < gate)
<1>1. TypeOK /\ AheadInv /\ GateInv
        => \/ \A w \in Worker : pc[w] = "gone"
           \/ \E w \in Worker : Ready(w)
           \/ now < gate
  BY DEF TypeOK, AheadInv, GateInv, Ready
<1> QED
  BY <1>1, InitHolds, TypeNext, WorkNext, AheadNext, GateInit, GateNext, PTL
  DEF Spec

=============================================================================
