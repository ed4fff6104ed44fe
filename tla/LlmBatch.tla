------------------------------- MODULE LlmBatch -------------------------------
(***************************************************************************)
(* LlmBatchRunner.run: workers of a pool claim batches in list order and   *)
(* send them to a model.  A batch the model answered badly is halved, in   *)
(* the same slot; one the provider refused is sent again whole, after a    *)
(* pause that is meant for every worker; a failure every batch would meet, *)
(* or the deadline, stops the claiming of more.                            *)
(*                                                                         *)
(* What a worker has claimed is an interval of the list.  An attempt is    *)
(* about its items from..to; the ends of the attempts still to come are in *)
(* cuts.  Time is told by the values the gate has had: gate is the latest, *)
(* now the latest that is over.                                            *)
(***************************************************************************)
EXTENDS Naturals, FiniteSets

CONSTANTS
  Size,       \* the list is 1..Size
  BatchSize,
  Worker,     \* one that finds no batch left is gone at once
  Rounds      \* TRANSPORT_RETRY_ROUNDS

ASSUME LlmBatchAssumptions ==
  /\ Size \in Nat
  /\ BatchSize \in Nat \ {0}
  /\ Rounds \in Nat
  /\ IsFiniteSet(Worker)

Item == 1..Size

VARIABLES
  next,     \* the pool's cursor: the first item no worker has claimed
  pc,       \* where each worker is, see Step
  first,    \* the batch each worker claimed last is first..last
  last,
  from,     \* its present attempt is about from..to
  to,
  cuts,     \* the ends of the attempts to come
  round,    \* how often the present attempt was sent again
  until,    \* what it saw of the gate
  aborted,
  expired,  \* the caller's deadline
  gate,     \* backoffUntil
  now,
  done,     \* what onProgress reports
  answers,  \* how often the handler resolved for each item
  reports,  \* how often onError was called for it
  ahead,    \* history: what each worker has sent ahead of the present gate
  late      \* history: the items unclaimed when the claiming was stopped

poolVars  == <<next, first, last>>
tryVars   == <<from, to, cuts, round>>
stopVars  == <<aborted, expired, late>>
gateVars  == <<until, gate, now, ahead>>
itemVars  == <<answers, reports>>

vars == <<poolVars, pc, tryVars, stopVars, gateVars, done, itemVars>>

Step == {"free", "look", "gated", "sent", "settled", "gone"}

Init ==
  /\ next = 1
  /\ pc = [w \in Worker |-> "free"]
  /\ first = [w \in Worker |-> 1] /\ last = [w \in Worker |-> 0]
  /\ from = [w \in Worker |-> 1] /\ to = [w \in Worker |-> 0]
  /\ cuts = [w \in Worker |-> {}]
  /\ round = [w \in Worker |-> 0]
  /\ until = [w \in Worker |-> 0]
  /\ aborted = FALSE /\ expired = FALSE
  /\ gate = 0 /\ now = 0
  /\ done = 0
  /\ answers = [i \in Item |-> 0] /\ reports = [i \in Item |-> 0]
  /\ ahead = [w \in Worker |-> 0]
  /\ late = {}

Goto(w, s) == pc' = [pc EXCEPT ![w] = s]

Plus(f, S) == [i \in Item |-> IF i \in S THEN f[i] + 1 ELSE f[i]]

Stopped == aborted \/ expired

-----------------------------------------------------------------------------
(* The pool *)

\* The batches of chunkify() are cut off the list one after the other.
BatchEnd == IF next + BatchSize - 1 <= Size THEN next + BatchSize - 1 ELSE Size

\* Mutant: claiming does not ask whether the run has stopped.
ClaimAlways(w) ==
  /\ pc[w] = "free"
  /\ next <= Size
  /\ next' = BatchEnd + 1
  /\ first' = [first EXCEPT ![w] = next]
  /\ last' = [last EXCEPT ![w] = BatchEnd]
  /\ from' = [from EXCEPT ![w] = next]
  /\ to' = [to EXCEPT ![w] = BatchEnd]
  /\ Goto(w, "look")
  /\ UNCHANGED <<cuts, round, stopVars, gateVars, done, itemVars>>

\* take() of a batch while the claiming goes on
Claim(w) ==
  /\ pc[w] = "free"
  /\ next <= Size
  /\ ~Stopped
  /\ next' = BatchEnd + 1
  /\ first' = [first EXCEPT ![w] = next]
  /\ last' = [last EXCEPT ![w] = BatchEnd]
  /\ from' = [from EXCEPT ![w] = next]
  /\ to' = [to EXCEPT ![w] = BatchEnd]
  /\ Goto(w, "look")
  /\ UNCHANGED <<cuts, round, stopVars, gateVars, done, itemVars>>

\* take() after that: the batch is reported as skipped.
SkipBatch(w) ==
  /\ pc[w] = "free"
  /\ next <= Size
  /\ Stopped
  /\ next' = BatchEnd + 1
  /\ first' = [first EXCEPT ![w] = next]
  /\ last' = [last EXCEPT ![w] = BatchEnd]
  /\ reports' = Plus(reports, next..BatchEnd)
  /\ Goto(w, "settled")
  /\ UNCHANGED <<tryVars, stopVars, gateVars, done, answers>>

\* Mutant: only the last half is counted.
FinishHalf(w) ==
  /\ pc[w] = "settled"
  /\ done' = done + (to[w] - from[w] + 1)
  /\ first' = [first EXCEPT ![w] = 1]
  /\ last' = [last EXCEPT ![w] = 0]
  /\ from' = [from EXCEPT ![w] = 1]
  /\ to' = [to EXCEPT ![w] = 0]
  /\ round' = [round EXCEPT ![w] = 0]
  /\ Goto(w, "free")
  /\ UNCHANGED <<next, cuts, stopVars, gateVars, itemVars>>

\* The whole batch is accounted for, and forgotten.
Finish(w) ==
  /\ pc[w] = "settled"
  /\ done' = done + (last[w] - first[w] + 1)
  /\ first' = [first EXCEPT ![w] = 1]
  /\ last' = [last EXCEPT ![w] = 0]
  /\ from' = [from EXCEPT ![w] = 1]
  /\ to' = [to EXCEPT ![w] = 0]
  /\ round' = [round EXCEPT ![w] = 0]
  /\ Goto(w, "free")
  /\ UNCHANGED <<next, cuts, stopVars, gateVars, itemVars>>

\* The cursor is past the list.
Leave(w) ==
  /\ pc[w] = "free"
  /\ next > Size
  /\ Goto(w, "gone")
  /\ UNCHANGED <<poolVars, tryVars, stopVars, gateVars, done, itemVars>>

-----------------------------------------------------------------------------
(* attempt() *)

\* Mutant: a batch that is sent again does not look at the gate.
LookOnce(w) ==
  /\ pc[w] = "look"
  /\ until' = [until EXCEPT ![w] = IF round[w] = 0 THEN gate ELSE 0]
  /\ Goto(w, "gated")
  /\ UNCHANGED <<poolVars, tryVars, stopVars, gate, now, ahead, done, itemVars>>

\* waitOutBackoff() reads the gate once.
Look(w) ==
  /\ pc[w] = "look"
  /\ until' = [until EXCEPT ![w] = gate]
  /\ Goto(w, "gated")
  /\ UNCHANGED <<poolVars, tryVars, stopVars, gate, now, ahead, done, itemVars>>

\* The timer has fired, or there was nothing to wait for.
Send(w) ==
  /\ pc[w] = "gated"
  /\ now >= until[w]
  /\ until' = [until EXCEPT ![w] = 0]
  /\ ahead' = [ahead EXCEPT ![w] = IF now < gate THEN @ + 1 ELSE @]
  /\ Goto(w, "sent")
  /\ UNCHANGED <<poolVars, tryVars, stopVars, gate, now, done, itemVars>>

\* Mutant: the second half begins with the last item of the first.
ProceedOverlapping(w) ==
  \/ /\ cuts[w] = {}
     /\ Goto(w, "settled")
     /\ UNCHANGED tryVars
  \/ \E e \in cuts[w] :
       /\ \A f \in cuts[w] : e <= f
       /\ from' = [from EXCEPT ![w] = to[w]]
       /\ to' = [to EXCEPT ![w] = e]
       /\ cuts' = [cuts EXCEPT ![w] = @ \ {e}]
       /\ round' = [round EXCEPT ![w] = 0]
       /\ Goto(w, "look")

\* The attempt is over: the next half, or back to the pool.
Proceed(w) ==
  \/ /\ cuts[w] = {}
     /\ Goto(w, "settled")
     /\ UNCHANGED tryVars
  \/ \E e \in cuts[w] :
       /\ \A f \in cuts[w] : e <= f
       /\ from' = [from EXCEPT ![w] = to[w] + 1]
       /\ to' = [to EXCEPT ![w] = e]
       /\ cuts' = [cuts EXCEPT ![w] = @ \ {e}]
       /\ round' = [round EXCEPT ![w] = 0]
       /\ Goto(w, "look")

GiveUp(w) ==
  /\ reports' = Plus(reports, from[w]..to[w])
  /\ Proceed(w)

Answer(w) ==
  /\ pc[w] = "sent"
  /\ answers' = Plus(answers, from[w]..to[w])
  /\ Proceed(w)
  /\ UNCHANGED <<poolVars, stopVars, gateVars, done, reports>>

\* Claiming stops for the first time with these still to claim.
Missed == IF Stopped THEN late ELSE next..Size

FailFatally(w) ==
  /\ pc[w] = "sent"
  /\ aborted' = TRUE
  /\ late' = Missed
  /\ GiveUp(w)
  /\ UNCHANGED <<poolVars, expired, gateVars, done, answers>>

\* Mutant: one round too many.
RetryOnceMore(w) ==
  /\ pc[w] = "sent"
  /\ round[w] <= Rounds
  /\ gate' \in {gate, gate + 1}
  /\ ahead' = IF gate' = gate THEN ahead ELSE [v \in Worker |-> 0]
  /\ round' = [round EXCEPT ![w] = @ + 1]
  /\ Goto(w, "look")
  /\ UNCHANGED <<poolVars, from, to, cuts, stopVars, until, now, done, itemVars>>

\* The failure moves the gate out, unless it is further out already.
Retry(w) ==
  /\ pc[w] = "sent"
  /\ round[w] < Rounds
  /\ gate' \in {gate, gate + 1}
  /\ ahead' = IF gate' = gate THEN ahead ELSE [v \in Worker |-> 0]
  /\ round' = [round EXCEPT ![w] = @ + 1]
  /\ Goto(w, "look")
  /\ UNCHANGED <<poolVars, from, to, cuts, stopVars, until, now, done, itemVars>>

\* Refused once more, or a single item answered badly.
FailForGood(w) ==
  /\ pc[w] = "sent"
  /\ round[w] >= Rounds \/ from[w] = to[w]
  /\ GiveUp(w)
  /\ UNCHANGED <<poolVars, stopVars, gateVars, done, answers>>

\* Mutant: the second half is forgotten.
HalveOnly(w) ==
  /\ pc[w] = "sent"
  /\ from[w] < to[w]
  /\ to' = [to EXCEPT ![w] = from[w] + ((to[w] - from[w]) \div 2)]
  /\ round' = [round EXCEPT ![w] = 0]
  /\ Goto(w, "look")
  /\ UNCHANGED <<poolVars, from, cuts, stopVars, gateVars, done, itemVars>>

\* Mutant: a single item is halved like any other batch.
HalveSingles(w) ==
  /\ pc[w] = "sent"
  /\ to' = [to EXCEPT ![w] = from[w] + ((to[w] - from[w]) \div 2)]
  /\ cuts' = [cuts EXCEPT ![w] = @ \cup {to[w]}]
  /\ round' = [round EXCEPT ![w] = 0]
  /\ Goto(w, "look")
  /\ UNCHANGED <<poolVars, from, stopVars, gateVars, done, itemVars>>

\* halve(): ceil(length / 2) items first, then the others.
Halve(w) ==
  /\ pc[w] = "sent"
  /\ from[w] < to[w]
  /\ to' = [to EXCEPT ![w] = from[w] + ((to[w] - from[w]) \div 2)]
  /\ cuts' = [cuts EXCEPT ![w] = @ \cup {to[w]}]
  /\ round' = [round EXCEPT ![w] = 0]
  /\ Goto(w, "look")
  /\ UNCHANGED <<poolVars, from, stopVars, gateVars, done, itemVars>>

-----------------------------------------------------------------------------
\* The caller's signal fires.
Expire ==
  /\ ~expired
  /\ expired' = TRUE
  /\ late' = Missed
  /\ UNCHANGED <<poolVars, pc, tryVars, aborted, gateVars, done, itemVars>>

Tick ==
  /\ now < gate
  /\ now' = now + 1
  /\ UNCHANGED <<poolVars, pc, tryVars, stopVars, until, gate, ahead, done,
                 itemVars>>

WorkerStep(w) ==
  \/ Claim(w) \/ SkipBatch(w) \/ Finish(w) \/ Leave(w)
  \/ Look(w) \/ Send(w)
  \/ Answer(w) \/ FailFatally(w) \/ Retry(w) \/ FailForGood(w) \/ Halve(w)

\* The run is over: Promise.all() has resolved.
Ended ==
  /\ \A w \in Worker : pc[w] = "gone"
  /\ UNCHANGED vars

Next == (\E w \in Worker : WorkerStep(w)) \/ Expire \/ Tick \/ Ended

\* A call settles, with the SDK's timeout if not before; a timer fires.
Fairness == WF_vars(Tick) /\ \A w \in Worker : WF_vars(WorkerStep(w))

Spec == Init /\ [][Next]_vars /\ Fairness

-----------------------------------------------------------------------------
(* Properties *)

TypeOK ==
  /\ next \in Nat /\ next >= 1
  /\ pc \in [Worker -> Step]
  /\ first \in [Worker -> Nat] /\ last \in [Worker -> Nat]
  /\ from \in [Worker -> Nat] /\ to \in [Worker -> Nat]
  /\ cuts \in [Worker -> SUBSET Item]
  /\ round \in [Worker -> 0..Rounds]
  /\ until \in [Worker -> Nat]
  /\ aborted \in BOOLEAN /\ expired \in BOOLEAN
  /\ gate \in Nat /\ now \in Nat
  /\ done \in Nat
  /\ answers \in [Item -> Nat] /\ reports \in [Item -> Nat]
  /\ ahead \in [Worker -> Nat]
  /\ late \subseteq Item

\* However the batches are cut, resent and skipped, no item is accounted for
\* twice: not answered by one half and reported with the other.
EveryItemOnce == \A i \in Item : answers[i] + reports[i] <= 1

\* "batches not yet started are reported as skipped": what was unclaimed when
\* the run was stopped is never answered.
NothingLate == \A i \in late : answers[i] = 0

\* A gate moved out by one worker holds the others, but for the one call each
\* may have looked at the gate for before.
OneSendAhead == \A w \in Worker : ahead[w] <= 1

\* "Items accounted for so far": the count reported never runs ahead of the
\* items, and has caught up when no batch is under way.
Settled == {i \in Item : answers[i] + reports[i] > 0}

ProgressIsTrue ==
  /\ done <= Cardinality(Settled)
  /\ (\A w \in Worker : pc[w] \in {"free", "gone"}) => done = Cardinality(Settled)

\* An upper bound of the steps still to come.  A call settles items, or cuts
\* what it is about after an item nothing was cut after before; between two of
\* these a worker has only so many turns.
Busy(w) == pc[w] \in {"look", "gated", "sent"}

Pending == Item \ Settled

Uncut ==
  {i \in Pending : \A w \in Worker : Busy(w) => i # to[w] /\ i \notin cuts[w]}

TurnsLeft(w) ==
  CASE pc[w] = "gone"    -> 0
    [] pc[w] = "free"    -> 1
    [] pc[w] = "settled" -> 2
    [] pc[w] = "sent"    -> 3 + 4 * (Rounds - round[w])
    [] pc[w] = "gated"   -> 4 + 4 * (Rounds - round[w])
    [] pc[w] = "look"    -> 5 + 4 * (Rounds - round[w])

Most == 5 + 4 * Rounds
TurnsOf(f) == {t \in Worker \X (1..Most) : t[2] <= f[t[1]]}

Effort ==
  Most * (Cardinality(Pending) + Cardinality(Uncut))
    + Cardinality(TurnsOf([w \in Worker |-> TurnsLeft(w)]))
    + (gate - now) + (IF expired THEN 0 ELSE 1)

\* "Resolves once": the halving, the resending and the pauses cannot go on for
\* ever, whatever the model and the provider do.
EveryStepCosts == [][Effort' < Effort]_vars

\* "Resolves once every batch has been attempted or skipped": whatever fails,
\* every item is settled, and exactly once.
Work == INSTANCE BatchWork

ImplementsWork == Work!Spec
=============================================================================
