------------------------------- MODULE BatchWork -------------------------------
(***************************************************************************)
(* What a batched pass promises its caller: every item is answered or      *)
(* reported, never both and never twice, and the pass ends.                *)
(***************************************************************************)
EXTENDS Naturals

CONSTANT Item

VARIABLES
  answers,  \* how often each item was in a batch that was answered
  reports   \* how often it was in one given up on

work == <<answers, reports>>

Unsettled == {i \in Item : answers[i] + reports[i] = 0}

Init ==
  /\ answers = [i \in Item |-> 0]
  /\ reports = [i \in Item |-> 0]

Plus(f, S) == [i \in Item |-> IF i \in S THEN f[i] + 1 ELSE f[i]]

Settle(S) ==
  \/ answers' = Plus(answers, S) /\ UNCHANGED reports
  \/ reports' = Plus(reports, S) /\ UNCHANGED answers

Next == \E S \in SUBSET Unsettled : S # {} /\ Settle(S)

Spec == Init /\ [][Next]_work /\ WF_work(Next)
=============================================================================
