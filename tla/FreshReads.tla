----------------------------- MODULE FreshReads -----------------------------
(***************************************************************************)
(* What a catalogue cache promises its readers, whatever it keeps and      *)
(* wherever: a request is answered once, out of versions no newer than the *)
(* catalogue and no older than what, when the request began, had been      *)
(* announced to everybody, or than what its own process had last tried to  *)
(* announce.                                                               *)
(***************************************************************************)
EXTENDS Naturals

CONSTANTS
  Process,
  Request,
  HomeOf      \* [Request -> Process]: the process a request is served by

VARIABLES
  version,    \* the version of the catalogue
  announced,  \* the version last announced to everybody
  tried,      \* the version each process last tried to announce
  due,        \* what each request has to be up to
  answer      \* the versions each request's answer is made of, if it has one

reads == <<version, announced, tried, due, answer>>

FreshInit ==
  /\ version = 1
  /\ announced = 0
  /\ tried = [p \in Process |-> 0]
  /\ due = [r \in Request |-> 0]
  /\ answer = [r \in Request |-> {}]

Write ==
  /\ version' = version + 1
  /\ UNCHANGED <<announced, tried, due, answer>>

Announce ==
  /\ announced' = version
  /\ UNCHANGED <<version, tried, due, answer>>

\* An attempt that may reach nobody, or reach everybody later.
Try(p) ==
  /\ tried' = [tried EXCEPT ![p] = version]
  /\ announced' \in {announced, version}
  /\ UNCHANGED <<version, due, answer>>

\* The process dies.
Forget(p) ==
  /\ tried' = [tried EXCEPT ![p] = 0]
  /\ UNCHANGED <<version, announced, due, answer>>

Later(a, b) == IF a >= b THEN a ELSE b

Ask(r) ==
  /\ due' = [due EXCEPT ![r] = Later(announced, tried[HomeOf[r]])]
  /\ answer' = [answer EXCEPT ![r] = {}]
  /\ UNCHANGED <<version, announced, tried>>

Answer(r) ==
  /\ answer[r] = {}
  /\ answer'[r] # {}
  /\ \A v \in answer'[r] : due[r] <= v /\ v <= version
  /\ answer' = [answer EXCEPT ![r] = answer'[r]]
  /\ UNCHANGED <<version, announced, tried, due>>

FreshNext ==
  \/ Write
  \/ Announce
  \/ \E p \in Process : Try(p) \/ Forget(p)
  \/ \E r \in Request : Ask(r) \/ Answer(r)

FreshSpec == FreshInit /\ [][FreshNext]_reads
=============================================================================
