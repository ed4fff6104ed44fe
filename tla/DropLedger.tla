----------------------------- MODULE DropLedger -----------------------------
(***************************************************************************)
(* What announcing drops promises each user: a drop is claimed by one      *)
(* dispatch, which tells its user of it, together with all it owes that    *)
(* user, or loses it.  Told and lost are for good: what was told is not    *)
(* told again, and what was lost is not told at all, until the claim is    *)
(* forgotten, after which nothing is promised.                             *)
(***************************************************************************)
CONSTANTS
  User,
  Holder    \* dispatches

VARIABLES
  owed,       \* each holder's rows that it claimed and has yet to tell of
  told,
  lost,
  forgotten   \* the rows that were once struck off

ledger == <<owed, told, lost, forgotten>>

Booked == (UNION {owed[d] : d \in Holder}) \cup told \cup lost

LedgerInit ==
  /\ owed = [d \in Holder |-> {}]
  /\ told = {}
  /\ lost = {}
  /\ forgotten = {}

\* Of rows nobody has claimed, by a dispatch that owes nothing.
Claim(d) ==
  /\ owed[d] = {}
  /\ owed'[d] # {}
  /\ owed'[d] \cap (Booked \cup forgotten) = {}
  /\ owed' = [owed EXCEPT ![d] = owed'[d]]
  /\ UNCHANGED <<told, lost, forgotten>>

Tell(d, u) ==
  LET rows == {w \in owed[d] : w[1] = u} IN
  /\ rows # {}
  /\ told' = told \cup rows
  /\ owed' = [owed EXCEPT ![d] = @ \ rows]
  /\ UNCHANGED <<lost, forgotten>>

Lose(d) ==
  /\ lost' = lost \cup owed[d]
  /\ owed' = [owed EXCEPT ![d] = {}]
  /\ UNCHANGED <<told, forgotten>>

Forget ==
  LET rows == forgotten' \ forgotten IN
  /\ rows # {}
  /\ rows \subseteq Booked
  /\ owed' = [d \in Holder |-> owed[d] \ rows]
  /\ told' = told \ rows
  /\ lost' = lost \ rows
  /\ forgotten \subseteq forgotten'

LedgerNext ==
  \/ Forget
  \/ \E d \in Holder :
       \/ Claim(d)
       \/ owed[d] # {} /\ (Lose(d) \/ \E u \in User : Tell(d, u))

LedgerSpec == LedgerInit /\ [][LedgerNext]_ledger
=============================================================================
