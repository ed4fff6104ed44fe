------------------------- MODULE PersistLocks_proofs -------------------------
(***************************************************************************)
(* Why persists can wait for each other, for any number of them and of     *)
(* bottlings: the order they lock rows in holds within their first pass,   *)
(* and a circle needs one that has begun a later pass.                     *)
(***************************************************************************)
EXTENDS PersistLocks, TLAPS, NaturalsInduction, WellFoundedInduction

TypeInv ==
  /\ stage \in [Persist -> 0..5]
  /\ todo \in [Persist -> SUBSET Key]
  /\ held \in [Persist -> SUBSET Key]

\* A persist that has begun nothing holds nothing, and one in its first pass
\* asks for no row below one it holds.
Ascending ==
  \A t \in Persist :
    /\ stage[t] = 0 => todo[t] = {} /\ held[t] = {}
    /\ stage[t] = 1 => \A h \in held[t] : \A k \in todo[t] : h < k

\* A circle of persists, each waiting for another of them, has one in it that
\* is past its first pass.
Circle(D) == D # {} /\ \A t \in D : \E u \in D \ {t} : WaitsFor(t, u)

CirclesNeedALaterPass ==
  \A D \in SUBSET Persist : Circle(D) => \E t \in D : stage[t] > 1

LEMMA FiveStages == Len(Stages) = 5
BY DEF Stages

\* The next row is the least one left.
LEMMA LeastNumber ==
  ASSUME NEW S \in SUBSET Nat, S # {}
  PROVE  \E x \in S : \A y \in S : x <= y
<1> DEFINE Less == OpToRel(<, Nat)
<1>1. \A x, y \in Nat : <<x, y>> \in Less <=> x < y
  BY DEF OpToRel
<1>2. IsWellFoundedOn(Less, Nat)
  BY NatLessThanWellFounded
<1> HIDE DEF Less
<1>3. PICK x \in S : \A y \in S : <<y, x>> \notin Less
  BY <1>2, WFMin
<1>4. ASSUME NEW y \in S PROVE x <= y
  <2>1. x \in Nat /\ y \in Nat
    OBVIOUS
  <2>2. ~(y < x)
    BY <1>1, <1>3, <2>1
  <2> QED
    BY <2>1, <2>2
<1> QED
  BY <1>4

LEMMA LeastRow ==
  ASSUME NEW S \in SUBSET Nat, S # {}
  PROVE  Min(S) \in S /\ \A k \in S : Min(S) <= k
BY LeastNumber DEF Min

LEMMA GreatestNumber ==
  ASSUME NEW m \in Nat, NEW S \in SUBSET (0..m), S # {}
  PROVE  \E x \in S : \A y \in S : y <= x
<1> DEFINE T == {m - x : x \in S}
<1>1. T \in SUBSET Nat /\ T # {}
  <2>1. \A x \in S : m - x \in Nat
    OBVIOUS
  <2> QED
    BY <2>1
<1>2. PICK z \in T : \A y \in T : z <= y
  BY <1>1, LeastNumber
<1>3. PICK x \in S : z = m - x
  OBVIOUS
<1>4. ASSUME NEW y \in S PROVE y <= x
  <2>1. m - y \in T
    OBVIOUS
  <2>2. m - x <= m - y
    BY <1>2, <1>3, <2>1
  <2>3. x \in 0..m /\ y \in 0..m
    OBVIOUS
  <2> QED
    BY <2>2, <2>3
<1> QED
  BY <1>4

-----------------------------------------------------------------------------
LEMMA LocksInit == Init => TypeInv /\ Ascending
BY DEF Init, TypeInv, Ascending

LEMMA LocksNext ==
  ASSUME Key \subseteq Nat, TypeInv, Ascending, [Next]_vars
  PROVE  TypeInv' /\ Ascending'
<1>1. ASSUME NEW t \in Persist, NEW keys \in SUBSET Key, Begin(t, keys)
      PROVE  TypeInv' /\ Ascending'
  <2>1. TypeInv'
    <3>1. stage' \in [Persist -> 0..5]
      BY <1>1 DEF Begin, TypeInv
    <3>2. todo' \in [Persist -> SUBSET Key] /\ held' = held
      BY <1>1 DEF Begin, TypeInv
    <3> QED
      BY <3>1, <3>2 DEF TypeInv
  <2>2. held[t] = {}
    BY <1>1 DEF Begin, Ascending
  <2>3. Ascending'
    BY <1>1, <2>2 DEF Begin, TypeInv, Ascending
  <2> QED
    BY <2>1, <2>3
<1>2. ASSUME NEW t \in Persist, NEW rows \in SUBSET Key, NextPass(t, rows)
      PROVE  TypeInv' /\ Ascending'
  <2>1. stage[t] + 1 \in 2..5
    BY <1>2, FiveStages DEF NextPass
  <2>2. TypeInv'
    BY <1>2, <2>1 DEF NextPass, TypeInv
  <2>3. Ascending'
    BY <1>2, <2>1 DEF NextPass, TypeInv, Ascending
  <2> QED
    BY <2>2, <2>3
<1>3. ASSUME NEW t \in Persist, Write(t) PROVE TypeInv' /\ Ascending'
  <2> DEFINE n == NextRow(t)
  <2>1. n \in todo[t] /\ \A k \in todo[t] : n <= k
    BY <1>3, LeastRow DEF Write, NextRow, TypeInv
  <2>2. /\ held' = [held EXCEPT ![t] = @ \cup {n}]
        /\ todo' = [todo EXCEPT ![t] = @ \ {n}]
        /\ stage' = stage
    BY <1>3 DEF Write
  <2> HIDE DEF n
  <2>3. TypeInv'
    BY <2>1, <2>2 DEF TypeInv
  <2>4. stage[t] # 0
    BY <2>1 DEF Ascending
  <2>5. ASSUME stage[t] = 1, NEW h \in held'[t], NEW k \in todo'[t] PROVE h < k
    <3>1. k \in todo[t] /\ k # n /\ k \in Nat /\ n \in Nat
      BY <2>1, <2>2 DEF TypeInv
    <3>2. CASE h = n
      BY <2>1, <3>1, <3>2
    <3>3. CASE h \in held[t]
      BY <2>5, <3>1, <3>3 DEF Ascending
    <3> QED
      BY <2>2, <3>2, <3>3 DEF TypeInv
  <2>6. \A u \in Persist \ {t} : held'[u] = held[u] /\ todo'[u] = todo[u]
    BY <2>2 DEF TypeInv
  <2>7. Ascending'
    BY <2>2, <2>4, <2>5, <2>6 DEF Ascending
  <2> QED
    BY <2>3, <2>7
<1>4. ASSUME NEW t \in Persist, Commit(t) PROVE TypeInv' /\ Ascending'
  BY <1>4 DEF Commit, TypeInv, Ascending
<1>5. CASE UNCHANGED vars
  BY <1>5 DEF vars, TypeInv, Ascending
<1> QED
  BY <1>1, <1>2, <1>3, <1>4, <1>5 DEF Next

\* In its first pass each of a circle asks for more than it holds, so the rows
\* they ask for would rise for ever.
LEMMA OrderedPassesDoNotCircle ==
  ASSUME NEW m \in Nat, Key \subseteq 0..m, TypeInv, Ascending,
         NEW D \in SUBSET Persist, Circle(D)
  PROVE  \E t \in D : stage[t] > 1
<1> SUFFICES ASSUME \A t \in D : ~(stage[t] > 1) PROVE FALSE
  OBVIOUS
<1>0. Key \subseteq Nat
  OBVIOUS
<1>1. ASSUME NEW t \in D
      PROVE  stage[t] = 1 /\ NextRow(t) \in todo[t] /\ todo[t] \subseteq Key
  <2>1. todo[t] # {} /\ todo[t] \subseteq Key /\ stage[t] \in 0..5
    BY DEF Circle, WaitsFor, TypeInv
  <2>2. stage[t] = 1
    BY <2>1 DEF Ascending
  <2>3. Min(todo[t]) \in todo[t]
    BY <1>0, <2>1, LeastRow
  <2> QED
    BY <2>1, <2>2, <2>3 DEF NextRow
<1>2. {NextRow(t) : t \in D} \subseteq 0..m /\ {NextRow(t) : t \in D} # {}
  BY <1>1 DEF Circle
<1>3. PICK x \in {NextRow(t) : t \in D} : \A y \in {NextRow(t) : t \in D} : y <= x
  BY <1>2, GreatestNumber
<1>4. PICK t \in D : x = NextRow(t)
  OBVIOUS
<1>5. PICK u \in D : NextRow(t) \in held[u]
  BY DEF Circle, WaitsFor
<1>6. NextRow(t) < NextRow(u)
  BY <1>1, <1>5 DEF Ascending
<1>7. NextRow(u) <= NextRow(t)
  BY <1>3, <1>4
<1>8. NextRow(t) \in Nat /\ NextRow(u) \in Nat
  BY <1>0, <1>1
<1> QED
  BY <1>6, <1>7, <1>8

\* However many persists there are, and whichever bottlings they name, those
\* that wait for each other in a circle have begun a pass after the first: the
\* ascending order does what it is for within one pass, and only there
\* (findOrCreateByMatchKeys, fillMissing, setProducers, applyKbFacts).
THEOREM OnlyLaterPassesDeadlock ==
  ASSUME NEW m \in Nat, Key \subseteq 0..m
  PROVE  Spec => []CirclesNeedALaterPass
<1>0. Key \subseteq Nat
  OBVIOUS
<1>1. TypeInv /\ Ascending /\ [Next]_vars => (TypeInv /\ Ascending)'
  BY <1>0, LocksNext
<1>2. TypeInv /\ Ascending => CirclesNeedALaterPass
  BY OrderedPassesDoNotCircle DEF CirclesNeedALaterPass
<1> QED
  BY <1>1, <1>2, LocksInit, PTL DEF Spec

=============================================================================
