------------------------- MODULE BottlingsKeys_proofs -------------------------
(***************************************************************************)
(* That a key leads where its bottling went, for any number of persists,   *)
(* editors and rows.                                                       *)
(***************************************************************************)
EXTENDS Bottlings_proofs

-----------------------------------------------------------------------------
(* The inductive invariant *)

\* From a merge's read of the two keys to the statement that hands one on.
Reading == {"facts", "offers", "lists", "aliases", "key"}

\* The bottlings whose keys an edit has handed on, and those it is at.
Handed(j) == j.gone \cup (IF j.pc = "delete" THEN {j.old} ELSE {})

Handing(j) ==
  j.gone \cup (IF j.pc \in {"key", "delete"} THEN {j.old} ELSE {})

\* What it has handed on is what led to the loser, and goes to a survivor that
\* is there, is locked, and loses no key by it; the keys it has read are still
\* true.
KeyFit(j) ==
  /\ ~j.folds => j.keys = {} /\ j.adopt = NoKey
  /\ j.adopt # NoKey => j.new \in j.took
  /\ \A k \in Key \ raced :
       /\ j.folds /\ home[k] # 0 /\ became[home[k]] \in Handed(j)
            => k \in j.keys \cup {j.adopt}
       /\ k \in j.keys \cup {j.adopt}
            => /\ home[k] # 0 /\ became[home[k]] \in Handing(j)
               /\ j.new \in live /\ j.new \in j.wrote
       /\ j.adopt # NoKey => key[j.new] # k
       /\ j.pc \in Reading =>
            /\ j.oldKey = k <=> key[j.old] = k
            /\ j.newKey = NoKey => j.adopt = NoKey /\ key[j.new] # k
            /\ j.new \notin live /\ home[k] # 0 => became[home[k]] # j.old
       /\ j.pc = "key" /\ alias[k] = j.old => k \in j.keys

\* A key a persist is making a bottling for leads nowhere, and nobody else is
\* making one for it.
KeyMakes ==
  /\ \A p \in Persist : made[p] \subseteq fresh[p] /\ fresh[p] \subseteq Batch[p]
  /\ \A p \in Persist : \A x, y \in made[p] : x # y => got[p][x] # got[p][y]
  /\ \A p, q \in Persist : \A k \in Key : IsMaking(p, k) /\ IsMaking(q, k) => p = q
  /\ \A p \in Persist, k \in Key \ raced : IsMaking(p, k) => home[k] = 0
  /\ \A p \in Persist : at[p] \in {"known", "identified"} =>
       \A x \in Pending(p) : KeyOf[x] \notin raced => alias[KeyOf[x]] = 0

KeyRows ==
  /\ \A b \in Id : b \notin live => key[b] = NoKey
  /\ \A k \in Key \ raced :
       Resolve(k) = IF home[k] = 0 THEN {} ELSE {became[home[k]]}

KeyInv == KeyRows /\ KeyMakes /\ \A e \in Editor : KeyFit(ed[e])

-----------------------------------------------------------------------------
(* Editors' steps *)

keyVars == <<live, key, alias, home, became, raced>>

\* A step within an edit's transaction need only fit it.
LEMMA KeyMoves ==
  ASSUME TypeOK, KeyInv, NEW e \in Editor, NEW j, KeyFit(j),
         ed' = [ed EXCEPT ![e] = j], UNCHANGED keyVars,
         UNCHANGED <<at, fresh, got, made>>
  PROVE  KeyInv'
<1>1. \A f \in Editor : ed'[f] = IF f = e THEN j ELSE ed[f]
  BY DEF TypeOK
<1>2. UNCHANGED <<live, key, alias, home, became, raced, at, fresh, got, made>>
  BY DEF keyVars
<1>3. ASSUME NEW f \in Editor PROVE KeyFit(ed[f])'
  <2>1. CASE f = e
    BY <1>1, <1>2, <2>1 DEF KeyFit, Handed, Handing
  <2>2. CASE f # e
    BY <1>1, <1>2, <2>2 DEF KeyFit, Handed, Handing, KeyInv
  <2> QED
    BY <2>1, <2>2
<1>4. KeyRows'
  BY <1>2 DEF KeyInv, KeyRows, Resolve
<1>5. KeyMakes'
  BY <1>2 DEF KeyInv, KeyMakes, IsMaking, Pending
<1> QED
  BY <1>3, <1>4, <1>5 DEF KeyInv

\* An edit that has handed nothing on.
LEMMA KeyStarts ==
  ASSUME NEW j, j.keys = {}, j.adopt = NoKey, j.pc \notin Reading,
         j.folds => Handed(j) = {}
  PROVE  KeyFit(j)
<1>1. NoKey \notin Key
  BY BottlingsAssumptions
<1> QED
  BY <1>1 DEF KeyFit, Reading

\* One that has read the keys and not come to them.
LEMMA KeyStays ==
  ASSUME NEW r, KeyFit(r), NEW j,
         r.pc \in {"facts", "offers", "lists"},
         j.pc \in {"offers", "lists", "aliases"},
         j.keys = r.keys, j.adopt = r.adopt, j.new = r.new, j.old = r.old,
         j.oldKey = r.oldKey, j.newKey = r.newKey, j.folds <=> r.folds,
         r.wrote \subseteq j.wrote, j.took = r.took, j.gone = r.gone
  PROVE  KeyFit(j)
BY DEF KeyFit, Handed, Handing, Reading

LEMMA KeyEdits ==
  ASSUME TypeOK, IInv, ListInv, KeyInv, NEW e \in Editor, EditStepOf(e), ~CommitEdit(e)
  PROVE  KeyInv'
<1> DEFINE r == ed[e]
<1> USE DEF Advance, dataVars, histVars, persistVars, keyVars
<1>1. /\ r \in Edit /\ KeyFit(r) /\ ListFit(r) /\ Shaped(r) /\ 0 \notin Id
      /\ live \subseteq Id /\ NoKey \notin Key
  BY BottlingsAssumptions DEF TypeOK, KeyInv, ListInv, IInv, Fit, Id
<1>2. r.pc \in {"idle", "twins", "left", "done"} =>
        r.gone = {} /\ r.keys = {} /\ r.adopt = NoKey /\ ~r.folds
  BY <1>1 DEF Shaped, KeyFit
<1>3. ASSUME NEW l \in Id, NEW s \in Id, Merge(e, l, s) PROVE KeyInv'
  <2> DEFINE j == [r EXCEPT !.pc = "read", !.folds = TRUE, !.old = l, !.new = s]
  <2>1. /\ ed' = [ed EXCEPT ![e] = j] /\ r.pc = "idle"
        /\ UNCHANGED keyVars /\ UNCHANGED <<at, fresh, got, made>>
    BY <1>3 DEF Merge
  <2>2. /\ j.pc = "read" /\ j.keys = r.keys /\ j.adopt = r.adopt /\ j.gone = r.gone
        /\ j.folds
    BY <1>1 DEF Edit
  <2> HIDE DEF j
  <2>3. KeyFit(j)
    BY <1>2, <2>1, <2>2, KeyStarts DEF Handed, Reading
  <2> QED
    BY <2>1, <2>3, KeyMoves
<1>4. ASSUME NEW b \in Id, NEW n \in Name, Rename(e, b, n) PROVE KeyInv'
  <2> DEFINE j == [r EXCEPT !.pc = "twins", !.row = b, !.name = n, !.wrote = {b}]
  <2>1. /\ ed' = [ed EXCEPT ![e] = j] /\ r.pc = "idle"
        /\ UNCHANGED keyVars /\ UNCHANGED <<at, fresh, got, made>>
    BY <1>4 DEF Rename
  <2>2. /\ j.pc = "twins" /\ j.keys = r.keys /\ j.adopt = r.adopt /\ j.gone = r.gone
        /\ (j.folds <=> r.folds)
    BY <1>1 DEF Edit
  <2> HIDE DEF j
  <2>3. KeyFit(j)
    BY <1>2, <2>1, <2>2, KeyStarts DEF Handed, Reading
  <2> QED
    BY <2>1, <2>3, KeyMoves
<1>5. ASSUME NEW x \in Sku, NEW t \in Id, RelinkTo(e, x, t) PROVE KeyInv'
  <2> DEFINE j == [r EXCEPT !.pc = "left", !.old = offer[x], !.new = t, !.offers = {x}]
  <2>1. /\ ed' = [ed EXCEPT ![e] = j] /\ r.pc = "idle"
        /\ UNCHANGED keyVars /\ UNCHANGED <<at, fresh, got, made>>
    BY <1>5 DEF RelinkTo
  <2>2. /\ j.pc = "left" /\ j.keys = r.keys /\ j.adopt = r.adopt /\ j.gone = r.gone
        /\ (j.folds <=> r.folds)
    BY <1>1 DEF Edit
  <2> HIDE DEF j
  <2>3. KeyFit(j)
    BY <1>2, <2>1, <2>2, KeyStarts DEF Handed, Reading
  <2> QED
    BY <2>1, <2>3, KeyMoves
<1>6. ASSUME NEW x \in Sku, NEW n \in Name, RelinkNew(e, x, n) PROVE KeyInv'
  <2> DEFINE j == [r EXCEPT !.pc = "left", !.old = offer[x], !.new = top + 1,
                            !.row = top + 1, !.name = n, !.offers = {x}]
  <2>1. /\ ed' = [ed EXCEPT ![e] = j] /\ r.pc = "idle"
        /\ UNCHANGED keyVars /\ UNCHANGED <<at, fresh, got, made>>
    BY <1>6 DEF RelinkNew
  <2>2. /\ j.pc = "left" /\ j.keys = r.keys /\ j.adopt = r.adopt /\ j.gone = r.gone
        /\ (j.folds <=> r.folds)
    BY <1>1 DEF Edit
  <2> HIDE DEF j
  <2>3. KeyFit(j)
    BY <1>2, <2>1, <2>2, KeyStarts DEF Handed, Reading
  <2> QED
    BY <2>1, <2>3, KeyMoves
<1>7. ASSUME Twins(e) PROVE KeyInv'
  <2>1. UNCHANGED keyVars /\ UNCHANGED <<at, fresh, got, made>> /\ r.pc = "twins"
    BY <1>7 DEF Twins
  <2>2. CASE Advance(e, [r EXCEPT !.pc = "commit"])
    <3> DEFINE j == [r EXCEPT !.pc = "commit"]
    <3>1. /\ j.pc = "commit" /\ j.keys = r.keys /\ j.adopt = r.adopt /\ j.gone = r.gone
          /\ (j.folds <=> r.folds)
      BY <1>1 DEF Edit
    <3>2. ed' = [ed EXCEPT ![e] = j]
      BY <2>2
    <3> HIDE DEF j
    <3>3. KeyFit(j)
      BY <1>2, <2>1, <3>1, KeyStarts DEF Handed, Reading
    <3> QED
      BY <2>1, <3>2, <3>3, KeyMoves
  <2>3. ASSUME NEW s, NEW B,
               Advance(e, [r EXCEPT !.pc = "read", !.folds = TRUE, !.old = r.row,
                                    !.new = s, !.rest = B])
        PROVE  KeyInv'
    <3> DEFINE j == [r EXCEPT !.pc = "read", !.folds = TRUE, !.old = r.row,
                              !.new = s, !.rest = B]
    <3>1. /\ j.pc = "read" /\ j.keys = r.keys /\ j.adopt = r.adopt /\ j.gone = r.gone
      BY <1>1 DEF Edit
    <3>2. ed' = [ed EXCEPT ![e] = j]
      BY <2>3
    <3> HIDE DEF j
    <3>3. KeyFit(j)
      BY <1>2, <2>1, <3>1, KeyStarts DEF Handed, Reading
    <3> QED
      BY <2>1, <3>2, <3>3, KeyMoves
  <2> QED
    BY <1>7, <2>2, <2>3 DEF Twins
<1>8. ASSUME CheckLeft(e) PROVE KeyInv'
  <2> DEFINE s == IF /\ r.old # r.new
                     /\ Offers(r.old) \subseteq r.offers
                     /\ \A u \in User : <<u, r.old>> \notin listed
                  THEN "delete" ELSE "commit"
             j == [r EXCEPT !.pc = s]
  <2>1. /\ ed' = [ed EXCEPT ![e] = j] /\ r.pc = "left" /\ s \in {"delete", "commit"}
        /\ UNCHANGED keyVars /\ UNCHANGED <<at, fresh, got, made>>
    BY <1>8 DEF CheckLeft
  <2> HIDE DEF s
  <2>2. /\ j.pc = s /\ j.keys = r.keys /\ j.adopt = r.adopt /\ j.gone = r.gone
        /\ (j.folds <=> r.folds)
    BY <1>1 DEF Edit
  <2> HIDE DEF j
  <2>3. KeyFit(j)
    BY <1>2, <2>1, <2>2, KeyStarts DEF Handed, Reading
  <2> QED
    BY <2>1, <2>3, KeyMoves
<1>9. ASSUME Read(e) PROVE KeyInv'
  <2> DEFINE n == IF r.adopt # NoKey THEN r.adopt ELSE key[r.new]
             o == key[r.old]
             j == [r EXCEPT !.pc = "facts", !.oldKey = o, !.newKey = n]
  <2>1. /\ ed' = [ed EXCEPT ![e] = j] /\ r.pc = "read" /\ r.old \in live /\ r.new \in live
        /\ UNCHANGED keyVars /\ UNCHANGED <<at, fresh, got, made>>
    BY <1>9 DEF Read
  <2>2. n = NoKey => r.adopt = NoKey /\ key[r.new] = NoKey
    OBVIOUS
  <2>3. o = key[r.old]
    OBVIOUS
  <2> HIDE DEF n, o
  <2>4. /\ j.pc = "facts" /\ j.keys = r.keys /\ j.adopt = r.adopt /\ j.gone = r.gone
        /\ j.old = r.old /\ j.new = r.new /\ j.wrote = r.wrote /\ j.took = r.took
        /\ j.oldKey = o /\ j.newKey = n /\ (j.folds <=> r.folds)
    BY <1>1 DEF Edit
  <2> HIDE DEF j
  <2>5. KeyFit(j)
    BY <1>1, <2>1, <2>2, <2>3, <2>4 DEF KeyFit, Handed, Handing, Reading
  <2> QED
    BY <2>1, <2>5, KeyMoves
<1>10. ASSUME Facts(e) PROVE KeyInv'
  <2> DEFINE W == r.wrote \cup {r.new}
             j == [r EXCEPT !.pc = "offers", !.wrote = W]
  <2>1. /\ ed' = [ed EXCEPT ![e] = j] /\ r.pc = "facts" /\ r.wrote \subseteq W
        /\ UNCHANGED keyVars /\ UNCHANGED <<at, fresh, got, made>>
    BY <1>10 DEF Facts
  <2> HIDE DEF W
  <2>2. /\ j.pc = "offers" /\ j.keys = r.keys /\ j.adopt = r.adopt /\ j.gone = r.gone
        /\ j.old = r.old /\ j.new = r.new /\ j.wrote = W /\ j.took = r.took
        /\ j.oldKey = r.oldKey /\ j.newKey = r.newKey /\ (j.folds <=> r.folds)
    BY <1>1 DEF Edit
  <2> HIDE DEF j
  <2>3. KeyFit(j)
    BY <1>1, <2>1, <2>2, KeyStays
  <2> QED
    BY <2>1, <2>3, KeyMoves
<1>11. ASSUME MoveOffers(e) PROVE KeyInv'
  <2> DEFINE O == r.offers \cup Offers(r.old)
             j == [r EXCEPT !.pc = "lists", !.offers = O]
  <2>1. /\ ed' = [ed EXCEPT ![e] = j] /\ r.pc = "offers"
        /\ UNCHANGED keyVars /\ UNCHANGED <<at, fresh, got, made>>
    BY <1>11 DEF MoveOffers
  <2> HIDE DEF O
  <2>2. /\ j.pc = "lists" /\ j.keys = r.keys /\ j.adopt = r.adopt /\ j.gone = r.gone
        /\ j.old = r.old /\ j.new = r.new /\ j.wrote = r.wrote /\ j.took = r.took
        /\ j.oldKey = r.oldKey /\ j.newKey = r.newKey /\ (j.folds <=> r.folds)
    BY <1>1 DEF Edit
  <2> HIDE DEF j
  <2>3. KeyFit(j)
    BY <1>1, <2>1, <2>2, KeyStays
  <2> QED
    BY <2>1, <2>3, KeyMoves
<1>12. ASSUME MoveLists(e) PROVE KeyInv'
  <2> DEFINE L == r.lists \cup {i \in listed : i[2] = r.old}
             j == [r EXCEPT !.pc = "aliases", !.lists = L]
  <2>1. /\ ed' = [ed EXCEPT ![e] = j] /\ r.pc = "lists"
        /\ UNCHANGED keyVars /\ UNCHANGED <<at, fresh, got, made>>
    BY <1>12 DEF MoveLists
  <2> HIDE DEF L
  <2>2. /\ j.pc = "aliases" /\ j.keys = r.keys /\ j.adopt = r.adopt /\ j.gone = r.gone
        /\ j.old = r.old /\ j.new = r.new /\ j.wrote = r.wrote /\ j.took = r.took
        /\ j.oldKey = r.oldKey /\ j.newKey = r.newKey /\ (j.folds <=> r.folds)
    BY <1>1 DEF Edit
  <2> HIDE DEF j
  <2>3. KeyFit(j)
    BY <1>1, <2>1, <2>2, KeyStays
  <2> QED
    BY <2>1, <2>3, KeyMoves
<1>13. ASSUME Repoint(e) PROVE KeyInv'
  <2> DEFINE mine == {k \in Key : alias[k] = r.old}
             K == r.keys \cup mine
             j == [r EXCEPT !.pc = "key", !.keys = K]
  <2>1. /\ ed' = [ed EXCEPT ![e] = j] /\ r.pc = "aliases" /\ (mine # {} => r.new \in live)
        /\ UNCHANGED keyVars /\ UNCHANGED <<at, fresh, got, made>>
    BY <1>13 DEF Repoint
  <2>2. \A k \in Key : alias[k] = r.old => k \in K /\ r.new \in live
    BY <2>1
  <2>3. K = r.keys \cup {k \in Key : alias[k] = r.old}
    OBVIOUS
  <2>4. r.keys \subseteq K
    OBVIOUS
  <2> HIDE DEF mine, K
  <2>5. /\ j.pc = "key" /\ j.keys = K /\ j.adopt = r.adopt /\ j.gone = r.gone
        /\ j.old = r.old /\ j.new = r.new /\ j.wrote = r.wrote /\ j.took = r.took
        /\ j.oldKey = r.oldKey /\ j.newKey = r.newKey /\ (j.folds <=> r.folds)
    BY <1>1 DEF Edit
  <2> HIDE DEF j
  <2>6. r.folds /\ r.old # 0 /\ r.new \in r.wrote
    BY <1>1, <2>1 DEF Shaped, Merging, ListFit
  <2>7. ASSUME NEW k \in Key \ raced, alias[k] = r.old
        PROVE  home[k] # 0 /\ became[home[k]] = r.old
    BY <2>6, <2>7 DEF KeyInv, KeyRows, Resolve
  <2>8. KeyFit(j)
    BY <1>1, <2>1, <2>2, <2>3, <2>4, <2>5, <2>6, <2>7
       DEF KeyFit, Handed, Handing, Reading
  <2> QED
    BY <2>1, <2>8, KeyMoves

<1>14. ASSUME Retire(e) PROVE KeyInv'
  <2>1. /\ r.pc = "key" /\ UNCHANGED keyVars /\ UNCHANGED <<at, fresh, got, made>>
        /\ r.folds /\ r.new \in r.wrote /\ r.old \in Id
    BY <1>1, <1>14 DEF Retire, Shaped, Merging, ListFit, Edit
  <2>2. \A k \in Key \ raced : home[k] # 0 /\ became[home[k]] = r.old
                                 => r.oldKey = k \/ k \in r.keys
    <3> SUFFICES ASSUME NEW k \in Key \ raced, home[k] # 0, became[home[k]] = r.old
                 PROVE  r.oldKey = k \/ k \in r.keys
      OBVIOUS
    <3>1. r.old \in Resolve(k)
      BY DEF KeyInv, KeyRows
    <3>2. key[r.old] = k \/ alias[k] = r.old
      BY <3>1 DEF Resolve
    <3> QED
      BY <1>1, <2>1, <3>2 DEF KeyFit, Reading
  <2>3. r.oldKey \in Key \ raced
          => home[r.oldKey] # 0 /\ became[home[r.oldKey]] = r.old
    <3> SUFFICES ASSUME r.oldKey \in Key \ raced
                 PROVE  home[r.oldKey] # 0 /\ became[home[r.oldKey]] = r.old
      OBVIOUS
    <3>1. key[r.old] = r.oldKey
      BY <1>1, <2>1 DEF KeyFit, Reading
    <3>2. r.old \in live
      BY <1>1, <2>1, <3>1 DEF KeyInv, KeyRows
    <3>3. r.old \in Resolve(r.oldKey)
      BY <3>1, <3>2 DEF Resolve
    <3> QED
      BY <3>3 DEF KeyInv, KeyRows
  <2>4. CASE r.oldKey = NoKey /\ Advance(e, [r EXCEPT !.pc = "delete"])
    <3> DEFINE j == [r EXCEPT !.pc = "delete"]
    <3>1. ed' = [ed EXCEPT ![e] = j]
      BY <2>4
    <3>2. /\ j.pc = "delete" /\ j.keys = r.keys /\ j.adopt = r.adopt /\ j.gone = r.gone
          /\ j.old = r.old /\ j.new = r.new /\ j.wrote = r.wrote /\ j.took = r.took
          /\ (j.folds <=> r.folds)
      BY <1>1 DEF Edit
    <3> HIDE DEF j
    <3>3. KeyFit(j)
      BY <1>1, <2>1, <2>2, <2>4, <3>2 DEF KeyFit, Handed, Handing, Reading
    <3> QED
      BY <2>1, <3>1, <3>3, KeyMoves
  <2>5. CASE /\ r.oldKey # NoKey /\ r.newKey = NoKey
             /\ Advance(e, [r EXCEPT !.pc = "delete", !.adopt = r.oldKey,
                                     !.took = r.took \cup {r.old, r.new}])
    <3> DEFINE T == r.took \cup {r.old, r.new}
               j == [r EXCEPT !.pc = "delete", !.adopt = r.oldKey, !.took = T]
    <3>1. ed' = [ed EXCEPT ![e] = j] /\ r.new \in T /\ r.took \subseteq T
      BY <2>5
    <3> HIDE DEF T
    <3>2. /\ j.pc = "delete" /\ j.keys = r.keys /\ j.adopt = r.oldKey /\ j.gone = r.gone
          /\ j.old = r.old /\ j.new = r.new /\ j.wrote = r.wrote /\ j.took = T
          /\ (j.folds <=> r.folds)
      BY <1>1 DEF Edit
    <3> HIDE DEF j
    <3>3. KeyFit(j)
      BY <1>1, <2>1, <2>2, <2>3, <2>5, <3>1, <3>2 DEF KeyFit, Handed, Handing, Reading
    <3> QED
      BY <2>1, <3>1, <3>3, KeyMoves
  <2>6. CASE /\ r.oldKey # NoKey /\ r.newKey # NoKey /\ r.new \in live
             /\ Advance(e, [r EXCEPT !.pc = "delete", !.keys = r.keys \cup {r.oldKey},
                                     !.took = r.took \cup {r.old}])
    <3> DEFINE T == r.took \cup {r.old}
               K == r.keys \cup {r.oldKey}
               j == [r EXCEPT !.pc = "delete", !.keys = K, !.took = T]
    <3>1. /\ ed' = [ed EXCEPT ![e] = j] /\ r.took \subseteq T
          /\ K = r.keys \cup {r.oldKey}
      BY <2>6
    <3> HIDE DEF T, K
    <3>2. /\ j.pc = "delete" /\ j.keys = K /\ j.adopt = r.adopt /\ j.gone = r.gone
          /\ j.old = r.old /\ j.new = r.new /\ j.wrote = r.wrote /\ j.took = T
          /\ (j.folds <=> r.folds)
      BY <1>1 DEF Edit
    <3> HIDE DEF j
    <3>3. KeyFit(j)
      BY <1>1, <2>1, <2>2, <2>3, <2>6, <3>1, <3>2 DEF KeyFit, Handed, Handing, Reading
    <3> QED
      BY <2>1, <3>1, <3>3, KeyMoves
  <2> HIDE DEF Advance
  <2> QED
    BY <1>14, <2>4, <2>5, <2>6 DEF Retire
<1>15. ASSUME Delete(e) PROVE KeyInv'
  <2> PICK s \in IF r.rest = {} THEN {0} ELSE r.rest :
        Advance(e, [r EXCEPT !.pc = IF s = 0 THEN "commit" ELSE "read",
                             !.old = s, !.rest = r.rest \ {s},
                             !.took = r.took \cup {r.old},
                             !.gone = r.gone \cup {r.old}])
    BY <1>15 DEF Delete
  <2> DEFINE c == IF s = 0 THEN "commit" ELSE "read"
             B == r.rest \ {s}
             t == r.took \cup {r.old}
             g == r.gone \cup {r.old}
             j == [r EXCEPT !.pc = c, !.old = s, !.rest = B, !.took = t, !.gone = g]
  <2>1. /\ ed' = [ed EXCEPT ![e] = j] /\ r.pc = "delete" /\ c \in {"commit", "read"}
        /\ g = r.gone \cup {r.old} /\ r.took \subseteq t
        /\ UNCHANGED keyVars /\ UNCHANGED <<at, fresh, got, made>>
    BY <1>15 DEF Delete
  <2> HIDE DEF c, B, t, g
  <2>2. /\ j.pc = c /\ j.keys = r.keys /\ j.adopt = r.adopt /\ j.gone = g
        /\ j.new = r.new /\ j.wrote = r.wrote /\ j.took = t /\ (j.folds <=> r.folds)
    BY <1>1 DEF Edit
  <2> HIDE DEF j
  <2>3. KeyFit(j)
    BY <1>1, <2>1, <2>2 DEF KeyFit, Handed, Handing, Reading
  <2> QED
    BY <2>1, <2>3, KeyMoves
<1>16. ASSUME RollBackEdit(e) PROVE KeyInv'
  <2> DEFINE j == Blank("done")
  <2>1. /\ ed' = [ed EXCEPT ![e] = j]
        /\ UNCHANGED keyVars /\ UNCHANGED <<at, fresh, got, made>>
    BY <1>16 DEF RollBackEdit
  <2>2. j.pc = "done" /\ ~j.folds /\ j.keys = {} /\ j.adopt = NoKey
    BY BlankFields DEF Blank
  <2> HIDE DEF j
  <2>3. KeyFit(j)
    BY <2>2, KeyStarts DEF Reading
  <2> QED
    BY <2>1, <2>3, KeyMoves
<1> HIDE DEF Advance
<1> QED
  BY <1>3, <1>4, <1>5, <1>6, <1>7, <1>8, <1>9, <1>10, <1>11, <1>12, <1>13, <1>14,
     <1>15, <1>16 DEF EditStepOf

\* What it hands on leads to its survivor; whom it surprises is raced.
LEMMA KeyCommits ==
  ASSUME TypeOK, IInv, ListInv, KeyInv, NEW e \in Editor, CommitEdit(e)
  PROVE  KeyInv'
<1> DEFINE r == ed[e]
           Led(k) == became[home[k]]
<1>1. /\ r \in Edit /\ Fit(e, r) /\ Clear(e, r) /\ ListFit(r) /\ KeyFit(r)
      /\ r.pc = "commit" /\ 0 \notin Id /\ NoKey \notin Key /\ live \subseteq Id
      /\ live' = (live \cup ({r.row} \ {0})) \ r.gone
      /\ key' = [b \in Id |-> IF b \in r.gone THEN NoKey
                              ELSE IF b = r.new /\ b \in live /\ r.adopt # NoKey
                                   THEN r.adopt ELSE key[b]]
      /\ alias' = [k \in Key |-> IF k \in r.keys THEN r.new
                                 ELSE IF alias[k] \in r.gone THEN 0 ELSE alias[k]]
      /\ ed' = [ed EXCEPT ![e] = Blank("done")]
      /\ IF r.folds
         THEN /\ became' = [b \in Id |-> IF became[b] \in r.gone THEN became[r.new]
                                                              ELSE became[b]]
              /\ home' = home
         ELSE /\ home' = [k \in Key |-> IF home[k] # 0 /\ Led(k) \in r.gone
                                        THEN 0 ELSE home[k]]
              /\ became' = became
      /\ at' = at /\ fresh' = fresh /\ got' = got /\ made' = made
  BY BottlingsAssumptions DEF TypeOK, IInv, ListInv, KeyInv, CommitEdit, persistVars, Id
<1>2. /\ r.gone \subseteq r.took /\ r.gone \subseteq Id /\ r.new \notin r.gone
      /\ Rows /\ (r.adopt # NoKey \/ r.keys # {} => r.folds)
      /\ r.folds => r.new \in r.wrote \ {r.row} /\ r.new \in Id
  <2>1. r.new \in {0} \cup Id /\ r.gone \subseteq Id
    BY <1>1 DEF Edit
  <2> QED
    BY <1>1, <2>1 DEF Fit, Shaped, IInv, ListFit, KeyFit
<1>3. r.gone \subseteq Touch(e) /\ (r.folds => r.new \in Touch(e))
  BY <1>2 DEF Touch
<1>4. /\ raced \subseteq raced'
      /\ \A k \in Key : home[k] # 0 /\ Led(k) \in MixedWith(e) => k \in raced'
      /\ \A p \in Persist : \A x \in Pending(p) :
           at[p] \in {"known", "identified"} /\ KeyOf[x] \in r.keys
             => KeyOf[x] \in raced'
  BY DEF CommitEdit
<1>5. ASSUME NEW k \in Key \ raced', home[k] # 0, NEW f \in Others(e),
             Led(k) \in Touch(e) \cup Touch(f)
      PROVE  Touch(e) \cap Touch(f) = {}
  BY <1>4, <1>5 DEF MixedWith
<1>6. \A k \in Key \ raced : home[k] # 0 => Led(k) \in Id /\ home[k] \in Id
  BY DEF TypeOK
<1>7. ASSUME NEW k \in Key \ raced'
      PROVE  /\ k \in Key \ raced
             /\ r.folds /\ home[k] # 0 /\ Led(k) \in r.gone
                  => k \in r.keys \cup {r.adopt}
             /\ k \in r.keys \cup {r.adopt}
                  => /\ home[k] # 0 /\ Led(k) \in r.gone
                     /\ r.new \in live /\ r.folds
             /\ r.adopt # NoKey => key[r.new] # k
  BY <1>1, <1>2, <1>4 DEF KeyFit, Handed, Handing
<1>8. ASSUME NEW k \in Key \ raced'
      PROVE  /\ home[k] = 0 => home'[k] = 0
             /\ home[k] # 0 /\ Led(k) \notin r.gone
                  => home'[k] = home[k] /\ became'[home[k]] = Led(k)
             /\ home[k] # 0 /\ Led(k) \in r.gone /\ r.folds
                  => home'[k] = home[k] /\ became'[home[k]] = r.new /\ r.new \in live
             /\ home[k] # 0 /\ Led(k) \in r.gone /\ ~r.folds => home'[k] = 0
  <2>1. k \in Key \ raced
    BY <1>7
  <2>2. CASE r.folds
    <3>1. ASSUME home[k] # 0, Led(k) \in r.gone
          PROVE  became'[home[k]] = r.new /\ r.new \in live
      <4>1. r.new \in live
        BY <1>7, <2>2, <3>1
      <4>2. became[r.new] = r.new
        BY <1>1, <1>2, <4>1 DEF Rows
      <4> QED
        BY <1>1, <1>6, <2>1, <2>2, <3>1, <4>1, <4>2
    <3>2. ASSUME home[k] # 0, Led(k) \notin r.gone PROVE became'[home[k]] = Led(k)
      BY <1>1, <1>6, <2>1, <2>2, <3>2
    <3> QED
      BY <1>1, <2>2, <3>1, <3>2
  <2>3. CASE ~r.folds
    BY <1>1, <2>1, <2>3
  <2> QED
    BY <2>2, <2>3
<1>9. KeyRows'
  <2>1. ASSUME NEW b \in Id, b \notin live' PROVE key'[b] = NoKey
    BY <1>1, <2>1 DEF KeyInv, KeyRows
  <2>2. ASSUME NEW k \in Key \ raced'
        PROVE  Resolve(k)' = IF home'[k] = 0 THEN {} ELSE {became'[home'[k]]}
    <3>1. /\ k \in Key \ raced
          /\ Resolve(k) = IF home[k] = 0 THEN {} ELSE {Led(k)}
          /\ \A b \in Id \ live : key[b] # k
      BY <1>1, <1>7 DEF KeyInv, KeyRows
    <3>2. Resolve(k)' = {b \in live' : key'[b] = k} \cup ({alias'[k]} \ {0})
      BY DEF Resolve
    <3>3. live' \subseteq Id /\ live' \cap r.gone = {}
      <4>1. r.row \in {0} \cup Id
        BY <1>1 DEF Edit
      <4> QED
        BY <1>1, <4>1
    <3>4. \A b \in live' : key'[b] = k
            => b \in Resolve(k) \/ (b = r.new /\ r.new \in live /\ k = r.adopt)
      BY <1>1, <3>1, <3>3 DEF Resolve
    <3>5. k \notin r.keys => alias'[k] \in {0} \cup (Resolve(k) \ r.gone)
      BY <1>1, <3>1 DEF Resolve
    <3>6. CASE k \in r.keys \cup {r.adopt}
      <4>1. /\ home[k] # 0 /\ Led(k) \in r.gone /\ r.folds /\ r.new \in live
            /\ home'[k] # 0 /\ became'[home'[k]] = r.new /\ r.new # 0
        BY <1>1, <1>7, <1>8, <3>6
      <4>2. Resolve(k)' \subseteq {r.new}
        BY <1>1, <3>1, <3>2, <3>3, <3>4, <3>5, <4>1
      <4>3. r.new \in Resolve(k)'
        <5>1. CASE k \in r.keys
          BY <1>1, <3>1, <3>2, <4>1, <5>1
        <5>2. CASE k = r.adopt
          <6>1. r.new \in live' /\ key'[r.new] = k
            BY <1>1, <1>2, <3>1, <4>1, <5>2
          <6> QED
            BY <3>2, <6>1
        <5> QED
          BY <3>6, <5>1, <5>2
      <4> QED
        BY <4>1, <4>2, <4>3
    <3>7. CASE k \notin r.keys \cup {r.adopt}
      <4>1. Resolve(k)' \subseteq Resolve(k) \ r.gone
        BY <3>2, <3>3, <3>4, <3>5, <3>7
      <4>2. ASSUME NEW c \in Resolve(k) \ r.gone PROVE c \in Resolve(k)'
        <5>1. CASE c \in live /\ key[c] = k
          <6>1. c \in live' /\ key'[c] = k
            BY <1>1, <1>7, <4>2, <5>1
          <6> QED
            BY <3>2, <6>1
        <5>2. CASE c = alias[k] /\ c # 0
          BY <1>1, <3>1, <3>2, <3>7, <4>2, <5>2
        <5> QED
          BY <4>2, <5>1, <5>2 DEF Resolve
      <4>3. Resolve(k)' = Resolve(k) \ r.gone
        BY <4>1, <4>2
      <4> QED
        BY <1>7, <1>8, <3>1, <3>7, <4>3
    <3> QED
      BY <3>6, <3>7
  <2> QED
    BY <2>1, <2>2 DEF KeyRows
<1>10. KeyMakes'
  <2>1. \A p \in Persist, k \in Key : IsMaking(p, k)' <=> IsMaking(p, k)
    BY <1>1 DEF IsMaking
  <2>2. ASSUME NEW p \in Persist, at[p] \in {"known", "identified"},
               NEW x \in Pending(p), KeyOf[x] \notin raced'
        PROVE  alias'[KeyOf[x]] = 0
    <3>1. KeyOf[x] \in Key
      BY BottlingsAssumptions DEF Pending, TypeOK
    <3>2. alias[KeyOf[x]] = 0 /\ KeyOf[x] \notin r.keys
      BY <1>4, <2>2, <3>1 DEF KeyInv, KeyMakes
    <3> QED
      BY <1>1, <1>2, <3>1, <3>2
  <2>3. \A p \in Persist : Pending(p)' = Pending(p)
    BY <1>1 DEF Pending
  <2>4. \A p \in Persist : \A k \in Key \ raced' : IsMaking(p, k)' => home'[k] = 0
    BY <1>7, <1>8, <2>1 DEF KeyInv, KeyMakes
  <2>5. KeyMakes!1' /\ KeyMakes!2' /\ KeyMakes!3'
    BY <1>1, <2>1 DEF KeyInv, KeyMakes
  <2>6. KeyMakes!5'
    BY <1>1, <2>2, <2>3
  <2> QED
    BY <2>4, <2>5, <2>6 DEF KeyMakes
<1>11. ASSUME NEW f \in Others(e) PROVE KeyFit(ed[f])'
  <2> DEFINE q == ed[f]
  <2>1. /\ f \in Editor /\ ed'[f] = q /\ q \in Edit
        /\ KeyFit(q) /\ ListFit(q) /\ Shaped(q)
        /\ r.took \cap (q.took \cup q.wrote) = {}
    BY <1>1 DEF Others, TypeOK, ListInv, KeyInv, IInv, Fit, Clear
  <2>2. /\ Handed(q) \subseteq Handing(q) /\ Handing(q) \subseteq Touch(f)
        /\ q.pc \in Reading => q.old \in Touch(f) /\ q.new \in Touch(f)
                                 /\ q.old \in Id /\ q.new \in Id
    <3>1. Handed(q) \subseteq Handing(q) /\ Handing(q) \subseteq Touch(f)
      BY DEF Handed, Handing, Touch
    <3>2. ASSUME q.pc \in Reading
          PROVE  q.old \in Touch(f) /\ q.new \in Touch(f) /\ q.old \in Id /\ q.new \in Id
      <4>1. q.folds /\ q.old # 0 /\ q.new # 0
        BY <2>1, <3>2 DEF Shaped, Merging, Reading
      <4>2. q.old \in Id /\ q.new \in Id
        BY <2>1, <4>1 DEF Edit
      <4>3. q.pc = "facts" \/ q.new \in q.wrote \ {q.row}
        BY <2>1, <3>2, <4>1 DEF ListFit, Reading
      <4> QED
        BY <3>2, <4>2, <4>3 DEF Touch, Reading
    <3> QED
      BY <3>1, <3>2
  <2> HIDE DEF q
  <2>3. ASSUME NEW k \in Key \ raced', home[k] # 0, Led(k) \in r.gone
        PROVE  r.gone \cap Touch(f) = {} /\ (r.folds => r.new \notin Touch(f))
    BY <1>3, <1>5, <2>3
  <2>4. ASSUME NEW k \in Key \ raced', home[k] # 0, Led(k) \in Touch(f)
        PROVE  r.gone \cap Touch(f) = {} /\ (r.folds => r.new \notin Touch(f))
    BY <1>3, <1>5, <2>4
  <2>5. ASSUME NEW k \in Key \ raced',
               q.folds, home'[k] # 0, became'[home'[k]] \in Handed(q)
        PROVE  k \in q.keys \cup {q.adopt}
    <3>1. k \in Key \ raced /\ home[k] # 0
      BY <1>7, <1>8, <2>5
    <3>2. Led(k) \notin r.gone
      BY <1>8, <2>2, <2>3, <2>5, <3>1
    <3> QED
      BY <1>8, <2>1, <2>5, <3>1, <3>2 DEF KeyFit
  <2>6. ASSUME NEW k \in Key \ raced', k \in q.keys \cup {q.adopt}
        PROVE  /\ home'[k] # 0 /\ became'[home'[k]] \in Handing(q)
               /\ q.new \in live' /\ q.new \in q.wrote
    <3>1. /\ home[k] # 0 /\ Led(k) \in Handing(q)
          /\ q.new \in live /\ q.new \in q.wrote
      BY <1>7, <2>1, <2>6 DEF KeyFit
    <3>2. Led(k) \notin r.gone
      BY <2>2, <2>3, <3>1
    <3> QED
      BY <1>1, <1>2, <1>8, <2>1, <3>1, <3>2
  <2>7. ASSUME NEW k \in Key \ raced', q.adopt # NoKey PROVE key'[q.new] # k
    <3>1. q.new \in q.took /\ key[q.new] # k
      BY <1>7, <2>1, <2>7 DEF KeyFit
    <3>2. q.new \in Id /\ q.new \notin r.took
      BY <2>1, <3>1 DEF Edit
    <3>3. r.adopt # NoKey => r.new \in r.took
      BY <1>1 DEF KeyFit
    <3> QED
      BY <1>1, <1>2, <3>1, <3>2, <3>3
  <2>8. ASSUME NEW k \in Key \ raced', q.pc \in Reading
        PROVE  /\ q.oldKey = k <=> key'[q.old] = k
               /\ q.newKey = NoKey => q.adopt = NoKey /\ key'[q.new] # k
               /\ q.new \notin live' /\ home'[k] # 0 => became'[home'[k]] # q.old
    <3>1. /\ k \in Key \ raced
          /\ q.oldKey = k <=> key[q.old] = k
          /\ q.newKey = NoKey => q.adopt = NoKey /\ key[q.new] # k
          /\ q.new \notin live /\ home[k] # 0 => Led(k) # q.old
      BY <1>7, <2>1, <2>8 DEF KeyFit
    <3>2. /\ q.old \in Touch(f) /\ q.new \in Touch(f) /\ q.old \in Id /\ q.new \in Id
      BY <2>2, <2>8
    <3>3. key[q.old] = k => home[k] # 0 /\ Led(k) = q.old
      <4> SUFFICES ASSUME key[q.old] = k PROVE home[k] # 0 /\ Led(k) = q.old
        OBVIOUS
      <4>1. q.old \in live
        BY <1>1, <3>1, <3>2 DEF KeyInv, KeyRows
      <4>2. q.old \in Resolve(k)
        BY <4>1 DEF Resolve
      <4> QED
        BY <3>1, <4>2 DEF KeyInv, KeyRows
    <3>4. k = r.adopt => home[k] # 0 /\ Led(k) \in r.gone /\ r.folds
      BY <1>7
    <3>5. key[q.old] = k => key'[q.old] = k
      BY <1>1, <1>2, <2>4, <3>2, <3>3
    <3>6. key'[q.old] = k => key[q.old] = k
      BY <1>1, <2>3, <3>1, <3>2, <3>4
    <3>7. key'[q.new] = k => key[q.new] = k
      BY <1>1, <2>3, <3>1, <3>2, <3>4
    <3>8. ASSUME q.new \notin live', home'[k] # 0, became'[home'[k]] = q.old
          PROVE  FALSE
      <4>1. home[k] # 0
        BY <1>8, <3>8
      <4>2. Led(k) \notin r.gone
        BY <1>8, <2>3, <3>2, <3>8, <4>1
      <4>3. Led(k) = q.old
        BY <1>8, <3>8, <4>1, <4>2
      <4>4. q.new \in live /\ q.new \notin r.gone
        BY <2>4, <3>1, <3>2, <4>1, <4>3
      <4> QED
        BY <1>1, <3>8, <4>4
    <3> QED
      BY <3>1, <3>5, <3>6, <3>7, <3>8
  <2>9. ASSUME NEW k \in Key \ raced', q.pc = "key", alias'[k] = q.old
        PROVE  k \in q.keys
    <3>1. q.old \in Touch(f) /\ q.old # 0
      BY <1>1, <2>2, <2>9 DEF Reading
    <3>2. k \notin r.keys
      BY <1>1, <1>7, <2>3, <2>9, <3>1
    <3>3. alias[k] = q.old
      BY <1>1, <2>9, <3>1, <3>2
    <3> QED
      BY <1>7, <2>1, <2>9, <3>3 DEF KeyFit
  <2>10. /\ ~q.folds => q.keys = {} /\ q.adopt = NoKey
         /\ q.adopt # NoKey => q.new \in q.took
    BY <2>1 DEF KeyFit
  <2> HIDE DEF Led, r
  <2> QED
    BY <2>1, <2>5, <2>6, <2>7, <2>8, <2>9, <2>10 DEF KeyFit, Handed, Handing
<1>12. KeyFit(ed[e])'
  <2>1. ed'[e] = Blank("done")
    BY <1>1 DEF TypeOK
  <2>2. /\ Blank("done").pc = "done" /\ ~Blank("done").folds
        /\ Blank("done").keys = {} /\ Blank("done").adopt = NoKey
    BY DEF Blank
  <2> HIDE DEF r, Led
  <2> QED
    BY <1>1, <2>1, <2>2 DEF KeyFit, Reading
<1> QED
  BY <1>9, <1>10, <1>11, <1>12 DEF KeyInv, Others

-----------------------------------------------------------------------------
(* Persists' steps *)

\* A step of a persist that commits nothing.
LEMMA KeyPersistMoves ==
  ASSUME TypeOK, KeyInv, NEW p \in Persist, UNCHANGED keyVars, ed' = ed,
         \A q \in Persist \ {p} : /\ at'[q] = at[q] /\ fresh'[q] = fresh[q]
                                  /\ got'[q] = got[q] /\ made'[q] = made[q],
         made'[p] \subseteq fresh'[p], fresh'[p] \subseteq Batch[p],
         \A x, y \in made'[p] : x # y => got'[p][x] # got'[p][y],
         \A k \in Key : IsMaking(p, k)' =>
           /\ \A q \in Persist \ {p} : ~IsMaking(q, k)
           /\ k \notin raced => home[k] = 0,
         at'[p] \in {"known", "identified"} =>
           \A x \in Pending(p)' : KeyOf[x] \notin raced => alias[KeyOf[x]] = 0
  PROVE  KeyInv'
<1>1. UNCHANGED <<live, key, alias, home, became, raced>>
  BY DEF keyVars
<1>2. KeyRows'
  BY <1>1 DEF KeyInv, KeyRows, Resolve
<1>3. ASSUME NEW e \in Editor PROVE KeyFit(ed[e])'
  <2> DEFINE j == ed[e]
  <2>1. KeyFit(j) /\ ed'[e] = j
    BY DEF KeyInv
  <2> HIDE DEF j
  <2> QED
    BY <1>1, <2>1 DEF KeyFit, Handed, Handing
<1>4. \A q \in Persist \ {p}, k \in Key : IsMaking(q, k)' <=> IsMaking(q, k)
  BY DEF IsMaking
<1>5. \A q \in Persist \ {p} : Pending(q)' = Pending(q)
  BY DEF Pending
<1>6. /\ \A q \in Persist : made'[q] \subseteq fresh'[q] /\ fresh'[q] \subseteq Batch[q]
      /\ \A q \in Persist : \A x, y \in made'[q] : x # y => got'[q][x] # got'[q][y]
  <2>1. ASSUME NEW q \in Persist
        PROVE  /\ made'[q] \subseteq fresh'[q] /\ fresh'[q] \subseteq Batch[q]
               /\ \A x, y \in made'[q] : x # y => got'[q][x] # got'[q][y]
    <3>1. CASE q = p
      BY <3>1
    <3>2. CASE q # p
      BY <3>2 DEF KeyInv, KeyMakes
    <3> QED
      BY <3>1, <3>2
  <2> QED
    BY <2>1
<1>7. \A a, b \in Persist : \A k \in Key : IsMaking(a, k)' /\ IsMaking(b, k)' => a = b
  <2> SUFFICES ASSUME NEW a \in Persist, NEW b \in Persist, NEW k \in Key,
                      IsMaking(a, k)', IsMaking(b, k)'
               PROVE  a = b
    OBVIOUS
  <2> QED
    BY <1>4 DEF KeyInv, KeyMakes
<1>8. \A q \in Persist, k \in Key \ raced' : IsMaking(q, k)' => home'[k] = 0
  BY <1>1, <1>4 DEF KeyInv, KeyMakes
<1>9. \A q \in Persist : at'[q] \in {"known", "identified"} =>
        \A x \in Pending(q)' : KeyOf[x] \notin raced' => alias'[KeyOf[x]] = 0
  <2>1. ASSUME NEW q \in Persist, at'[q] \in {"known", "identified"},
               NEW x \in Pending(q)', KeyOf[x] \notin raced'
        PROVE  alias'[KeyOf[x]] = 0
    <3>1. CASE q = p
      BY <1>1, <2>1, <3>1
    <3>2. CASE q # p
      BY <1>1, <1>5, <2>1, <3>2 DEF KeyInv, KeyMakes
    <3> QED
      BY <3>1, <3>2
  <2> QED
    BY <2>1
<1>10. KeyMakes'
  BY <1>6, <1>7, <1>8, <1>9 DEF KeyMakes
<1> QED
  BY <1>2, <1>3, <1>10 DEF KeyInv

LEMMA KeyPersists ==
  ASSUME TypeOK, IInv, KeyInv, NEW p \in Persist, PersistStepOf(p), ~CommitPersist(p)
  PROVE  KeyInv'
<1> USE DEF dataVars, histVars, keyVars
<1>1. /\ KeyMakes /\ Makes /\ 0 \notin Id /\ live \subseteq Id /\ NoKey \notin Key
      /\ fresh[p] \subseteq Sku /\ made[p] \subseteq fresh[p] /\ fresh[p] \subseteq Batch[p]
      /\ Batch[p] \subseteq Sku
      /\ \A x \in Sku : KeyOf[x] # NoKey => KeyOf[x] \in Key
  BY BottlingsAssumptions DEF KeyInv, KeyMakes, IInv, TypeOK, Id
<1>2. at[p] \notin {"created", "linked"} => made[p] = {}
  BY <1>1 DEF Makes
<1>3. /\ \A k \in Key : IsMaking(p, k) => /\ \A q \in Persist \ {p} : ~IsMaking(q, k)
                                          /\ k \notin raced => home[k] = 0
      /\ \A x, y \in made[p] : x # y => got[p][x] # got[p][y]
  BY <1>1 DEF KeyMakes
<1>4. CASE LookUp(p)
  <2> DEFINE new == {x \in Batch[p] : offer[x] = 0}
  <2>1. PICK f \in [Sku -> {0} \cup live] :
          /\ \A x \in Sku : IF x \in new /\ KeyOf[x] # NoKey /\ Resolve(KeyOf[x]) # {}
                            THEN f[x] \in Resolve(KeyOf[x]) ELSE f[x] = 0
          /\ got' = [got EXCEPT ![p] = f]
    BY <1>4 DEF LookUp
  <2>2. /\ fresh'[p] = new /\ made' = made /\ made[p] = {} /\ got'[p] = f
        /\ \A q \in Persist \ {p} : /\ at'[q] = at[q] /\ fresh'[q] = fresh[q]
                                    /\ got'[q] = got[q]
        /\ UNCHANGED keyVars /\ ed' = ed
    BY <1>2, <1>4, <2>1 DEF LookUp, TypeOK
  <2>3. ASSUME NEW x \in Pending(p)' PROVE alias[KeyOf[x]] = 0
    <3>1. x \in new /\ KeyOf[x] # NoKey /\ f[x] = 0 /\ x \in Sku /\ KeyOf[x] \in Key
      BY <1>1, <2>2 DEF Pending
    <3>2. 0 \notin Resolve(KeyOf[x])
      BY <1>1 DEF Resolve
    <3>3. Resolve(KeyOf[x]) = {}
      BY <2>1, <3>1, <3>2
    <3> QED
      BY <3>3 DEF Resolve
  <2>4. \A k \in Key : ~IsMaking(p, k)'
    BY <2>2 DEF IsMaking
  <2> QED
    BY <2>2, <2>3, <2>4, KeyPersistMoves
<1>5. CASE Identify(p)
  <2>1. PICK f \in [Pending(p) -> {0} \cup live] :
          got' = [got EXCEPT ![p] = [x \in Sku |-> IF x \in Pending(p) THEN f[x]
                                                   ELSE got[p][x]]]
    BY <1>5 DEF Identify
  <2>2. /\ fresh' = fresh /\ made' = made /\ made[p] = {} /\ at[p] = "known"
        /\ got'[p] = [x \in Sku |-> IF x \in Pending(p) THEN f[x] ELSE got[p][x]]
        /\ \A q \in Persist \ {p} : at'[q] = at[q] /\ got'[q] = got[q]
        /\ UNCHANGED keyVars /\ ed' = ed
    BY <1>2, <1>5, <2>1 DEF Identify, TypeOK
  <2>3. Pending(p)' \subseteq Pending(p)
    <3> SUFFICES ASSUME NEW x \in Pending(p)', x \notin Pending(p) PROVE FALSE
      OBVIOUS
    <3>1. x \in fresh[p] /\ KeyOf[x] # NoKey /\ got'[p][x] = 0 /\ x \in Sku
      BY <1>1, <2>2 DEF Pending
    <3>2. got'[p][x] = got[p][x]
      BY <2>2, <3>1
    <3> QED
      BY <3>1, <3>2 DEF Pending
  <2>4. \A k \in Key : ~IsMaking(p, k)'
    BY <2>2 DEF IsMaking
  <2> QED
    BY <1>1, <2>2, <2>3, <2>4, KeyPersistMoves DEF KeyMakes
<1>6. CASE Create(p)
  <2> DEFINE found == {x \in Pending(p) : \E b \in live : key[b] = KeyOf[x]}
             new == {x \in fresh[p] : got[p][x] = 0} \ found
  <2>1. PICK f \in [new -> (top + 1)..(top + Cardinality(new))] :
          /\ \A x, y \in new : x # y => f[x] # f[y]
          /\ got' = [got EXCEPT ![p] =
                       [x \in Sku |->
                          IF x \in new THEN f[x]
                          ELSE IF x \in found
                               THEN CHOOSE b \in live : key[b] = KeyOf[x]
                               ELSE got[p][x]]]
    BY <1>6 DEF Create
  <2>2. /\ fresh' = fresh /\ made'[p] = new /\ at[p] = "identified"
        /\ at'[p] = "created" /\ new \subseteq fresh[p] /\ new \subseteq Sku
        /\ \A x \in new : got'[p][x] = f[x]
        /\ \A q \in Persist \ {p} : /\ at'[q] = at[q] /\ got'[q] = got[q]
                                    /\ made'[q] = made[q]
        /\ \A x \in Pending(p) : \A q \in Persist \ {p} : ~IsMaking(q, KeyOf[x])
        /\ UNCHANGED keyVars /\ ed' = ed
    <3>1. new \subseteq fresh[p] /\ new \subseteq Sku
      BY <1>1
    <3>2. got'[p] = [x \in Sku |-> IF x \in new THEN f[x]
                                   ELSE IF x \in found
                                        THEN CHOOSE b \in live : key[b] = KeyOf[x]
                                        ELSE got[p][x]]
      BY <2>1 DEF TypeOK
    <3>3. \A x \in new : got'[p][x] = f[x]
      BY <3>1, <3>2
    <3>4. /\ fresh' = fresh /\ made'[p] = new /\ at[p] = "identified"
          /\ at'[p] = "created"
          /\ \A q \in Persist \ {p} : at'[q] = at[q] /\ made'[q] = made[q]
          /\ \A x \in Pending(p) : \A q \in Persist \ {p} : ~IsMaking(q, KeyOf[x])
          /\ UNCHANGED keyVars /\ ed' = ed
      BY <1>6 DEF Create, TypeOK
    <3>5. \A q \in Persist \ {p} : got'[q] = got[q]
      BY <2>1 DEF TypeOK
    <3> HIDE DEF new, found
    <3> QED
      BY <3>1, <3>3, <3>4, <3>5
  <2>3. \A x \in new : KeyOf[x] # NoKey
          => x \in Pending(p) /\ \A b \in live : key[b] # KeyOf[x]
    BY DEF Pending
  <2> HIDE DEF new, found
  <2>4. ASSUME NEW k \in Key, IsMaking(p, k)'
        PROVE  /\ \A q \in Persist \ {p} : ~IsMaking(q, k)
               /\ k \notin raced => home[k] = 0
    <3>1. PICK x \in new : KeyOf[x] = k
      BY <2>2, <2>4 DEF IsMaking
    <3>2. x \in Pending(p) /\ \A b \in live : key[b] # k
      BY <1>1, <2>3, <3>1
    <3>3. k \notin raced => alias[k] = 0
      BY <1>1, <2>2, <3>1, <3>2 DEF KeyMakes
    <3>4. k \notin raced => Resolve(k) = {}
      BY <3>2, <3>3 DEF Resolve
    <3> QED
      BY <2>2, <3>1, <3>2, <3>4 DEF KeyInv, KeyRows
  <2>5. \A x, y \in new : x # y => got'[p][x] # got'[p][y]
    BY <2>1, <2>2
  <2> QED
    BY <1>1, <2>2, <2>4, <2>5, KeyPersistMoves
<1>7. CASE Link(p)
  <2>1. /\ fresh' = fresh /\ made' = made /\ got' = got /\ at'[p] = "linked"
        /\ \A q \in Persist \ {p} : at'[q] = at[q]
        /\ UNCHANGED keyVars /\ ed' = ed
    BY <1>7 DEF Link, TypeOK
  <2>2. \A k \in Key : IsMaking(p, k)' <=> IsMaking(p, k)
    BY <2>1 DEF IsMaking
  <2> QED
    BY <1>1, <1>3, <2>1, <2>2, KeyPersistMoves
<1>8. CASE RollBackPersist(p)
  <2>1. /\ fresh'[p] = {} /\ made'[p] = {} /\ at'[p] = "done"
        /\ \A q \in Persist \ {p} : /\ at'[q] = at[q] /\ fresh'[q] = fresh[q]
                                    /\ got'[q] = got[q] /\ made'[q] = made[q]
        /\ UNCHANGED keyVars /\ ed' = ed
    BY <1>8 DEF RollBackPersist, EndPersist, TypeOK
  <2>2. \A k \in Key : ~IsMaking(p, k)'
    BY <2>1 DEF IsMaking
  <2> QED
    BY <2>1, <2>2, KeyPersistMoves
<1> QED
  BY <1>4, <1>5, <1>6, <1>7, <1>8 DEF PersistStepOf

\* What a persist makes for a key is where the key leads from then on.
LEMMA KeyCommitPersist ==
  ASSUME TypeOK, IInv, KeyInv, NEW p \in Persist, CommitPersist(p)
  PROVE  KeyInv'
<1> DEFINE rows == {got[p][x] : x \in made[p]}
           MadeFor(b) == CHOOSE x \in made[p] : got[p][x] = b
           For(k) == CHOOSE x \in made[p] : KeyOf[x] = k
<1>1. /\ KeyMakes /\ KeyRows /\ Makes /\ Rows /\ 0 \notin Id /\ live \subseteq Id
      /\ NoKey \notin Key /\ 1..top \subseteq Id
      /\ made[p] \subseteq Batch[p] /\ made[p] \subseteq Sku
      /\ \A x, y \in made[p] : x # y => KeyOf[x] = NoKey \/ KeyOf[x] # KeyOf[y]
      /\ \A x, y \in made[p] : x # y => got[p][x] # got[p][y]
  BY BottlingsAssumptions DEF KeyInv, KeyMakes, IInv, TypeOK, Id
<1>2. /\ live' = live \cup rows
      /\ key' = [b \in Id |-> IF b \in rows THEN KeyOf[MadeFor(b)] ELSE key[b]]
      /\ home' = [k \in Key |-> IF home[k] = 0 /\ IsMaking(p, k)
                                THEN got[p][For(k)] ELSE home[k]]
      /\ alias' = alias /\ became' = became /\ raced' = raced /\ ed' = ed
      /\ at'[p] = "done" /\ made'[p] = {} /\ fresh'[p] = {}
      /\ \A q \in Persist \ {p} : /\ at'[q] = at[q] /\ fresh'[q] = fresh[q]
                                  /\ got'[q] = got[q] /\ made'[q] = made[q]
  BY DEF CommitPersist, EndPersist, TypeOK
<1>3. \A x \in made[p] : /\ got[p][x] \in Id \ live /\ became[got[p][x]] = got[p][x]
                         /\ got[p][x] \in live' /\ key'[got[p][x]] = KeyOf[x]
                         /\ KeyOf[x] # NoKey => For(KeyOf[x]) = x
  <2> SUFFICES ASSUME NEW x \in made[p]
               PROVE  /\ got[p][x] \in Id \ live /\ became[got[p][x]] = got[p][x]
                      /\ got[p][x] \in live' /\ key'[got[p][x]] = KeyOf[x]
                      /\ KeyOf[x] # NoKey => For(KeyOf[x]) = x
    OBVIOUS
  <2>1. /\ got[p][x] \in Id \ live /\ became[got[p][x]] = got[p][x]
        /\ got[p][x] \in rows
    BY <1>1 DEF Makes
  <2>2. MadeFor(got[p][x]) = x
    BY <1>1
  <2>3. KeyOf[x] # NoKey => For(KeyOf[x]) = x
    BY <1>1
  <2> HIDE DEF rows, MadeFor, For
  <2> QED
    BY <1>2, <2>1, <2>2, <2>3
<1>4. \A b \in rows : \E x \in made[p] : b = got[p][x]
  OBVIOUS
<1>5. \A b \in Id \ rows : key'[b] = key[b]
  <2> HIDE DEF rows, MadeFor, For
  <2> QED
    BY <1>2
<1>6. ASSUME NEW k \in Key, IsMaking(p, k)
      PROVE  \E x \in made[p] : /\ KeyOf[x] = k /\ For(k) = x
                                /\ home[k] = 0 => home'[k] = got[p][x]
  <2>1. PICK x \in made[p] : KeyOf[x] = k
    BY <1>6 DEF IsMaking
  <2>2. For(k) = x
    BY <1>1, <1>3, <2>1
  <2> HIDE DEF For
  <2> QED
    BY <1>2, <1>6, <2>1, <2>2
<1>7. \A k \in Key : home[k] # 0 \/ ~IsMaking(p, k) => home'[k] = home[k]
  <2> HIDE DEF For
  <2> QED
    BY <1>2
<1> HIDE DEF rows, MadeFor, For
<1>8. KeyRows'
  <2>1. ASSUME NEW b \in Id, b \notin live' PROVE key'[b] = NoKey
    BY <1>1, <1>2, <1>5, <2>1 DEF KeyRows
  <2>2. ASSUME NEW k \in Key \ raced'
        PROVE  Resolve(k)' = IF home'[k] = 0 THEN {} ELSE {became'[home'[k]]}
    <3>1. Resolve(k) = IF home[k] = 0 THEN {} ELSE {became[home[k]]}
      BY <1>1, <1>2 DEF KeyRows
    <3>2. Resolve(k)' = {b \in live' : key'[b] = k} \cup ({alias[k]} \ {0})
      BY <1>2 DEF Resolve
    <3>3. {b \in live' : key'[b] = k}
            = {b \in live : key[b] = k} \cup {b \in rows : key'[b] = k}
      <4>1. \A b \in live : b \notin rows /\ key'[b] = key[b]
        BY <1>1, <1>3, <1>4, <1>5
      <4> QED
        BY <1>2, <4>1
    <3>4. Resolve(k)' = Resolve(k) \cup {b \in rows : key'[b] = k}
      BY <3>2, <3>3 DEF Resolve
    <3>5. CASE IsMaking(p, k)
      <4>1. PICK x \in made[p] : /\ KeyOf[x] = k /\ For(k) = x
                                 /\ home[k] = 0 => home'[k] = got[p][x]
        BY <1>6, <3>5
      <4>2. home[k] = 0
        BY <1>1, <1>2, <3>5 DEF KeyMakes
      <4>3. got[p][x] \in rows
        BY <4>1 DEF rows
      <4>4. \A b \in rows : key'[b] = k <=> b = got[p][x]
        <5> SUFFICES ASSUME NEW b \in rows PROVE key'[b] = k <=> b = got[p][x]
          OBVIOUS
        <5>1. PICK y \in made[p] : b = got[p][y]
          BY <1>4
        <5>2. key'[b] = KeyOf[y]
          BY <1>3, <5>1
        <5> QED
          BY <1>1, <4>1, <5>1, <5>2
      <4>5. {b \in rows : key'[b] = k} = {got[p][x]}
        BY <4>3, <4>4
      <4> QED
        BY <1>1, <1>2, <1>3, <3>1, <3>4, <4>1, <4>2, <4>5
    <3>6. CASE ~IsMaking(p, k)
      <4>1. {b \in rows : key'[b] = k} = {}
        BY <1>3, <1>4, <3>6 DEF IsMaking
      <4> QED
        BY <1>2, <1>7, <3>1, <3>4, <3>6, <4>1
    <3> QED
      BY <3>5, <3>6
  <2> QED
    BY <2>1, <2>2 DEF KeyRows
<1>9. KeyMakes'
  <2>1. \A q \in Persist \ {p}, k \in Key : IsMaking(q, k)' <=> IsMaking(q, k)
    BY <1>2 DEF IsMaking
  <2>2. \A k \in Key : ~IsMaking(p, k)'
    BY <1>2 DEF IsMaking
  <2>3. \A q \in Persist \ {p} : Pending(q)' = Pending(q)
    BY <1>2 DEF Pending
  <2>4. \A q \in Persist : made'[q] \subseteq fresh'[q] /\ fresh'[q] \subseteq Batch[q]
    BY <1>1, <1>2 DEF KeyMakes
  <2>5. ASSUME NEW q \in Persist, NEW x \in made'[q], NEW y \in made'[q], x # y
        PROVE  got'[q][x] # got'[q][y]
    <3>1. q # p
      BY <1>2
    <3> QED
      BY <1>1, <1>2, <2>5, <3>1 DEF KeyMakes
  <2>6. \A a, b \in Persist : \A k \in Key : IsMaking(a, k)' /\ IsMaking(b, k)' => a = b
    <3> SUFFICES ASSUME NEW a \in Persist, NEW b \in Persist, NEW k \in Key,
                        IsMaking(a, k)', IsMaking(b, k)'
                 PROVE  a = b
      OBVIOUS
    <3>1. a # p /\ b # p
      BY <2>2
    <3> QED
      BY <1>1, <2>1, <3>1 DEF KeyMakes
  <2>7. ASSUME NEW q \in Persist, NEW k \in Key \ raced', IsMaking(q, k)'
        PROVE  home'[k] = 0
    <3>1. q # p
      BY <2>2, <2>7
    <3>2. home[k] = 0 /\ ~IsMaking(p, k)
      BY <1>1, <1>2, <2>1, <2>7, <3>1 DEF KeyMakes
    <3> QED
      BY <1>7, <3>2
  <2>8. ASSUME NEW q \in Persist, at'[q] \in {"known", "identified"},
               NEW x \in Pending(q)', KeyOf[x] \notin raced'
        PROVE  alias'[KeyOf[x]] = 0
    <3>1. q # p
      BY <1>2, <2>8
    <3> QED
      BY <1>1, <1>2, <2>3, <2>8, <3>1 DEF KeyMakes
  <2> QED
    BY <2>4, <2>5, <2>6, <2>7, <2>8 DEF KeyMakes
<1>10. ASSUME NEW e \in Editor PROVE KeyFit(ed[e])'
  <2> DEFINE j == ed[e]
  <2>1. /\ KeyFit(j) /\ Shaped(j) /\ j \in Edit /\ ed'[e] = j
        /\ Named(j) \cap rows = {}
    BY <1>2, <1>4 DEF KeyInv, IInv, Fit, Clear, TypeOK
  <2> HIDE DEF j
  <2>2. /\ Handed(j) \subseteq Named(j) /\ Handing(j) \subseteq Named(j)
        /\ j.took \subseteq Named(j) /\ j.new \in Named(j) /\ j.old \in Named(j)
    BY <2>1 DEF Handed, Handing, Named, Shaped
  <2>3. /\ j.adopt # NoKey => j.new \in Id
        /\ j.pc \in Reading => j.old \in Id /\ j.new \in Id
    <3>1. j.old \in {0} \cup Id /\ j.new \in {0} \cup Id /\ j.took \subseteq Id
      BY <2>1 DEF Edit
    <3>2. j.adopt # NoKey => j.new \in j.took
      BY <2>1 DEF KeyFit
    <3>3. j.pc \in Reading => j.old # 0 /\ j.new # 0
      BY <2>1 DEF Shaped, Reading, Merging
    <3> QED
      BY <3>1, <3>2, <3>3
  <2>4. ASSUME NEW k \in Key \ raced, home'[k] # 0, became[home'[k]] \in Named(j)
        PROVE  home[k] # 0 /\ home'[k] = home[k]
    <3>1. CASE home[k] = 0 /\ IsMaking(p, k)
      <4>1. PICK x \in made[p] : home'[k] = got[p][x]
        BY <1>6, <3>1
      <4>2. became[home'[k]] \in rows
        BY <1>3, <4>1 DEF rows
      <4> QED
        BY <2>1, <2>4, <4>2
    <3>2. CASE ~(home[k] = 0 /\ IsMaking(p, k))
      BY <1>7, <2>4, <3>2
    <3> QED
      BY <3>1, <3>2
  <2>5. \A k \in Key : home[k] # 0 => home'[k] = home[k]
    BY <1>7
  <2>6. /\ j.adopt # NoKey => key'[j.new] = key[j.new]
        /\ j.pc \in Reading => key'[j.old] = key[j.old] /\ key'[j.new] = key[j.new]
    BY <1>5, <2>1, <2>2, <2>3
  <2> QED
    BY <1>2, <2>1, <2>2, <2>4, <2>5, <2>6 DEF KeyFit, Handed, Handing
<1> QED
  BY <1>8, <1>9, <1>10 DEF KeyInv

-----------------------------------------------------------------------------
LEMMA KeyNext == TypeOK /\ IInv /\ ListInv /\ KeyInv /\ [Next]_vars => KeyInv'
<1> SUFFICES ASSUME TypeOK, IInv, ListInv, KeyInv, [Next]_vars PROVE KeyInv'
  OBVIOUS
<1>1. ASSUME UNCHANGED <<live, key, alias, home, became, raced, at, fresh, got, made, ed>>
      PROVE  KeyInv'
  <2>1. KeyRows'
    BY <1>1 DEF KeyInv, KeyRows, Resolve
  <2>2. KeyMakes'
    BY <1>1 DEF KeyInv, KeyMakes, IsMaking, Pending
  <2>3. ASSUME NEW e \in Editor PROVE KeyFit(ed[e])'
    <3> DEFINE j == ed[e]
    <3>1. KeyFit(j) /\ ed'[e] = j
      BY <1>1 DEF KeyInv
    <3> HIDE DEF j
    <3> QED
      BY <1>1, <3>1 DEF KeyFit, Handed, Handing
  <2> QED
    BY <2>1, <2>2, <2>3 DEF KeyInv
<1>2. ASSUME NEW p \in Persist, PersistStepOf(p) PROVE KeyInv'
  BY <1>2, KeyPersists, KeyCommitPersist
<1>3. ASSUME NEW e \in Editor, EditStepOf(e) PROVE KeyInv'
  BY <1>3, KeyEdits, KeyCommits
<1>4. ASSUME NEW u \in User, NEW b \in Id, Favor(u, b) PROVE KeyInv'
  BY <1>1, <1>4 DEF Favor, persistVars
<1>5. CASE Finished \/ UNCHANGED vars
  BY <1>1, <1>5 DEF Finished, vars, dataVars, persistVars, histVars
<1> QED
  BY <1>2, <1>3, <1>4, <1>5 DEF Next

LEMMA KeyStart == Init => KeyInv
<1> SUFFICES ASSUME Init PROVE KeyInv
  OBVIOUS
<1>1. /\ 0 \notin Id /\ NoKey \notin Key /\ 1..Start \subseteq Id
      /\ \A b \in Id \ 1..Start : key[b] = NoKey
      /\ \A b, c \in Id : b # c => key[b] = NoKey \/ key[b] # key[c]
  BY BottlingsAssumptions DEF Init, Id
<1>2. ASSUME NEW k \in Key
      PROVE  Resolve(k) = IF home[k] = 0 THEN {} ELSE {became[home[k]]}
  <2>1. Resolve(k) = {b \in 1..Start : key[b] = k}
    BY <1>2 DEF Init, Resolve
  <2>2. CASE \E b \in Id : key[b] = k
    <3>1. PICK b \in Id : key[b] = k
      BY <2>2
    <3>2. \A c \in Id : key[c] = k <=> c = b
      BY <1>1, <3>1
    <3>3. home[k] = b
      BY <3>1, <3>2 DEF Init
    <3>4. became[b] = b /\ b \in 1..Start
      BY <1>1, <3>1 DEF Init
    <3>5. \A c \in 1..Start : key[c] = k <=> c = b
      BY <1>1, <3>2
    <3> QED
      BY <1>1, <2>1, <3>3, <3>4, <3>5
  <2>3. CASE ~ \E b \in Id : key[b] = k
    BY <1>1, <2>1, <2>3 DEF Init
  <2> QED
    BY <2>2, <2>3
<1>3. KeyRows
  BY <1>1, <1>2 DEF KeyRows, Init
<1>4. KeyMakes
  BY DEF Init, KeyMakes, IsMaking
<1>5. ASSUME NEW e \in Editor PROVE KeyFit(ed[e])
  <2>1. ed[e] = Blank("idle")
    BY DEF Init
  <2>2. /\ Blank("idle").pc = "idle" /\ ~Blank("idle").folds
        /\ Blank("idle").keys = {} /\ Blank("idle").adopt = NoKey
    BY DEF Blank
  <2> QED
    BY <2>1, <2>2, KeyStarts DEF Reading
<1> QED
  BY <1>3, <1>4, <1>5 DEF KeyInv

\* A key once stored leads, for ever, to the bottling its own was folded into
\* and to no other, unless edits of one bottling overlapped or a persist was
\* looking for the key as it was retired (mergeInto, retireKey,
\* FIND_OR_CREATE_SQL).
THEOREM KeysAreKept == Spec => []KeysFollow
<1>1. Init => TypeOK /\ IInv /\ ListInv /\ KeyInv
  BY InitHolds, ListStart, KeyStart
<1>2. TypeOK /\ IInv /\ ListInv /\ KeyInv /\ [Next]_vars
        => (TypeOK /\ IInv /\ ListInv /\ KeyInv)'
  BY NextHolds, ListNext, KeyNext
<1>3. KeyInv => KeysFollow
  BY DEF KeyInv, KeyRows, KeysFollow
<1> QED
  BY <1>1, <1>2, <1>3, PTL DEF Spec

=============================================================================
