--------------------------- MODULE Bottlings_proofs ---------------------------
(***************************************************************************)
(* What Bottlings promises for any number of persists, editors and rows.   *)
(***************************************************************************)
EXTENDS Bottlings, FiniteSetTheorems, TLAPS

-----------------------------------------------------------------------------
(* The inductive invariant *)

Merging == {"read", "facts", "offers", "lists", "aliases", "key"}

\* The row its uncommitted offers refer to, which their foreign key locks.
UsesOf(j) == IF j.offers # {} THEN {j.new} ELSE {}

\* The bottlings an edit knows by id.
Named(j) == {j.old, j.new, j.row} \cup j.rest \cup j.took

\* What an edit holds at each of its steps.
Shaped(j) ==
  /\ j.gone \subseteq j.took
  /\ j.new \notin j.gone \cup j.rest
  /\ j.pc \in {"idle", "twins", "left", "done"} =>
       j.took = {} /\ j.rest = {} /\ ~j.folds
  /\ j.pc \in {"idle", "twins", "done"} => j.offers = {}
  /\ j.pc = "idle" => j.row = 0
  /\ j.pc = "twins" => j.row # 0
  /\ j.pc \in Merging => j.folds
  /\ j.pc \in Merging \cup {"left", "delete"} => j.old # 0
  /\ j.pc \in Merging \cup {"delete"} => j.old # j.new
  /\ j.folds => j.new # 0
  /\ ~j.folds => j.rest = {} /\ j.lists = {} /\ (j.pc = "delete" => j.took = {})

\* What is gone once it commits, from when its offers have moved on.
Leaving(j) ==
  j.gone \cup (IF j.pc \in {"lists", "aliases", "key", "delete"} THEN {j.old} ELSE {})

\* An edit against the rows: all the offers of what it has removed have moved
\* to its survivor, which is there.
Fit(e, j) ==
  /\ Shaped(j)
  /\ Named(j) \subseteq 0..top
  /\ j.offers # {} => j.new \in live \/ (j.new # 0 /\ j.new = j.row)
  /\ j.row # 0 => /\ j.row \in j.wrote \cup UsesOf(j)
                  /\ became[j.row] = j.row
  /\ \A x \in j.offers : offer[x] # 0 /\ (j.folds => offer[x] \in Leaving(j))
  /\ \A x \in Sku : offer[x] \in j.gone => x \in j.offers
  /\ j.pc = "offers" => j.new \in j.wrote

\* An edit against the others: what it has locked, nobody else refers to.
Clear(e, j) ==
  /\ \A p \in Persist, x \in Sku :
       x \in made[p] => got[p][x] \notin Named(j)
  /\ \A p \in Persist, x \in Sku :
       at[p] = "linked" /\ x \in fresh[p] /\ offer[x] = 0 => got[p][x] \notin j.took
  /\ \A f \in Others(e) :
       /\ j.took \cap (ed[f].took \cup ed[f].wrote \cup UsesOf(ed[f])) = {}
       /\ ed[f].took \cap (j.wrote \cup UsesOf(j)) = {}
       /\ j.offers \cap ed[f].offers = {}

\* What is there, or is yet to be, has not been folded.
Rows ==
  /\ live \subseteq 1..top
  /\ \A b \in Id : b \in live \/ b > top => became[b] = b
  /\ \A x \in Sku : filed[x] = 0 <=> offer[x] = 0

\* A row a persist is making is its own, and what it links to is there.
Makes ==
  /\ \A p \in Persist : at[p] \notin {"created", "linked"} => made[p] = {}
  /\ \A p \in Persist, x \in Sku :
       x \in made[p] => /\ got[p][x] \in 1..top /\ got[p][x] \notin live
                        /\ became[got[p][x]] = got[p][x]
  /\ \A p, q \in Persist, x, y \in Sku :
       p # q /\ x \in made[p] /\ y \in made[q] => got[p][x] # got[q][y]
  /\ \A p \in Persist, x \in Sku :
       at[p] = "linked" /\ x \in fresh[p] \ made[p] /\ offer[x] = 0
         => got[p][x] \in live

IInv ==
  /\ Rows /\ Makes /\ OffersFollow
  /\ \A e \in Editor : Fit(e, ed[e]) /\ Clear(e, ed[e])

-----------------------------------------------------------------------------
(* Editors' steps *)

\* A step within an edit's transaction need only fit it.
LEMMA EditorMoves ==
  ASSUME TypeOK, IInv, NEW e \in Editor, NEW j \in Edit, Fit(e, j), Clear(e, j),
         Advance(e, j)
  PROVE  TypeOK' /\ IInv'
<1>1. /\ ed' \in [Editor -> Edit] /\ ed'[e] = j
      /\ \A f \in Others(e) : f \in Editor /\ ed'[f] = ed[f]
  BY DEF Advance, TypeOK, Others
<1>2. /\ live' = live /\ key' = key /\ name' = name /\ alias' = alias
      /\ offer' = offer /\ listed' = listed /\ top' = top /\ at' = at
      /\ fresh' = fresh /\ got' = got /\ made' = made /\ became' = became
      /\ home' = home /\ filed' = filed /\ kept' = kept /\ mixed' = mixed
      /\ raced' = raced /\ news' = news
  BY DEF Advance, dataVars, persistVars, histVars
<1>3. TypeOK'
  BY <1>1, <1>2 DEF TypeOK
<1>4. (Rows /\ Makes /\ OffersFollow)'
  BY <1>2 DEF IInv, Rows, Makes, OffersFollow
<1>5. ASSUME NEW f \in Editor PROVE (Fit(f, ed[f]) /\ Clear(f, ed[f]))'
  <2>1. CASE f = e
    <3>1. Fit(e, ed[e])'
      BY <1>1, <1>2 DEF Fit
    <3>2. Clear(e, ed[e])'
      BY <1>1, <1>2 DEF Clear
    <3> QED
      BY <2>1, <3>1, <3>2
  <2>2. CASE f # e
    <3>1. ed'[f] = ed[f]
      BY <1>1, <2>2 DEF Others
    <3>2. Fit(f, ed[f])'
      BY <1>2, <3>1 DEF Fit, IInv
    <3>3. Clear(f, ed[f])'
      BY <1>1, <1>2, <2>2, <3>1 DEF Clear, IInv, Others
    <3> QED
      BY <3>2, <3>3
  <2> QED
    BY <2>1, <2>2
<1> QED
  BY <1>3, <1>4, <1>5 DEF IInv

LEMMA MergeHolds ==
  ASSUME TypeOK, IInv, NEW e \in Editor, NEW l \in Id, NEW s \in Id, Merge(e, l, s)
  PROVE  TypeOK' /\ IInv'
<1> DEFINE r == ed[e]
           j == [r EXCEPT !.pc = "read", !.folds = TRUE, !.old = l, !.new = s]
<1>1. /\ r \in Edit /\ Fit(e, r) /\ Clear(e, r) /\ Advance(e, j)
      /\ r.pc = "idle" /\ l \in live /\ s \in live /\ l # s
  BY DEF TypeOK, IInv, Merge
<1> HIDE DEF r
<1>2. /\ j \in Edit
      /\ j.pc = "read" /\ j.folds /\ j.old = l /\ j.new = s
      /\ j.row = r.row /\ j.rest = r.rest /\ j.took = r.took /\ j.wrote = r.wrote
      /\ j.gone = r.gone /\ j.offers = r.offers /\ j.lists = r.lists
  BY <1>1, ZenonT(30) DEF Edit, EditStep
<1> HIDE DEF j
<1>3. Rows /\ Makes /\ 0 \notin Id /\ l \in 1..top /\ s \in 1..top
  BY <1>1 DEF IInv, Rows, Id, OffersFollow, TypeOK
<1>4. Fit(e, j)
  BY <1>1, <1>2, <1>3 DEF Fit, Shaped, Leaving, UsesOf, Named, Merging
<1>5. Clear(e, j)
  BY <1>1, <1>2, <1>3 DEF Fit, Shaped, Clear, UsesOf, Named, Makes
<1> QED
  BY <1>1, <1>2, <1>4, <1>5, EditorMoves

LEMMA RenameHolds ==
  ASSUME TypeOK, IInv, NEW e \in Editor, NEW b \in Id, NEW n \in Name, Rename(e, b, n)
  PROVE  TypeOK' /\ IInv'
<1> DEFINE r == ed[e]
           j == [r EXCEPT !.pc = "twins", !.row = b, !.name = n, !.wrote = {b}]
<1>1. /\ r \in Edit /\ Fit(e, r) /\ Clear(e, r) /\ Advance(e, j)
      /\ r.pc = "idle" /\ b \in live /\ CanWrite(e, b)
  BY DEF TypeOK, IInv, Rename
<1> HIDE DEF r
<1>2. /\ j \in Edit
      /\ j.pc = "twins" /\ j.row = b /\ j.wrote = {b}
      /\ (j.folds <=> r.folds) /\ j.old = r.old /\ j.new = r.new /\ j.rest = r.rest
      /\ j.took = r.took /\ j.gone = r.gone /\ j.offers = r.offers /\ j.lists = r.lists
  BY <1>1, ZenonT(30) DEF Edit, EditStep
<1> HIDE DEF j
<1>3. Rows /\ Makes /\ 0 \notin Id /\ b \in 1..top /\ became[b] = b
  BY <1>1 DEF IInv, Rows, Id, OffersFollow, TypeOK
<1>4. Fit(e, j)
  BY <1>1, <1>2, <1>3 DEF Fit, Shaped, Leaving, UsesOf, Named, Merging
<1>5. Clear(e, j)
  BY <1>1, <1>2, <1>3 DEF Fit, Shaped, Clear, UsesOf, Named, Makes, CanWrite
<1> QED
  BY <1>1, <1>2, <1>4, <1>5, EditorMoves

LEMMA RelinkToHolds ==
  ASSUME TypeOK, IInv, NEW e \in Editor, NEW x \in Sku, NEW t \in Id, RelinkTo(e, x, t)
  PROVE  TypeOK' /\ IInv'
<1> DEFINE r == ed[e]
           j == [r EXCEPT !.pc = "left", !.old = offer[x], !.new = t, !.offers = {x}]
<1>1. /\ r \in Edit /\ Fit(e, r) /\ Clear(e, r) /\ Advance(e, j)
      /\ r.pc = "idle" /\ offer[x] \in Id /\ offer[x] # 0 /\ t \in live
      /\ CanUse(e, t) /\ \A f \in Others(e) : x \notin ed[f].offers
  BY DEF TypeOK, IInv, RelinkTo, Id
<1> HIDE DEF r
<1>2. /\ j \in Edit
      /\ j.pc = "left" /\ j.old = offer[x] /\ j.new = t /\ j.offers = {x}
      /\ (j.folds <=> r.folds) /\ j.row = r.row /\ j.rest = r.rest /\ j.took = r.took
      /\ j.wrote = r.wrote /\ j.gone = r.gone /\ j.lists = r.lists
  BY <1>1, ZenonT(30) DEF Edit, EditStep
<1> HIDE DEF j
<1>3. Rows /\ Makes /\ 0 \notin Id /\ t \in 1..top /\ offer[x] \in live /\ offer[x] \in 1..top
  BY <1>1 DEF IInv, Rows, Id, OffersFollow, TypeOK
<1>4. Fit(e, j)
  BY <1>1, <1>2, <1>3 DEF Fit, Shaped, Leaving, UsesOf, Named, Merging
<1>5. Clear(e, j)
  BY <1>1, <1>2, <1>3 DEF Fit, Shaped, Clear, UsesOf, Named, Makes, CanUse
<1> QED
  BY <1>1, <1>2, <1>4, <1>5, EditorMoves

LEMMA CheckLeftHolds ==
  ASSUME TypeOK, IInv, NEW e \in Editor, CheckLeft(e)
  PROVE  TypeOK' /\ IInv'
<1> DEFINE r == ed[e]
           j == [r EXCEPT !.pc = IF /\ r.old # r.new
                              /\ Offers(r.old) \subseteq r.offers
                              /\ \A u \in User : <<u, r.old>> \notin listed
                           THEN "delete" ELSE "commit"]
<1>1. /\ r \in Edit /\ Fit(e, r) /\ Clear(e, r) /\ Advance(e, j)
      /\ r.pc = "left"
  BY DEF TypeOK, IInv, CheckLeft
<1> HIDE DEF r
<1>2. /\ j \in Edit
      /\ j.pc = IF /\ r.old # r.new
                  /\ Offers(r.old) \subseteq r.offers
                  /\ \A u \in User : <<u, r.old>> \notin listed
               THEN "delete" ELSE "commit"
      /\ (j.folds <=> r.folds) /\ j.old = r.old /\ j.new = r.new /\ j.row = r.row
      /\ j.rest = r.rest /\ j.took = r.took /\ j.wrote = r.wrote /\ j.gone = r.gone
      /\ j.offers = r.offers /\ j.lists = r.lists
  BY <1>1 DEF Edit, EditStep
<1> HIDE DEF j
<1>3. Rows /\ Makes /\ 0 \notin Id
  BY <1>1 DEF IInv, Rows, Id
<1>4. Fit(e, j)
  BY <1>1, <1>2, <1>3 DEF Fit, Shaped, Leaving, UsesOf, Named, Merging
<1>5. Clear(e, j)
  BY <1>1, <1>2, <1>3 DEF Fit, Shaped, Clear, UsesOf, Named, Makes
<1> QED
  BY <1>1, <1>2, <1>4, <1>5, EditorMoves

LEMMA ReadHolds ==
  ASSUME TypeOK, IInv, NEW e \in Editor, Read(e)
  PROVE  TypeOK' /\ IInv'
<1> DEFINE r == ed[e]
           ko == key[r.old]
           kn == IF r.adopt # NoKey THEN r.adopt ELSE key[r.new]
           j == [r EXCEPT !.pc = "facts", !.oldKey = ko, !.newKey = kn]
<1>1. /\ r \in Edit /\ Fit(e, r) /\ Clear(e, r) /\ Advance(e, j)
      /\ r.pc = "read" /\ r.old \in Id /\ r.new \in Id
      /\ ko \in Key \cup {NoKey} /\ kn \in Key \cup {NoKey}
  BY DEF TypeOK, IInv, Read, Edit
<1> HIDE DEF r, ko, kn
<1>2. /\ j \in Edit
      /\ j.pc = "facts"
      /\ (j.folds <=> r.folds) /\ j.old = r.old /\ j.new = r.new /\ j.row = r.row
      /\ j.rest = r.rest /\ j.took = r.took /\ j.wrote = r.wrote /\ j.gone = r.gone
      /\ j.offers = r.offers /\ j.lists = r.lists
  BY <1>1, ZenonT(30) DEF Edit, EditStep
<1> HIDE DEF j
<1>3. Rows /\ Makes /\ 0 \notin Id
  BY <1>1 DEF IInv, Rows, Id
<1>4. Fit(e, j)
  BY <1>1, <1>2, <1>3 DEF Fit, Shaped, Leaving, UsesOf, Named, Merging
<1>5. Clear(e, j)
  BY <1>1, <1>2, <1>3 DEF Fit, Shaped, Clear, UsesOf, Named, Makes
<1> QED
  BY <1>1, <1>2, <1>4, <1>5, EditorMoves

LEMMA FactsHolds ==
  ASSUME TypeOK, IInv, NEW e \in Editor, Facts(e)
  PROVE  TypeOK' /\ IInv'
<1> DEFINE r == ed[e]
           j == [r EXCEPT !.pc = "offers", !.wrote = r.wrote \cup {r.new}]
<1>1. /\ r \in Edit /\ Fit(e, r) /\ Clear(e, r) /\ Advance(e, j)
      /\ r.pc = "facts" /\ r.new \in Id /\ CanWrite(e, r.new)
  BY DEF TypeOK, IInv, Facts, Fit, Shaped, Merging, Edit
<1> HIDE DEF r
<1>2. /\ j \in Edit
      /\ j.pc = "offers" /\ j.wrote = r.wrote \cup {r.new}
      /\ (j.folds <=> r.folds) /\ j.old = r.old /\ j.new = r.new /\ j.row = r.row
      /\ j.rest = r.rest /\ j.took = r.took /\ j.gone = r.gone /\ j.offers = r.offers
      /\ j.lists = r.lists
  BY <1>1, ZenonT(30) DEF Edit, EditStep
<1> HIDE DEF j
<1>3. Rows /\ Makes /\ 0 \notin Id
  BY <1>1 DEF IInv, Rows, Id
<1>4. Fit(e, j)
  BY <1>1, <1>2, <1>3 DEF Fit, Shaped, Leaving, UsesOf, Named, Merging
<1>5. Clear(e, j)
  BY <1>1, <1>2, <1>3 DEF Fit, Shaped, Clear, UsesOf, Named, Makes, CanWrite
<1> QED
  BY <1>1, <1>2, <1>4, <1>5, EditorMoves

LEMMA MoveOffersHolds ==
  ASSUME TypeOK, IInv, NEW e \in Editor, MoveOffers(e)
  PROVE  TypeOK' /\ IInv'
<1> DEFINE r == ed[e]
           j == [r EXCEPT !.pc = "lists", !.offers = r.offers \cup Offers(r.old)]
<1>1. /\ r \in Edit /\ Fit(e, r) /\ Clear(e, r) /\ Advance(e, j)
      /\ r.pc = "offers" /\ Offers(r.old) \subseteq Sku
      /\ \A f \in Others(e) : Offers(r.old) \cap ed[f].offers = {}
      /\ Offers(r.old) # {} => r.new \in live
  BY DEF TypeOK, IInv, MoveOffers, Offers
<1> HIDE DEF r
<1>2. /\ j \in Edit
      /\ j.pc = "lists" /\ j.offers = r.offers \cup Offers(r.old)
      /\ (j.folds <=> r.folds) /\ j.old = r.old /\ j.new = r.new /\ j.row = r.row
      /\ j.rest = r.rest /\ j.took = r.took /\ j.wrote = r.wrote /\ j.gone = r.gone
      /\ j.lists = r.lists
  BY <1>1, ZenonT(30) DEF Edit, EditStep
<1> HIDE DEF j
<1>3. Rows /\ Makes /\ 0 \notin Id
  BY <1>1 DEF IInv, Rows, Id
<1>4. Fit(e, j)
  BY <1>1, <1>2, <1>3 DEF Fit, Shaped, Leaving, UsesOf, Named, Merging, Offers
<1>5. Clear(e, j)
  BY <1>1, <1>2, <1>3 DEF Fit, Shaped, Clear, UsesOf, Named, Makes, Offers
<1> QED
  BY <1>1, <1>2, <1>4, <1>5, EditorMoves

LEMMA MoveListsHolds ==
  ASSUME TypeOK, IInv, NEW e \in Editor, MoveLists(e)
  PROVE  TypeOK' /\ IInv'
<1> DEFINE r == ed[e]
           L == r.lists \cup {i \in listed : i[2] = r.old}
           j == [r EXCEPT !.pc = "aliases", !.lists = L]
<1>1. /\ r \in Edit /\ Fit(e, r) /\ Clear(e, r) /\ Advance(e, j)
      /\ r.pc = "lists" /\ r.lists \subseteq L /\ L \subseteq User \X Id
  BY DEF TypeOK, IInv, MoveLists, Edit
<1> HIDE DEF r, L
<1>2. /\ j \in Edit
      /\ j.pc = "aliases" /\ j.lists = L
      /\ (j.folds <=> r.folds) /\ j.old = r.old /\ j.new = r.new /\ j.row = r.row
      /\ j.rest = r.rest /\ j.took = r.took /\ j.wrote = r.wrote /\ j.gone = r.gone
      /\ j.offers = r.offers
  BY <1>1, ZenonT(30) DEF Edit, EditStep
<1> HIDE DEF j
<1>3. Rows /\ Makes /\ 0 \notin Id
  BY <1>1 DEF IInv, Rows, Id
<1>4. Fit(e, j)
  BY <1>1, <1>2, <1>3 DEF Fit, Shaped, Leaving, UsesOf, Named, Merging
<1>5. Clear(e, j)
  BY <1>1, <1>2, <1>3 DEF Fit, Shaped, Clear, UsesOf, Named, Makes
<1> QED
  BY <1>1, <1>2, <1>4, <1>5, EditorMoves

LEMMA RepointHolds ==
  ASSUME TypeOK, IInv, NEW e \in Editor, Repoint(e)
  PROVE  TypeOK' /\ IInv'
<1> DEFINE r == ed[e]
           j == [r EXCEPT !.pc = "key", !.keys = r.keys \cup {k \in Key : alias[k] = r.old}]
<1>1. /\ r \in Edit /\ Fit(e, r) /\ Clear(e, r) /\ Advance(e, j)
      /\ r.pc = "aliases"
  BY DEF TypeOK, IInv, Repoint
<1> HIDE DEF r
<1>2. /\ j \in Edit
      /\ j.pc = "key"
      /\ (j.folds <=> r.folds) /\ j.old = r.old /\ j.new = r.new /\ j.row = r.row
      /\ j.rest = r.rest /\ j.took = r.took /\ j.wrote = r.wrote /\ j.gone = r.gone
      /\ j.offers = r.offers /\ j.lists = r.lists
  BY <1>1, ZenonT(30) DEF Edit, EditStep
<1> HIDE DEF j
<1>3. Rows /\ Makes /\ 0 \notin Id
  BY <1>1 DEF IInv, Rows, Id
<1>4. Fit(e, j)
  BY <1>1, <1>2, <1>3 DEF Fit, Shaped, Leaving, UsesOf, Named, Merging
<1>5. Clear(e, j)
  BY <1>1, <1>2, <1>3 DEF Fit, Shaped, Clear, UsesOf, Named, Makes
<1> QED
  BY <1>1, <1>2, <1>4, <1>5, EditorMoves

LEMMA TwinsHolds ==
  ASSUME TypeOK, IInv, NEW e \in Editor, Twins(e)
  PROVE  TypeOK' /\ IInv'
<1>1. CASE Advance(e, [ed[e] EXCEPT !.pc = "commit"])
  <2> DEFINE r == ed[e]
             j == [r EXCEPT !.pc = "commit"]
  <2>1. /\ r \in Edit /\ Fit(e, r) /\ Clear(e, r) /\ Advance(e, j)
        /\ r.pc = "twins"
    BY <1>1 DEF TypeOK, IInv, Twins
  <2> HIDE DEF r
  <2>2. /\ j \in Edit
        /\ j.pc = "commit"
        /\ (j.folds <=> r.folds) /\ j.old = r.old /\ j.new = r.new /\ j.row = r.row
        /\ j.rest = r.rest /\ j.took = r.took /\ j.wrote = r.wrote /\ j.gone = r.gone
        /\ j.offers = r.offers /\ j.lists = r.lists
    BY <2>1, ZenonT(30) DEF Edit, EditStep
  <2> HIDE DEF j
  <2>3. Rows /\ Makes /\ 0 \notin Id
    BY <2>1 DEF IInv, Rows, Id
  <2>4. Fit(e, j)
    BY <2>1, <2>2, <2>3 DEF Fit, Shaped, Leaving, UsesOf, Named, Merging
  <2>5. Clear(e, j)
    BY <2>1, <2>2, <2>3 DEF Fit, Shaped, Clear, UsesOf, Named, Makes
  <2> QED
    BY <2>1, <2>2, <2>4, <2>5, EditorMoves
<1>2. ASSUME NEW s \in live, s # ed[e].row, ed[e].pc = "twins",
                NEW B \in SUBSET live, s \notin B, ed[e].row \notin B,
                Advance(e, [ed[e] EXCEPT !.pc = "read", !.folds = TRUE, !.old = ed[e].row,
                                    !.new = s, !.rest = B])
         PROVE  TypeOK' /\ IInv'
  <2> DEFINE r == ed[e]
             j == [r EXCEPT !.pc = "read", !.folds = TRUE, !.old = r.row, !.new = s, !.rest = B]
  <2>1. /\ r \in Edit /\ Fit(e, r) /\ Clear(e, r) /\ Advance(e, j)
        /\ r.pc = "twins" /\ s # r.row /\ s \in live /\ r.row \notin B /\ s \notin B
        /\ B \subseteq live /\ live \subseteq Id
    BY <1>2 DEF TypeOK, IInv
  <2> HIDE DEF r
  <2>2. /\ j \in Edit
        /\ j.pc = "read" /\ j.folds /\ j.old = r.row /\ j.new = s /\ j.rest = B
        /\ j.row = r.row /\ j.took = r.took /\ j.wrote = r.wrote /\ j.gone = r.gone
        /\ j.offers = r.offers /\ j.lists = r.lists
    BY <2>1, ZenonT(30) DEF Edit, EditStep
  <2> HIDE DEF j
  <2>3. Rows /\ Makes /\ 0 \notin Id /\ live \subseteq 1..top
    BY <2>1 DEF IInv, Rows, Id, OffersFollow, TypeOK
  <2>4. Fit(e, j)
    <3>1. Shaped(j)
      BY <2>1, <2>2, <2>3 DEF Fit, Shaped, Merging
    <3>2. Named(j) \subseteq 0..top
      <4>1. Named(r) \subseteq 0..top /\ r.took = {} /\ 1..top \subseteq 0..top
        BY <2>1, BottlingsAssumptions DEF Fit, Shaped, TypeOK
      <4> QED
        BY <2>1, <2>2, <2>3, <4>1 DEF Named
    <3> QED
      BY <2>1, <2>2, <2>3, <3>1, <3>2 DEF Fit, Shaped, Leaving, UsesOf
  <2>5. Clear(e, j)
    BY <2>1, <2>2, <2>3 DEF Fit, Shaped, Clear, UsesOf, Named, Makes
  <2> QED
    BY <2>1, <2>2, <2>4, <2>5, EditorMoves
<1>3. CASE Alike(ed[e].name) \ {ed[e].row} = {}
  BY <1>1, <1>3 DEF Twins
<1>4. CASE \E s \in Alike(ed[e].name) \ {ed[e].row} :
             Advance(e, [ed[e] EXCEPT !.pc = "read", !.folds = TRUE,
                                      !.old = ed[e].row, !.new = s,
                                      !.rest = (Alike(ed[e].name) \ {ed[e].row})
                                                 \ {s}])
  <2> PICK s \in Alike(ed[e].name) \ {ed[e].row} :
             Advance(e, [ed[e] EXCEPT !.pc = "read", !.folds = TRUE,
                                      !.old = ed[e].row, !.new = s,
                                      !.rest = (Alike(ed[e].name) \ {ed[e].row})
                                                 \ {s}])
    BY <1>4
  <2> DEFINE B == (Alike(ed[e].name) \ {ed[e].row}) \ {s}
  <2>1. /\ B \in SUBSET live /\ s \notin B /\ ed[e].row \notin B
        /\ s \in live /\ s # ed[e].row
    BY DEF Alike
  <2>2. ed[e].pc = "twins"
    BY DEF Twins
  <2> HIDE DEF B
  <2> QED
    BY <1>2, <2>1, <2>2 DEF B
<1> QED
  BY <1>1, <1>3, <1>4 DEF Twins

LEMMA FreeToTake ==
  ASSUME NEW e \in Editor, NEW b, CanTake(e, b)
  PROVE  /\ \A f \in Others(e) : b \notin ed[f].took \cup ed[f].wrote \cup UsesOf(ed[f])
         /\ \A p \in Persist, x \in Sku :
              at[p] = "linked" /\ x \in fresh[p] /\ offer[x] = 0 => got[p][x] # b
<1>1. \A f \in Others(e) : b \notin ed[f].took \cup ed[f].wrote \cup UsesOf(ed[f])
  BY DEF CanTake, Uses, UsesOf
<1>2. ASSUME NEW p \in Persist, NEW x \in Sku,
             at[p] = "linked", x \in fresh[p], offer[x] = 0
      PROVE  got[p][x] # b
  BY <1>2 DEF CanTake, LinkedTo
<1> QED
  BY <1>1, <1>2

LEMMA RetireHolds ==
  ASSUME TypeOK, IInv, NEW e \in Editor, Retire(e)
  PROVE  TypeOK' /\ IInv'
<1>1. CASE Advance(e, [ed[e] EXCEPT !.pc = "delete"])
  <2> DEFINE r == ed[e]
             j == [r EXCEPT !.pc = "delete"]
  <2>1. /\ r \in Edit /\ Fit(e, r) /\ Clear(e, r) /\ Advance(e, j)
        /\ r.pc = "key"
    BY <1>1 DEF TypeOK, IInv, Retire
  <2> HIDE DEF r
  <2>2. /\ j \in Edit
        /\ j.pc = "delete"
        /\ (j.folds <=> r.folds) /\ j.old = r.old /\ j.new = r.new /\ j.row = r.row
        /\ j.rest = r.rest /\ j.took = r.took /\ j.wrote = r.wrote /\ j.gone = r.gone
        /\ j.offers = r.offers /\ j.lists = r.lists
    BY <2>1, ZenonT(30) DEF Edit, EditStep
  <2> HIDE DEF j
  <2>3. Rows /\ Makes /\ 0 \notin Id
    BY <2>1 DEF IInv, Rows, Id
  <2>4. Fit(e, j)
    BY <2>1, <2>2, <2>3 DEF Fit, Shaped, Leaving, UsesOf, Named, Merging
  <2>5. Clear(e, j)
    BY <2>1, <2>2, <2>3 DEF Fit, Shaped, Clear, UsesOf, Named, Makes
  <2> QED
    BY <2>1, <2>2, <2>4, <2>5, EditorMoves
<1>2. CASE /\ CanTake(e, ed[e].old) /\ CanTake(e, ed[e].new)
          /\ Advance(e, [ed[e] EXCEPT !.pc = "delete", !.adopt = ed[e].oldKey,
                          !.took = ed[e].took \cup {ed[e].old, ed[e].new}])
  <2> DEFINE r == ed[e]
             j == [r EXCEPT !.pc = "delete", !.adopt = r.oldKey,
                               !.took = r.took \cup {r.old, r.new}]
  <2>1. /\ r \in Edit /\ Fit(e, r) /\ Clear(e, r) /\ Advance(e, j)
        /\ r.pc = "key" /\ r.old \in Id /\ r.new \in Id
        /\ CanTake(e, r.old) /\ CanTake(e, r.new)
    BY <1>2 DEF TypeOK, IInv, Retire, Fit, Shaped, Merging, Edit
  <2> HIDE DEF r
  <2>2. /\ j \in Edit
        /\ j.pc = "delete" /\ j.took = r.took \cup {r.old, r.new}
        /\ (j.folds <=> r.folds) /\ j.old = r.old /\ j.new = r.new /\ j.row = r.row
        /\ j.rest = r.rest /\ j.wrote = r.wrote /\ j.gone = r.gone /\ j.offers = r.offers
        /\ j.lists = r.lists
    BY <2>1, ZenonT(30) DEF Edit, EditStep
  <2> HIDE DEF j
  <2>3. Rows /\ Makes /\ 0 \notin Id
    BY <2>1 DEF IInv, Rows, Id
  <2>4. Fit(e, j)
    BY <2>1, <2>2, <2>3 DEF Fit, Shaped, Leaving, UsesOf, Named, Merging
  <2>5. Clear(e, j)
    BY <2>1, <2>2, <2>3, FreeToTake DEF Clear, UsesOf, Named, Makes
  <2> QED
    BY <2>1, <2>2, <2>4, <2>5, EditorMoves
<1>3. CASE /\ ed[e].oldKey # NoKey /\ CanTake(e, ed[e].old)
          /\ Advance(e, [ed[e] EXCEPT !.pc = "delete",
                                      !.keys = ed[e].keys \cup {ed[e].oldKey},
                                      !.took = ed[e].took \cup {ed[e].old}])
  <2> DEFINE r == ed[e]
             j == [r EXCEPT !.pc = "delete", !.keys = r.keys \cup {r.oldKey},
                               !.took = r.took \cup {r.old}]
  <2>1. /\ r \in Edit /\ Fit(e, r) /\ Clear(e, r) /\ Advance(e, j)
        /\ r.pc = "key" /\ r.old \in Id /\ CanTake(e, r.old) /\ r.oldKey \in Key
    BY <1>3 DEF TypeOK, IInv, Retire, Fit, Shaped, Merging, Edit
  <2> HIDE DEF r
  <2>2. /\ j \in Edit
        /\ j.pc = "delete" /\ j.took = r.took \cup {r.old}
        /\ (j.folds <=> r.folds) /\ j.old = r.old /\ j.new = r.new /\ j.row = r.row
        /\ j.rest = r.rest /\ j.wrote = r.wrote /\ j.gone = r.gone /\ j.offers = r.offers
        /\ j.lists = r.lists
    BY <2>1, ZenonT(30) DEF Edit, EditStep
  <2> HIDE DEF j
  <2>3. Rows /\ Makes /\ 0 \notin Id
    BY <2>1 DEF IInv, Rows, Id
  <2>4. Fit(e, j)
    BY <2>1, <2>2, <2>3 DEF Fit, Shaped, Leaving, UsesOf, Named, Merging
  <2>5. Clear(e, j)
    BY <2>1, <2>2, <2>3, FreeToTake DEF Clear, UsesOf, Named, Makes
  <2> QED
    BY <2>1, <2>2, <2>4, <2>5, EditorMoves
<1> QED
  BY <1>1, <1>2, <1>3 DEF Retire

LEMMA DeleteHolds ==
  ASSUME TypeOK, IInv, NEW e \in Editor, Delete(e)
  PROVE  TypeOK' /\ IInv'
<1> DEFINE r == ed[e]
<1> PICK s \in IF r.rest = {} THEN {0} ELSE r.rest :
      Advance(e, [r EXCEPT !.pc = IF s = 0 THEN "commit" ELSE "read",
                           !.old = s, !.rest = r.rest \ {s},
                           !.took = r.took \cup {r.old},
                           !.gone = r.gone \cup {r.old}])
  BY DEF Delete
<1> DEFINE c == IF s = 0 THEN "commit" ELSE "read"
           B == r.rest \ {s}
           t == r.took \cup {r.old}
           g == r.gone \cup {r.old}
           j == [r EXCEPT !.pc = c, !.old = s, !.rest = B, !.took = t, !.gone = g]
<1>1. /\ r \in Edit /\ Fit(e, r) /\ Clear(e, r) /\ Advance(e, j)
      /\ r.pc = "delete" /\ CanTake(e, r.old) /\ Offers(r.old) \subseteq r.offers
      /\ r.rest \subseteq Id /\ r.old \in Id
  BY DEF TypeOK, IInv, Delete, Fit, Shaped, Merging, Edit
<1>2. Rows /\ Makes /\ 0 \notin Id
  BY <1>1 DEF IInv, Rows, Id
<1>3. /\ s \in {0} \cup r.rest /\ s \in {0} \cup Id /\ (s = 0 <=> r.rest = {})
      /\ c \in {"commit", "read"} /\ (c = "commit" <=> r.rest = {})
      /\ s \notin B /\ B \subseteq r.rest /\ B \subseteq Id
      /\ t \subseteq Id /\ g \subseteq Id
  BY <1>1, <1>2 DEF Edit
<1> HIDE DEF r, c, B, t, g
<1>4. j \in Edit
  BY <1>1, <1>3, ZenonT(30) DEF Edit, EditStep
<1>5. /\ j.pc = c /\ j.old = s /\ j.rest = B /\ j.took = t /\ j.gone = g
      /\ (j.folds <=> r.folds) /\ j.new = r.new /\ j.row = r.row /\ j.wrote = r.wrote
      /\ j.offers = r.offers /\ j.lists = r.lists
  BY <1>1, <1>3, ZenonT(30) DEF Edit, EditStep
<1> HIDE DEF j
<1>6. Fit(e, j)
  <2>1. Shaped(j)
    BY <1>1, <1>2, <1>3, <1>5 DEF Fit, Shaped, Merging, t, g
  <2>2. Named(j) \subseteq 0..top
    <3>1. Named(r) \subseteq 0..top /\ 0 \in 0..top
      BY <1>1, BottlingsAssumptions DEF Fit, TypeOK
    <3> QED
      BY <1>3, <1>5, <3>1 DEF Named, t
  <2> QED
    BY <1>1, <1>2, <1>3, <1>5, <2>1, <2>2 DEF Fit, Leaving, UsesOf, Offers, g
<1>7. Clear(e, j)
  BY <1>1, <1>2, <1>3, <1>5, FreeToTake DEF Clear, UsesOf, Named, Makes, t
<1> QED
  BY <1>1, <1>6, <1>7, <1>4, EditorMoves

LEMMA BlankIsEdit == \A s \in EditStep : Blank(s) \in Edit
<1> DEFINE n == CHOOSE m \in Name : TRUE
<1>1. n \in Name
  BY BottlingsAssumptions
<1> HIDE DEF n
<1>2. ASSUME NEW s \in EditStep
      PROVE  [pc |-> s, folds |-> FALSE, old |-> 0, new |-> 0, rest |-> {},
              oldKey |-> NoKey, newKey |-> NoKey, adopt |-> NoKey, offers |-> {},
              lists |-> {}, keys |-> {}, row |-> 0, name |-> n, wrote |-> {},
              took |-> {}, gone |-> {}] \in Edit
  BY <1>1 DEF Edit
<1> QED
  BY <1>2 DEF Blank, n

LEMMA BlankFields ==
  ASSUME NEW s
  PROVE  /\ Blank(s).pc = s /\ Blank(s).folds = FALSE /\ Blank(s).old = 0
         /\ Blank(s).new = 0 /\ Blank(s).row = 0 /\ Blank(s).rest = {}
         /\ Blank(s).took = {} /\ Blank(s).wrote = {} /\ Blank(s).gone = {}
         /\ Blank(s).offers = {} /\ Blank(s).lists = {}
BY DEF Blank

LEMMA BlankFits ==
  ASSUME TypeOK, Makes, NEW e \in Editor, NEW s \in {"idle", "done"}
  PROVE  Fit(e, Blank(s)) /\ Clear(e, Blank(s))
<1> DEFINE j == Blank(s)
<1>1. /\ j.pc = s /\ j.folds = FALSE /\ j.old = 0 /\ j.new = 0 /\ j.row = 0
      /\ j.rest = {} /\ j.took = {} /\ j.wrote = {} /\ j.gone = {}
      /\ j.offers = {} /\ j.lists = {}
  BY BlankFields
<1> HIDE DEF j
<1>2. 0 \in 0..top /\ 0 \notin 1..top
  BY BottlingsAssumptions DEF TypeOK
<1>3. Fit(e, j)
  BY <1>1, <1>2 DEF Fit, Shaped, Leaving, UsesOf, Named, Merging
<1>4. Clear(e, j)
  <2>1. UsesOf(j) = {} /\ Named(j) = {0}
    BY <1>1 DEF UsesOf, Named
  <2> QED
    BY <1>1, <1>2, <2>1 DEF Clear, Makes
<1> QED
  BY <1>3, <1>4 DEF j

LEMMA RollBackEditHolds ==
  ASSUME TypeOK, IInv, NEW e \in Editor, RollBackEdit(e)
  PROVE  TypeOK' /\ IInv'
<1>1. Blank("done") \in Edit
  BY BlankIsEdit DEF EditStep
<1>2. Fit(e, Blank("done")) /\ Clear(e, Blank("done"))
  BY BlankFits DEF IInv
<1> QED
  BY <1>1, <1>2, EditorMoves DEF RollBackEdit

-----------------------------------------------------------------------------
(* Persists *)

LEMMA PersistMoves ==
  ASSUME TypeOK, TypeOK', IInv, NEW p \in Persist,
         UNCHANGED <<live, offer, filed, became, ed>>,
         top <= top',
         \A q \in Persist \ {p} : /\ at'[q] = at[q] /\ fresh'[q] = fresh[q]
                                  /\ got'[q] = got[q] /\ made'[q] = made[q],
         at'[p] \notin {"created", "linked"} => made'[p] = {},
         \A x \in made'[p] :
            /\ got'[p][x] \in 1..top' /\ got'[p][x] \notin live
            /\ became[got'[p][x]] = got'[p][x]
            /\ \A e \in Editor : got'[p][x] \notin Named(ed[e])
            /\ \A q \in Persist \ {p} : \A y \in made[q] : got'[p][x] # got[q][y],
         at'[p] = "linked" =>
            \A x \in fresh'[p] :
               offer[x] = 0 => /\ x \in made'[p] \/ got'[p][x] \in live
                               /\ \A e \in Editor : got'[p][x] \notin ed[e].took
  PROVE  IInv'
<1>1. made \in [Persist -> SUBSET Sku] /\ made' \in [Persist -> SUBSET Sku]
      /\ fresh' \in [Persist -> SUBSET Sku]
  BY DEF TypeOK
<1>2. top \in Nat /\ top' \in Nat /\ 0..top \subseteq 0..top' /\ 1..top \subseteq 1..top'
  BY BottlingsAssumptions DEF TypeOK
<1>3. Rows'
  BY <1>2 DEF IInv, Rows, Id
<1>4. Makes'
  <2>1. \A q \in Persist : at'[q] \notin {"created", "linked"} => made'[q] = {}
    BY DEF IInv, Makes
  <2>2. \A q \in Persist, x \in Sku :
          x \in made'[q] => /\ got'[q][x] \in 1..top' /\ got'[q][x] \notin live
                            /\ became[got'[q][x]] = got'[q][x]
    BY <1>2 DEF IInv, Makes
  <2>3. \A q, s \in Persist, x, y \in Sku :
          q # s /\ x \in made'[q] /\ y \in made'[s] => got'[q][x] # got'[s][y]
    <3> SUFFICES ASSUME NEW q \in Persist, NEW s \in Persist, NEW x \in Sku,
                        NEW y \in Sku, q # s, x \in made'[q], y \in made'[s]
                 PROVE  got'[q][x] # got'[s][y]
      OBVIOUS
    <3>1. CASE q = p
      BY <3>1
    <3>2. CASE s = p
      BY <3>2
    <3>3. CASE q # p /\ s # p
      BY <3>3 DEF IInv, Makes
    <3> QED
      BY <3>1, <3>2, <3>3
  <2>4. \A q \in Persist, x \in Sku :
          at'[q] = "linked" /\ x \in fresh'[q] \ made'[q] /\ offer[x] = 0
            => got'[q][x] \in live
    BY DEF IInv, Makes
  <2> QED
    BY <2>1, <2>2, <2>3, <2>4 DEF Makes
<1>5. OffersFollow'
  BY DEF IInv, OffersFollow
<1>6. ASSUME NEW e \in Editor PROVE (Fit(e, ed[e]) /\ Clear(e, ed[e]))'
  <2>1. Fit(e, ed[e])'
    BY <1>2 DEF IInv, Fit
  <2>2. \A q \in Persist, x \in Sku : x \in made'[q] => got'[q][x] \notin Named(ed[e])
    BY DEF IInv, Clear
  <2>3. \A q \in Persist, x \in Sku :
          at'[q] = "linked" /\ x \in fresh'[q] /\ offer[x] = 0
            => got'[q][x] \notin ed[e].took
    BY DEF IInv, Clear
  <2> QED
    BY <2>1, <2>2, <2>3 DEF IInv, Clear
<1> QED
  BY <1>3, <1>4, <1>5, <1>6 DEF IInv

LEMMA LookUpHolds ==
  ASSUME TypeOK, IInv, NEW p \in Persist, LookUp(p)
  PROVE  TypeOK' /\ IInv'
<1>1. PICK f \in [Sku -> {0} \cup live] : got' = [got EXCEPT ![p] = f]
  BY DEF LookUp
<1>2. f \in [Sku -> {0} \cup Id]
  BY DEF TypeOK
<1>3. /\ fresh' = [fresh EXCEPT ![p] = {x \in Batch[p] : offer[x] = 0}]
      /\ at' = [at EXCEPT ![p] = "known"] /\ at[p] = "idle"
      /\ UNCHANGED <<dataVars, top, made, ed, histVars, news>>
  BY DEF LookUp
<1>4. TypeOK'
  <2>1. {x \in Batch[p] : offer[x] = 0} \subseteq Sku /\ "known" \in PersistStep
    BY BottlingsAssumptions DEF PersistStep
  <2> QED
    BY <1>1, <1>2, <1>3, <2>1 DEF TypeOK, dataVars, histVars
<1>5. made[p] = {}
  BY <1>3 DEF IInv, Makes
<1>6. top <= top'
  BY <1>3, BottlingsAssumptions DEF TypeOK
<1> QED
  BY <1>1, <1>3, <1>4, <1>5, <1>6, PersistMoves DEF TypeOK, dataVars, histVars

LEMMA IdentifyHolds ==
  ASSUME TypeOK, IInv, NEW p \in Persist, Identify(p)
  PROVE  TypeOK' /\ IInv'
<1>1. PICK f \in [Pending(p) -> {0} \cup live] :
        got' = [got EXCEPT ![p] = [x \in Sku |-> IF x \in Pending(p) THEN f[x]
                                                 ELSE got[p][x]]]
  BY DEF Identify
<1> DEFINE g == [x \in Sku |-> IF x \in Pending(p) THEN f[x] ELSE got[p][x]]
<1>2. g \in [Sku -> {0} \cup Id]
  BY DEF TypeOK
<1>3. /\ at' = [at EXCEPT ![p] = "identified"] /\ at[p] = "known"
      /\ news' = [news EXCEPT ![p] = {}] /\ got' = [got EXCEPT ![p] = g]
      /\ UNCHANGED <<dataVars, top, fresh, made, ed, histVars>>
  BY <1>1 DEF Identify
<1> HIDE DEF g
<1>4. TypeOK'
  BY <1>2, <1>3 DEF TypeOK, dataVars, histVars, PersistStep
<1>5. made[p] = {}
  BY <1>3 DEF IInv, Makes
<1>6. top <= top'
  BY <1>3, BottlingsAssumptions DEF TypeOK
<1> QED
  BY <1>3, <1>4, <1>5, <1>6, PersistMoves DEF TypeOK, dataVars, histVars

LEMMA RollBackPersistHolds ==
  ASSUME TypeOK, IInv, NEW p \in Persist, RollBackPersist(p)
  PROVE  TypeOK' /\ IInv'
<1>1. /\ at' = [at EXCEPT ![p] = "done"] /\ made' = [made EXCEPT ![p] = {}]
      /\ fresh' = [fresh EXCEPT ![p] = {}]
      /\ got' = [got EXCEPT ![p] = [x \in Sku |-> 0]]
      /\ UNCHANGED <<dataVars, top, ed, histVars, news>>
  BY DEF RollBackPersist, EndPersist
<1>2. TypeOK'
  BY <1>1 DEF TypeOK, dataVars, histVars, PersistStep
<1>3. top <= top'
  BY <1>1, BottlingsAssumptions DEF TypeOK
<1> QED
  BY <1>1, <1>2, <1>3, PersistMoves DEF TypeOK, dataVars, histVars

LEMMA CreateHolds ==
  ASSUME TypeOK, IInv, NEW p \in Persist, Create(p)
  PROVE  TypeOK' /\ IInv'
<1> DEFINE found == {x \in Pending(p) : \E b \in live : key[b] = KeyOf[x]}
           new   == {x \in fresh[p] : got[p][x] = 0} \ found
           n     == Cardinality(new)
<1>1. /\ at' = [at EXCEPT ![p] = "created"] /\ made' = [made EXCEPT ![p] = new]
      /\ top' = top + n /\ top + n <= MaxId
      /\ UNCHANGED <<dataVars, fresh, ed, histVars, news>>
  BY DEF Create
<1>2. PICK f \in [new -> (top + 1)..(top + n)] :
        /\ \A x, y \in new : x # y => f[x] # f[y]
        /\ got' = [got EXCEPT ![p] =
                     [x \in Sku |->
                        IF x \in new THEN f[x]
                        ELSE IF x \in found
                             THEN CHOOSE b \in live : key[b] = KeyOf[x]
                             ELSE got[p][x]]]
  BY DEF Create
<1>3. new \subseteq Sku /\ made[p] \subseteq Sku
  BY DEF TypeOK
<1>4. top \in Nat /\ n \in Nat /\ MaxId \in Nat
  BY <1>3, FS_Subset, FS_CardinalityType, BottlingsAssumptions DEF TypeOK
<1> HIDE DEF n
<1> DEFINE g == [x \in Sku |-> IF x \in new THEN f[x]
                               ELSE IF x \in found
                                    THEN CHOOSE b \in live : key[b] = KeyOf[x]
                                    ELSE got[p][x]]
<1>5. g \in [Sku -> {0} \cup Id]
  <2> SUFFICES ASSUME NEW x \in Sku PROVE g[x] \in {0} \cup Id
    OBVIOUS
  <2>1. CASE x \in new
    BY <1>1, <1>4, <2>1 DEF Id
  <2>2. CASE x \notin new /\ x \in found
    BY <2>2 DEF TypeOK
  <2>3. CASE x \notin new /\ x \notin found
    BY <2>3 DEF TypeOK
  <2> QED
    BY <2>1, <2>2, <2>3
<1>6. /\ got' = [got EXCEPT ![p] = g]
      /\ \A x \in new : g[x] \in (top + 1)..(top + n)
  BY <1>2, <1>3
<1> HIDE DEF g, new, found
<1>7. TypeOK'
  <2>1. top' \in 0..MaxId
    BY <1>1, <1>4
  <2> QED
    BY <1>1, <1>3, <1>5, <1>6, <2>1 DEF TypeOK, dataVars, histVars, PersistStep
<1>8. top <= top'
  BY <1>1, <1>4
<1>9. ASSUME NEW x \in new
      PROVE  /\ g[x] \in 1..top' /\ g[x] \notin live /\ became[g[x]] = g[x]
             /\ \A e \in Editor : g[x] \notin Named(ed[e])
             /\ \A q \in Persist \ {p} : \A y \in made[q] : g[x] # got[q][y]
  <2>1. g[x] \in Nat /\ g[x] > top /\ g[x] \in 1..top' /\ g[x] \in Id
    BY <1>1, <1>4, <1>6 DEF Id
  <2>2. live \subseteq 1..top /\ \A b \in Id : b > top => became[b] = b
    BY DEF IInv, Rows
  <2>3. \A e \in Editor : Named(ed[e]) \subseteq 0..top
    BY DEF IInv, Fit
  <2>4. \A q \in Persist : \A y \in made[q] : got[q][y] \in 1..top
    BY DEF IInv, Makes, TypeOK
  <2> QED
    BY <1>4, <2>1, <2>2, <2>3, <2>4
<1>10. /\ \A q \in Persist \ {p} : /\ at'[q] = at[q] /\ fresh'[q] = fresh[q]
                                   /\ got'[q] = got[q] /\ made'[q] = made[q]
       /\ at'[p] = "created" /\ made'[p] = new /\ got'[p] = g
       /\ UNCHANGED <<live, offer, filed, became, ed>>
  BY <1>1, <1>6 DEF TypeOK, dataVars, histVars
<1> QED
  BY <1>7, <1>8, <1>9, <1>10, PersistMoves

LEMMA LinkHolds ==
  ASSUME TypeOK, IInv, NEW p \in Persist, Link(p)
  PROVE  TypeOK' /\ IInv'
<1>1. /\ at' = [at EXCEPT ![p] = "linked"] /\ at[p] = "created"
      /\ UNCHANGED <<dataVars, top, fresh, got, made, ed, histVars, news>>
  BY DEF Link
<1>2. TypeOK'
  BY <1>1 DEF TypeOK, dataVars, histVars, PersistStep
<1>3. top <= top'
  BY <1>1, BottlingsAssumptions DEF TypeOK
<1>4. made[p] \subseteq Sku /\ fresh[p] \subseteq Sku
  BY DEF TypeOK
<1>5. \A x \in made[p] :
        /\ got[p][x] \in 1..top /\ got[p][x] \notin live
        /\ became[got[p][x]] = got[p][x]
        /\ \A e \in Editor : got[p][x] \notin Named(ed[e])
        /\ \A q \in Persist \ {p} : \A y \in made[q] : got[p][x] # got[q][y]
  BY <1>4 DEF IInv, Makes, Clear, TypeOK
<1>6. \A x \in fresh[p] :
        offer[x] = 0 => /\ x \in made[p] \/ got[p][x] \in live
                        /\ \A e \in Editor : got[p][x] \notin ed[e].took
  BY <1>5 DEF Link, Named
<1>7. /\ \A q \in Persist \ {p} : /\ at'[q] = at[q] /\ fresh'[q] = fresh[q]
                                  /\ got'[q] = got[q] /\ made'[q] = made[q]
      /\ at'[p] = "linked" /\ made' = made /\ got' = got /\ fresh' = fresh
      /\ top' = top /\ UNCHANGED <<live, offer, filed, became, ed>>
  BY <1>1 DEF TypeOK, dataVars, histVars
<1> QED
  BY <1>2, <1>3, <1>5, <1>6, <1>7, PersistMoves

LEMMA FavorHolds ==
  ASSUME TypeOK, IInv, NEW u \in User, NEW b \in Id, Favor(u, b)
  PROVE  TypeOK' /\ IInv'
<1>1. UNCHANGED <<live, key, name, alias, offer, top, at, fresh, got, made, ed, became,
                  home, filed, mixed, raced, news>>
  BY DEF Favor, persistVars
<1>2. listed' = listed \cup {<<u, b>>} /\ kept' \in SUBSET (User \X Id)
  BY DEF Favor, TypeOK
<1>3. TypeOK'
  BY <1>1, <1>2 DEF TypeOK
<1>4. IInv'
  BY <1>1 DEF IInv, Rows, Makes, OffersFollow, Fit, Clear, Others
<1> QED
  BY <1>3, <1>4

LEMMA FinishedHolds ==
  ASSUME TypeOK, IInv, UNCHANGED vars
  PROVE  TypeOK' /\ IInv'
<1>1. UNCHANGED <<live, key, name, alias, offer, listed, top, at, fresh, got, made, ed,
                  became, home, filed, kept, mixed, raced, news>>
  BY DEF vars, dataVars, persistVars, histVars
<1>2. TypeOK'
  BY <1>1 DEF TypeOK
<1>3. IInv'
  BY <1>1 DEF IInv, Rows, Makes, OffersFollow, Fit, Clear, Others
<1> QED
  BY <1>2, <1>3

LEMMA CommitPersistHolds ==
  ASSUME TypeOK, IInv, NEW p \in Persist, CommitPersist(p)
  PROVE  TypeOK' /\ IInv'
<1> DEFINE rows == {got[p][x] : x \in made[p]}
           new  == {x \in fresh[p] : offer[x] = 0}
           MadeFor(b) == CHOOSE x \in made[p] : got[p][x] = b
<1>1. /\ at[p] = "linked"
      /\ live' = live \cup rows
      /\ offer' = [x \in Sku |-> IF x \in new THEN got[p][x] ELSE offer[x]]
      /\ filed' = [x \in Sku |-> IF x \in new THEN got[p][x] ELSE filed[x]]
      /\ at' = [at EXCEPT ![p] = "done"] /\ made' = [made EXCEPT ![p] = {}]
      /\ fresh' = [fresh EXCEPT ![p] = {}]
      /\ got' = [got EXCEPT ![p] = [x \in Sku |-> 0]]
      /\ UNCHANGED <<alias, listed, top, ed, became, kept, mixed, raced>>
  BY DEF CommitPersist, EndPersist
<1>2. made[p] \subseteq Sku /\ fresh[p] \subseteq Sku /\ top \in Nat
  BY BottlingsAssumptions DEF TypeOK
<1>3. \A b \in rows : /\ b \in 1..top /\ b \in Id /\ b \notin live /\ became[b] = b
                      /\ \A e \in Editor : b \notin Named(ed[e])
                      /\ \A q \in Persist \ {p} : \A y \in made[q] : b # got[q][y]
  BY <1>2 DEF IInv, Makes, Clear, TypeOK
<1>4. \A x \in new : /\ x \in Sku /\ offer[x] = 0 /\ got[p][x] \in live \cup rows
                     /\ \A e \in Editor : got[p][x] \notin ed[e].took
  BY <1>1, <1>2 DEF IInv, Makes, Clear
<1>5. TypeOK'
  <2>1. key' \in [Id -> Key \cup {NoKey}] /\ name' \in [Id -> Name]
    <3>1. \A b \in rows : MadeFor(b) \in Sku
      BY <1>2
    <3>2. /\ key' = [b \in Id |-> IF b \in rows THEN KeyOf[MadeFor(b)] ELSE key[b]]
          /\ name' = [b \in Id |-> IF b \in rows THEN NameOf[MadeFor(b)] ELSE name[b]]
      BY DEF CommitPersist
    <3> HIDE DEF MadeFor, rows
    <3> QED
      BY <3>1, <3>2, BottlingsAssumptions DEF TypeOK
  <2>2. home' \in [Key -> {0} \cup Id]
    <3>1. ASSUME NEW k \in Key, IsMaking(p, k)
          PROVE  got[p][CHOOSE x \in made[p] : KeyOf[x] = k] \in {0} \cup Id
      <4>1. (CHOOSE x \in made[p] : KeyOf[x] = k) \in Sku
        BY <1>2, <3>1 DEF IsMaking
      <4> QED
        BY <4>1 DEF TypeOK
    <3>2. home' = [k \in Key |->
                     IF home[k] = 0 /\ IsMaking(p, k)
                     THEN got[p][CHOOSE x \in made[p] : KeyOf[x] = k] ELSE home[k]]
      BY DEF CommitPersist
    <3>3. ASSUME NEW k \in Key
          PROVE  (IF home[k] = 0 /\ IsMaking(p, k)
                  THEN got[p][CHOOSE x \in made[p] : KeyOf[x] = k] ELSE home[k])
                   \in {0} \cup Id
      BY <3>1 DEF TypeOK
    <3> QED
      BY <3>2, <3>3
  <2>3. news' \in [Persist -> SUBSET Id]
    <3>1. rows \subseteq Id
      BY <1>3
    <3>2. Tell(rows)
      BY DEF CommitPersist
    <3> HIDE DEF rows
    <3> QED
      BY <3>1, <3>2 DEF Tell, TypeOK
  <2>4. live' \subseteq Id
    BY <1>1, <1>3 DEF TypeOK
  <2>5. offer' \in [Sku -> {0} \cup Id] /\ filed' \in [Sku -> {0} \cup Id]
    BY <1>1 DEF TypeOK
  <2>6. at' \in [Persist -> PersistStep] /\ fresh' \in [Persist -> SUBSET Sku]
        /\ made' \in [Persist -> SUBSET Sku]
        /\ got' \in [Persist -> [Sku -> {0} \cup Id]]
    BY <1>1 DEF TypeOK, PersistStep
  <2> QED
    BY <1>1, <2>1, <2>2, <2>3, <2>4, <2>5, <2>6 DEF TypeOK
<1> HIDE DEF rows, new, MadeFor
<1>6. /\ top' = top /\ ed' = ed /\ became' = became /\ live \subseteq live'
      /\ at'[p] = "done" /\ made'[p] = {}
      /\ \A q \in Persist \ {p} : /\ at'[q] = at[q] /\ fresh'[q] = fresh[q]
                                  /\ got'[q] = got[q] /\ made'[q] = made[q]
      /\ \A x \in Sku : /\ x \in new => offer'[x] = got[p][x] /\ filed'[x] = got[p][x]
                        /\ x \notin new => offer'[x] = offer[x] /\ filed'[x] = filed[x]
  BY <1>1 DEF TypeOK
<1>7. \A x \in new : got[p][x] # 0 /\ got[p][x] \in live' /\ became[got[p][x]] = got[p][x]
                     /\ got[p][x] \in Id
  <2>1. \A b \in live : b # 0 /\ became[b] = b /\ b \in Id
    BY <1>2 DEF IInv, Rows, Id, TypeOK
  <2>2. \A b \in rows : b # 0 /\ became[b] = b /\ b \in Id
    BY <1>2, <1>3
  <2> QED
    BY <1>1, <1>4, <2>1, <2>2
<1>8. \A x \in Sku : offer'[x] = 0 => offer[x] = 0 /\ x \notin new
  BY <1>6, <1>7
<1>9. Rows'
  <2>1. live' \subseteq 1..top'
    BY <1>1, <1>3, <1>6 DEF IInv, Rows
  <2>2. \A b \in Id : b \in live' \/ b > top => became[b] = b
    BY <1>1, <1>3 DEF IInv, Rows
  <2>3. \A x \in Sku : filed'[x] = 0 <=> offer'[x] = 0
    BY <1>6, <1>7 DEF IInv, Rows
  <2> QED
    BY <1>6, <2>1, <2>2, <2>3 DEF Rows
<1>10. Makes'
  <2>1. ASSUME NEW q \in Persist PROVE at'[q] \notin {"created", "linked"} => made'[q] = {}
    BY <1>6 DEF IInv, Makes
  <2>2. ASSUME NEW q \in Persist, NEW x \in Sku, x \in made'[q]
        PROVE  /\ q # p /\ got'[q] = got[q] /\ x \in made[q]
               /\ got[q][x] \in 1..top /\ got[q][x] \notin live'
               /\ became[got[q][x]] = got[q][x]
    BY <1>1, <1>3, <1>6, <2>2 DEF IInv, Makes
  <2>3. ASSUME NEW q \in Persist, NEW x \in Sku,
               at'[q] = "linked", x \in fresh'[q] \ made'[q], offer'[x] = 0
        PROVE  got'[q][x] \in live'
    BY <1>6, <1>8, <2>3 DEF IInv, Makes
  <2>4. ASSUME NEW q \in Persist, NEW s \in Persist, NEW x \in Sku, NEW y \in Sku,
               q # s, x \in made'[q], y \in made'[s]
        PROVE  got'[q][x] # got'[s][y]
    BY <2>2, <2>4 DEF IInv, Makes
  <2> QED
    BY <1>6, <2>1, <2>2, <2>3, <2>4 DEF Makes
<1>11. OffersFollow'
  BY <1>6, <1>7 DEF IInv, OffersFollow
<1>12. ASSUME NEW e \in Editor PROVE (Fit(e, ed[e]) /\ Clear(e, ed[e]))'
  <2>1. Fit(e, ed[e]) /\ Clear(e, ed[e]) /\ ed[e].gone \subseteq ed[e].took
        /\ ed[e].offers \subseteq Sku
    BY DEF IInv, Fit, Shaped, TypeOK, Edit
  <2>2. \A x \in ed[e].offers : offer'[x] = offer[x]
    BY <1>4, <1>6, <2>1 DEF Fit
  <2>3. \A x \in Sku : offer'[x] \in ed[e].gone => x \in ed[e].offers
    BY <1>4, <1>6, <2>1 DEF Fit
  <2>4. Fit(e, ed[e])'
    BY <1>6, <2>1, <2>2, <2>3 DEF Fit
  <2>5. Clear(e, ed[e])'
    BY <1>6, <1>8, <2>1 DEF Clear
  <2> QED
    BY <2>4, <2>5
<1> QED
  BY <1>5, <1>9, <1>10, <1>11, <1>12 DEF IInv

-----------------------------------------------------------------------------
(* How an edit begins and ends *)

LEMMA RelinkNewHolds ==
  ASSUME TypeOK, IInv, NEW e \in Editor, NEW x \in Sku, NEW n \in Name,
         RelinkNew(e, x, n)
  PROVE  TypeOK' /\ IInv'
<1> DEFINE r == ed[e]
           o == offer[x]
           t == top + 1
           j == [r EXCEPT !.pc = "left", !.old = o, !.new = t, !.row = t,
                          !.name = n, !.offers = {x}]
<1>1. /\ r \in Edit /\ Fit(e, r) /\ Clear(e, r) /\ r.pc = "idle"
      /\ ed' = [ed EXCEPT ![e] = j] /\ top' = t
      /\ o \in Id /\ o # 0 /\ top < MaxId
      /\ \A f \in Others(e) : x \notin ed[f].offers
      /\ UNCHANGED <<live, key, name, alias, offer, listed, at, fresh, got, made, became,
                     home, filed, kept, mixed, raced, news>>
  BY DEF TypeOK, IInv, RelinkNew, dataVars, persistVars, histVars
<1>2. /\ top \in Nat /\ t \in Nat /\ t > top /\ t # 0 /\ t \in Id /\ t \in 0..MaxId
      /\ 0..top \subseteq 0..t /\ 1..top \subseteq 1..t /\ t \in 0..t
      /\ t \notin 0..top
  BY <1>1, BottlingsAssumptions DEF TypeOK, Id
<1> HIDE DEF r, o, t
<1>3. /\ j \in Edit /\ j.pc = "left" /\ j.old = o /\ j.new = t /\ j.row = t
      /\ j.offers = {x} /\ (j.folds <=> r.folds) /\ j.rest = r.rest /\ j.took = r.took
      /\ j.wrote = r.wrote /\ j.gone = r.gone /\ j.lists = r.lists
  BY <1>1, <1>2, ZenonT(30) DEF Edit, EditStep
<1> HIDE DEF j
<1>4. /\ ed' \in [Editor -> Edit] /\ ed'[e] = j
      /\ \A f \in Editor : f # e => ed'[f] = ed[f]
  BY <1>1, <1>3 DEF TypeOK
<1>5. TypeOK'
  BY <1>1, <1>2, <1>4 DEF TypeOK
<1>6. Rows /\ Makes /\ OffersFollow /\ o \in live /\ o \in 0..top /\ became[t] = t
      /\ \A f \in Editor : /\ Fit(f, ed[f]) /\ Clear(f, ed[f])
                           /\ Named(ed[f]) \subseteq 0..top
  <2>1. /\ Rows /\ Makes /\ OffersFollow
        /\ \A f \in Editor : /\ Fit(f, ed[f]) /\ Clear(f, ed[f])
                             /\ Named(ed[f]) \subseteq 0..top
    BY DEF IInv, Fit
  <2>2. o \in live
    BY <1>1, <2>1 DEF Rows, OffersFollow, o
  <2>3. o \in 0..top /\ became[t] = t
    BY <1>2, <2>1, <2>2 DEF Rows
  <2> QED
    BY <2>1, <2>2, <2>3
<1>7. Rows'
  BY <1>1, <1>2, <1>6 DEF Rows, Id
<1>8. Makes'
  BY <1>1, <1>2, <1>6 DEF Makes
<1>9. OffersFollow'
  BY <1>1, <1>6 DEF OffersFollow
<1>10. r.took = {} /\ r.rest = {} /\ r.gone = {} /\ ~r.folds
  BY <1>1 DEF Fit, Shaped
<1>11. Fit(e, ed[e])'
  <2>1. Shaped(j)
    BY <1>1, <1>2, <1>3, <1>10 DEF Fit, Shaped, Merging, o
  <2>2. Named(j) \subseteq 0..t
    BY <1>2, <1>3, <1>6, <1>10 DEF Named
  <2> QED
    BY <1>1, <1>2, <1>3, <1>4, <1>6, <1>10, <2>1, <2>2 DEF Fit, UsesOf, o
<1>12. \A p \in Persist : \A y \in Sku :
         y \in made[p] => got[p][y] \in 1..top /\ got[p][y] \notin {o, t}
  BY <1>2, <1>6 DEF Makes
<1>13. Clear(e, ed[e])'
  <2>1. \A f \in Others(e) : /\ f \in Editor /\ ed'[f] = ed[f] /\ t \notin ed[f].took
                             /\ x \notin ed[f].offers
    BY <1>1, <1>2, <1>4, <1>6 DEF Others, Named
  <2>2. UsesOf(j) = {t} /\ Named(j) = {o, t}
    BY <1>3, <1>10 DEF UsesOf, Named
  <2> QED
    BY <1>1, <1>3, <1>4, <1>10, <1>12, <2>1, <2>2 DEF Clear
<1>14. ASSUME NEW f \in Editor, f # e PROVE (Fit(f, ed[f]) /\ Clear(f, ed[f]))'
  <2>1. ed'[f] = ed[f]
    BY <1>4, <1>14
  <2>2. Fit(f, ed[f])'
    BY <1>1, <1>2, <1>6, <2>1 DEF Fit
  <2>3. t \notin ed[f].took /\ x \notin ed[f].offers
    BY <1>1, <1>2, <1>6, <1>14 DEF Others, Named
  <2>4. \A g \in Others(f) :
          /\ ed[f].took \cap (ed'[g].took \cup ed'[g].wrote \cup UsesOf(ed'[g])) = {}
          /\ ed'[g].took \cap (ed[f].wrote \cup UsesOf(ed[f])) = {}
          /\ ed[f].offers \cap ed'[g].offers = {}
    <3> SUFFICES ASSUME NEW g \in Others(f)
                 PROVE  /\ ed[f].took \cap (ed'[g].took \cup ed'[g].wrote
                                              \cup UsesOf(ed'[g])) = {}
                        /\ ed'[g].took \cap (ed[f].wrote \cup UsesOf(ed[f])) = {}
                        /\ ed[f].offers \cap ed'[g].offers = {}
      OBVIOUS
    <3>1. CASE g = e
      BY <1>3, <1>4, <1>6, <1>10, <1>14, <2>3, <3>1 DEF Clear, UsesOf, Others, r
    <3>2. CASE g # e
      BY <1>4, <1>6, <3>2 DEF Clear, Others
    <3> QED
      BY <3>1, <3>2
  <2>5. Clear(f, ed[f])'
    BY <1>1, <1>6, <2>1, <2>4 DEF Clear
  <2> QED
    BY <2>2, <2>5
<1> QED
  BY <1>5, <1>7, <1>8, <1>9, <1>11, <1>13, <1>14 DEF IInv

LEMMA CommitEditHolds ==
  ASSUME TypeOK, IInv, NEW e \in Editor, CommitEdit(e)
  PROVE  TypeOK' /\ IInv'
<1> DEFINE r == ed[e]
<1>1. /\ r \in Edit /\ Fit(e, r) /\ Clear(e, r) /\ r.pc = "commit"
      /\ live' = (live \cup ({r.row} \ {0})) \ r.gone
      /\ offer' = [x \in Sku |-> IF x \in r.offers THEN r.new ELSE offer[x]]
      /\ ed' = [ed EXCEPT ![e] = Blank("done")]
      /\ r.folds => /\ became' = [b \in Id |-> IF became[b] \in r.gone
                                               THEN became[r.new] ELSE became[b]]
                    /\ filed' = filed
      /\ ~r.folds => /\ filed' = [x \in Sku |-> IF x \in r.offers THEN r.new
                                                ELSE filed[x]]
                     /\ became' = became
      /\ top' = top /\ at' = at /\ fresh' = fresh /\ got' = got /\ made' = made
      /\ kept' = kept
  BY DEF TypeOK, IInv, CommitEdit, persistVars
<1>2. /\ r.gone \subseteq r.took /\ r.gone \subseteq Id /\ r.offers \subseteq Sku
      /\ r.lists \subseteq User \X Id /\ r.keys \subseteq Key
      /\ r.row \in {0} \cup Id /\ r.new \in {0} \cup Id /\ r.name \in Name
      /\ r.adopt \in Key \cup {NoKey}
      /\ r.new \notin r.gone /\ (r.folds => r.new # 0) /\ (~r.folds => r.lists = {})
      /\ Named(r) \subseteq 0..top
      /\ 0 \notin Id /\ top \in Nat
  <2>1. 0 \notin Id /\ top \in Nat
    BY BottlingsAssumptions DEF TypeOK, Id
  <2>2. /\ r.gone \subseteq Id /\ r.offers \subseteq Sku /\ r.lists \subseteq User \X Id
        /\ r.keys \subseteq Key /\ r.row \in {0} \cup Id /\ r.new \in {0} \cup Id
        /\ r.name \in Name /\ r.adopt \in Key \cup {NoKey}
    BY <1>1 DEF Edit
  <2> QED
    BY <1>1, <2>1, <2>2 DEF Fit, Shaped
<1>3. TypeOK'
  <2>1. key' \in [Id -> Key \cup {NoKey}]
    <3>1. key' = [b \in Id |-> IF b \in r.gone THEN NoKey
                               ELSE IF b = r.new /\ b \in live /\ r.adopt # NoKey
                                    THEN r.adopt ELSE key[b]]
      BY DEF CommitEdit
    <3> QED
      BY <1>2, <3>1 DEF TypeOK
  <2>2. name' \in [Id -> Name]
    <3>1. name' = [b \in Id |-> IF b = r.row THEN r.name ELSE name[b]]
      BY DEF CommitEdit
    <3> QED
      BY <1>2, <3>1 DEF TypeOK
  <2>3. alias' \in [Key -> {0} \cup Id]
    <3>1. alias' = [k \in Key |-> IF k \in r.keys THEN r.new
                                  ELSE IF alias[k] \in r.gone THEN 0 ELSE alias[k]]
      BY DEF CommitEdit
    <3> QED
      BY <1>2, <3>1 DEF TypeOK
  <2>4. listed' \subseteq User \X Id
    <3>1. listed' = {i \in listed : i[2] \notin r.gone}
                      \cup {<<i[1], r.new>> : i \in r.lists}
      BY DEF CommitEdit
    <3>2. \A i \in r.lists : <<i[1], r.new>> \in User \X Id
      BY <1>2
    <3> QED
      BY <3>1, <3>2 DEF TypeOK
  <2>5. became' \in [Id -> Id]
    BY <1>1, <1>2 DEF TypeOK
  <2>6. home' \in [Key -> {0} \cup Id]
    <3>1. \/ home' = home
          \/ home' = [k \in Key |-> IF home[k] # 0 /\ became[home[k]] \in r.gone
                                    THEN 0 ELSE home[k]]
      BY DEF CommitEdit
    <3> QED
      BY <3>1 DEF TypeOK
  <2>7. mixed' \subseteq Id
    <3>1. mixed' = mixed \cup {b \in Id : became[b] \in MixedWith(e)}
      BY DEF CommitEdit
    <3> QED
      BY <3>1 DEF TypeOK
  <2>8. raced' \subseteq Key
    BY <1>2 DEF CommitEdit, TypeOK
  <2>9. news' \in [Persist -> SUBSET Id]
    <3>1. {r.row} \ {0} \subseteq Id /\ Tell({r.row} \ {0})
      BY <1>2 DEF CommitEdit
    <3> QED
      BY <3>1 DEF Tell, TypeOK
  <2>10. ed' \in [Editor -> Edit]
    BY <1>1, BlankIsEdit DEF TypeOK, EditStep
  <2>11. live' \subseteq Id /\ offer' \in [Sku -> {0} \cup Id]
         /\ filed' \in [Sku -> {0} \cup Id]
    BY <1>1, <1>2 DEF TypeOK
  <2> QED
    BY <1>1, <2>1, <2>2, <2>3, <2>4, <2>5, <2>6, <2>7, <2>8, <2>9, <2>10, <2>11
       DEF TypeOK
<1>4. /\ ed'[e] = Blank("done")
      /\ \A f \in Editor : f # e => ed'[f] = ed[f]
  BY <1>1 DEF TypeOK
<1>5. Rows /\ Makes /\ OffersFollow
  BY DEF IInv
\* What the edit leaves alone, and what it moves.
<1>6. \A b \in Id : became[b] = b /\ b \notin r.gone => became'[b] = b
  BY <1>1
<1>7. /\ \A x \in Sku : x \notin r.offers => offer'[x] = offer[x] /\ filed'[x] = filed[x]
                                            /\ offer[x] \notin r.gone
      /\ \A x \in r.offers : offer'[x] = r.new /\ offer[x] # 0
  BY <1>1, <1>2 DEF Fit
<1>8. r.offers # {} => /\ r.new \in Id /\ r.new \in live' /\ became'[r.new] = r.new
                       /\ r.new # 0
  <2> SUFFICES ASSUME r.offers # {}
               PROVE  /\ r.new \in Id /\ r.new \in live' /\ became'[r.new] = r.new
                      /\ r.new # 0
    OBVIOUS
  <2>1. r.new \in live \/ (r.new # 0 /\ r.new = r.row)
    BY <1>1 DEF Fit
  <2>2. r.new \in Id /\ became[r.new] = r.new /\ r.new # 0
    BY <1>1, <1>2, <1>5, <2>1 DEF Fit, Rows, TypeOK
  <2> QED
    BY <1>1, <1>2, <1>6, <2>1, <2>2
<1>9. \A x \in Sku : offer'[x] = 0 => offer[x] = 0
  BY <1>7, <1>8
<1>10. Rows'
  <2>1. live' \subseteq 1..top
    BY <1>1, <1>2, <1>5 DEF Rows, Named
  <2>2. \A b \in Id : b \in live' \/ b > top => became'[b] = b
    <3> SUFFICES ASSUME NEW b \in Id, b \in live' \/ b > top PROVE became'[b] = b
      OBVIOUS
    <3>1. b \notin r.gone
      <4>1. r.gone \subseteq 0..top
        BY <1>2 DEF Named
      <4> QED
        BY <1>1, <1>2, <4>1
    <3>2. became[b] = b
      BY <1>1, <1>2, <1>5 DEF Rows, Fit
    <3> QED
      BY <1>6, <3>1, <3>2
  <2>3. \A x \in Sku : filed'[x] = 0 <=> offer'[x] = 0
    <3> SUFFICES ASSUME NEW x \in Sku PROVE filed'[x] = 0 <=> offer'[x] = 0
      OBVIOUS
    <3>1. CASE x \in r.offers
      BY <1>1, <1>5, <1>7, <1>8, <3>1 DEF Rows
    <3>2. CASE x \notin r.offers
      BY <1>5, <1>7, <3>2 DEF Rows
    <3> QED
      BY <3>1, <3>2
  <2> QED
    BY <1>1, <2>1, <2>2, <2>3 DEF Rows
<1>11. OffersFollow'
  <2> SUFFICES ASSUME NEW x \in Sku, filed'[x] # 0
               PROVE  offer'[x] = became'[filed'[x]] /\ offer'[x] \in live'
    BY DEF OffersFollow
  <2>1. CASE x \notin r.offers
    <3>1. /\ filed[x] # 0 /\ filed[x] \in Id
          /\ offer[x] = became[filed[x]] /\ offer[x] \in live /\ offer[x] \notin r.gone
      BY <1>5, <1>7, <2>1 DEF OffersFollow, TypeOK
    <3>2. became'[filed[x]] = became[filed[x]]
      BY <1>1, <3>1
    <3> QED
      BY <1>1, <1>7, <2>1, <3>1, <3>2
  <2>2. CASE x \in r.offers /\ r.folds
    <3>1. /\ filed[x] # 0 /\ filed[x] \in Id /\ offer[x] = became[filed[x]]
          /\ filed'[x] = filed[x]
      BY <1>1, <1>5, <1>7, <2>2 DEF OffersFollow, Rows, TypeOK
    <3>2. offer[x] \in r.gone
      BY <1>1, <2>2 DEF Fit, Leaving
    <3>3. became'[filed[x]] = became[r.new]
      BY <1>1, <2>2, <3>1, <3>2
    <3>4. became[r.new] = r.new
      BY <1>1, <1>2, <1>8, <2>2
    <3> QED
      BY <1>7, <1>8, <2>2, <3>1, <3>3, <3>4
  <2>3. CASE x \in r.offers /\ ~r.folds
    BY <1>1, <1>7, <1>8, <2>3
  <2> QED
    BY <2>1, <2>2, <2>3
<1>12. ASSUME NEW p \in Persist, NEW x \in Sku, x \in made[p]
       PROVE  /\ got[p][x] \in 1..top /\ got[p][x] \notin live'
              /\ became'[got[p][x]] = got[p][x]
  <2>1. got[p][x] \in 1..top /\ got[p][x] \notin live /\ got[p][x] \in Id
        /\ became[got[p][x]] = got[p][x]
    BY <1>2, <1>5, <1>12 DEF Makes, TypeOK
  <2>2. got[p][x] # r.row /\ got[p][x] \notin r.took
    BY <1>1, <1>12 DEF Clear, Named
  <2> QED
    BY <1>1, <1>2, <1>6, <2>1, <2>2
<1>13. Makes'
  <2>1. ASSUME NEW p \in Persist, NEW x \in Sku,
               at[p] = "linked", x \in fresh[p] \ made[p], offer'[x] = 0
        PROVE  got[p][x] \in live'
    <3>1. got[p][x] \in live /\ got[p][x] \notin r.took
      BY <1>1, <1>5, <1>9, <2>1 DEF Makes, Clear
    <3> QED
      BY <1>1, <1>2, <3>1
  <2> QED
    BY <1>1, <1>5, <1>12, <2>1 DEF Makes
<1>14. (Fit(e, ed[e]) /\ Clear(e, ed[e]))'
  <2> DEFINE j == Blank("done")
  <2>1. /\ j.pc = "done" /\ j.folds = FALSE /\ j.old = 0 /\ j.new = 0 /\ j.row = 0
        /\ j.rest = {} /\ j.took = {} /\ j.wrote = {} /\ j.gone = {}
        /\ j.offers = {} /\ j.lists = {} /\ ed'[e] = j
    BY <1>4, BlankFields
  <2> HIDE DEF j
  <2>2. UsesOf(j) = {} /\ Named(j) = {0} /\ 0 \in 0..top /\ 0 \notin 1..top
    BY <1>2, <2>1 DEF UsesOf, Named
  <2>3. Fit(e, ed[e])'
    BY <1>1, <2>1, <2>2 DEF Fit, Shaped, Merging
  <2>4. Clear(e, ed[e])'
    BY <1>1, <1>12, <2>1, <2>2 DEF Clear
  <2> QED
    BY <2>3, <2>4
<1>15. ASSUME NEW f \in Editor, f # e PROVE (Fit(f, ed[f]) /\ Clear(f, ed[f]))'
  <2>1. /\ ed'[f] = ed[f] /\ Fit(f, ed[f]) /\ Clear(f, ed[f])
        /\ ed[f].gone \subseteq ed[f].took /\ ed[f].offers \subseteq Sku
        /\ ed[f].row \in {0} \cup Id
    BY <1>4, <1>15 DEF IInv, Fit, Shaped, TypeOK, Edit
  <2>2. /\ r.took \cap (ed[f].wrote \cup UsesOf(ed[f])) = {}
        /\ ed[f].took \cap UsesOf(r) = {}
        /\ ed[f].offers \cap r.offers = {}
    BY <1>1, <1>15 DEF Clear, Others
  <2>3. Fit(f, ed[f])'
    <3>1. ed[f].offers # {} => ed[f].new \in live' \/ (ed[f].new # 0 /\ ed[f].new = ed[f].row)
      BY <1>1, <1>2, <2>1, <2>2 DEF Fit, UsesOf
    <3>2. ed[f].row # 0 => became'[ed[f].row] = ed[f].row
      BY <1>2, <1>6, <2>1, <2>2 DEF Fit
    <3>3. \A x \in ed[f].offers : offer'[x] = offer[x]
      BY <1>7, <2>1, <2>2
    <3>4. \A x \in Sku : offer'[x] \in ed[f].gone => x \in ed[f].offers
      <4> SUFFICES ASSUME NEW x \in Sku, offer'[x] \in ed[f].gone
                   PROVE  x \in ed[f].offers
        OBVIOUS
      <4>1. x \notin r.offers
        BY <1>7, <2>1, <2>2 DEF UsesOf
      <4> QED
        BY <1>7, <2>1, <4>1 DEF Fit
    <3> QED
      BY <1>1, <2>1, <3>1, <3>2, <3>3, <3>4 DEF Fit
  <2>4. Clear(f, ed[f])'
    <3>1. \A g \in Others(f) :
            /\ ed[f].took \cap (ed'[g].took \cup ed'[g].wrote \cup UsesOf(ed'[g])) = {}
            /\ ed'[g].took \cap (ed[f].wrote \cup UsesOf(ed[f])) = {}
            /\ ed[f].offers \cap ed'[g].offers = {}
      <4>1. /\ ed'[e].took = {} /\ ed'[e].wrote = {} /\ ed'[e].offers = {}
            /\ UsesOf(ed'[e]) = {}
        BY <1>4, BlankFields DEF UsesOf
      <4> QED
        BY <1>4, <2>1, <4>1 DEF Clear, Others
    <3> QED
      BY <1>1, <1>9, <2>1, <3>1 DEF Clear
  <2> QED
    BY <2>3, <2>4
<1> QED
  BY <1>3, <1>10, <1>11, <1>13, <1>14, <1>15 DEF IInv

-----------------------------------------------------------------------------
(* The theorems *)

LEMMA InitHolds == Init => TypeOK /\ IInv
<1> SUFFICES ASSUME Init PROVE TypeOK /\ IInv
  OBVIOUS
<1>1. /\ live = 1..Start /\ top = Start /\ offer = StartOffer /\ filed = StartOffer
      /\ at = [p \in Persist |-> "idle"] /\ made = [p \in Persist |-> {}]
      /\ became = [b \in Id |-> b] /\ ed = [e \in Editor |-> Blank("idle")]
  BY DEF Init
<1>2. /\ Start \in Nat /\ MaxId \in Nat /\ 1..Start \subseteq Id
      /\ 0..Start \subseteq {0} \cup Id /\ Start \in 0..MaxId
      /\ StartOffer \in [Sku -> 0..Start]
  BY BottlingsAssumptions DEF Id
<1>3. TypeOK
  <2>1. ed \in [Editor -> Edit]
    BY <1>1, BlankIsEdit DEF EditStep
  <2>2. home \in [Key -> {0} \cup Id]
    BY DEF Init
  <2>3. offer \in [Sku -> {0} \cup Id] /\ filed \in [Sku -> {0} \cup Id]
    BY <1>1, <1>2
  <2> QED
    BY <1>1, <1>2, <2>1, <2>2, <2>3, BottlingsAssumptions
       DEF Init, TypeOK, PersistStep
<1>4. Rows
  BY <1>1, <1>2 DEF Rows, Id
<1>5. Makes
  BY <1>1 DEF Makes
<1>6. OffersFollow
  BY <1>1, <1>2 DEF OffersFollow, Id
<1>7. ASSUME NEW e \in Editor PROVE Fit(e, ed[e]) /\ Clear(e, ed[e])
  BY <1>1, <1>3, <1>5, BlankFits
<1> QED
  BY <1>3, <1>4, <1>5, <1>6, <1>7 DEF IInv

LEMMA NextHolds == TypeOK /\ IInv /\ [Next]_vars => TypeOK' /\ IInv'
<1> SUFFICES ASSUME TypeOK, IInv, [Next]_vars PROVE TypeOK' /\ IInv'
  OBVIOUS
<1>1. ASSUME NEW p \in Persist, PersistStepOf(p) PROVE TypeOK' /\ IInv'
  BY <1>1, LookUpHolds, IdentifyHolds, CreateHolds, LinkHolds, CommitPersistHolds,
     RollBackPersistHolds DEF PersistStepOf
<1>2. ASSUME NEW e \in Editor, EditStepOf(e) PROVE TypeOK' /\ IInv'
  BY <1>2, MergeHolds, RenameHolds, TwinsHolds, RelinkToHolds, RelinkNewHolds,
     CheckLeftHolds, ReadHolds, FactsHolds, MoveOffersHolds, MoveListsHolds,
     RepointHolds, RetireHolds, DeleteHolds, CommitEditHolds, RollBackEditHolds
     DEF EditStepOf
<1>3. ASSUME NEW u \in User, NEW b \in Id, Favor(u, b) PROVE TypeOK' /\ IInv'
  BY <1>3, FavorHolds
<1>4. CASE UNCHANGED vars
  BY <1>4, FinishedHolds
<1> QED
  BY <1>1, <1>2, <1>3, <1>4 DEF Next, Finished

\* Every variable keeps its type.
THEOREM TypeCorrect == Spec => []TypeOK
BY InitHolds, NextHolds, PTL DEF Spec

\* For any number of persists and edits, and however they overlap, an offer is
\* on the bottling it was last linked to, or the one that was folded into, and
\* that bottling is there.
THEOREM OffersAreKept == Spec => []OffersFollow
<1>1. IInv => OffersFollow
  BY DEF IInv
<1> QED
  BY <1>1, InitHolds, NextHolds, PTL DEF Spec

-----------------------------------------------------------------------------
(* No twin that could be seen *)

\* What a persist has found no bottling for has none but those told of since.
Unseen(p, x) ==
  \/ at[p] = "identified" /\ x \in fresh[p] /\ got[p][x] = 0
  \/ x \in made[p]

TwinInv ==
  \A p \in Persist, x \in Sku :
    KeyOf[x] # NoKey /\ Unseen(p, x) => Alike(NameOf[x]) \subseteq news[p]

\* Editors' steps before their last, and a persist's first and fourth.
LEMMA TwinQuiet ==
  ASSUME TwinInv, UNCHANGED <<live, name, news>>,
         \A p \in Persist, x \in Sku : Unseen(p, x)' => Unseen(p, x)
  PROVE  TwinInv'
BY DEF TwinInv, Alike

\* A commit tells every persist under way of what it added or renamed.
LEMMA TwinCommit ==
  ASSUME TypeOK, IInv, TwinInv, NEW S, Tell(S),
         live' \subseteq live \cup S,
         \A b \in live' : b \in S \/ name'[b] = name[b],
         \A p \in Persist, x \in Sku : Unseen(p, x)' => Unseen(p, x)
  PROVE  TwinInv'
<1> SUFFICES ASSUME NEW p \in Persist, NEW x \in Sku, KeyOf[x] # NoKey,
                    Unseen(p, x)', NEW b \in Alike(NameOf[x])'
             PROVE  b \in news'[p]
  BY DEF TwinInv
<1>1. Unseen(p, x) /\ Unfinished(p)
  BY DEF Unseen, Unfinished, IInv, Makes
<1>2. news'[p] = news[p] \cup S
  BY <1>1 DEF Tell
<1>3. b \in S \/ b \in Alike(NameOf[x])
  BY DEF Alike
<1> QED
  BY <1>1, <1>2, <1>3 DEF TwinInv

LEMMA TwinNext == TypeOK /\ IInv /\ TwinInv /\ [Next]_vars => TwinInv'
<1> SUFFICES ASSUME TypeOK, IInv, TwinInv, [Next]_vars PROVE TwinInv'
  OBVIOUS
<1>1. ASSUME NEW p \in Persist, PersistStepOf(p) PROVE TwinInv'
  <2>1. CASE LookUp(p)
    <3>1. UNCHANGED <<live, name, news, made>> /\ at' = [at EXCEPT ![p] = "known"]
          /\ \A q \in Persist : q # p => fresh'[q] = fresh[q] /\ got'[q] = got[q]
      BY <2>1 DEF LookUp, dataVars, TypeOK
    <3>2. \A q \in Persist, x \in Sku : Unseen(q, x)' => Unseen(q, x)
      BY <3>1 DEF Unseen, TypeOK
    <3> QED
      BY <3>1, <3>2, TwinQuiet
  <2>2. CASE Identify(p)
    <3>1. UNCHANGED <<live, name, made, fresh>> /\ at[p] = "known"
          /\ at' = [at EXCEPT ![p] = "identified"] /\ news' = [news EXCEPT ![p] = {}]
      BY <2>2 DEF Identify, dataVars
    <3>2. PICK f \in [Pending(p) -> {0} \cup live] :
            /\ \A x \in Pending(p) : IF Alike(NameOf[x]) = {} THEN f[x] = 0
                                     ELSE IsOldest(f[x], Alike(NameOf[x]))
            /\ got' = [got EXCEPT ![p] = [x \in Sku |-> IF x \in Pending(p) THEN f[x]
                                                        ELSE got[p][x]]]
      BY <2>2 DEF Identify
    <3>3. /\ \A x \in Sku : got'[p][x] = IF x \in Pending(p) THEN f[x] ELSE got[p][x]
          /\ \A q \in Persist : /\ at'[q] = IF q = p THEN "identified" ELSE at[q]
                                /\ q # p => got'[q] = got[q] /\ news'[q] = news[q]
          /\ made[p] = {}
      <4> DEFINE g == [x \in Sku |-> IF x \in Pending(p) THEN f[x] ELSE got[p][x]]
      <4>1. got' = [got EXCEPT ![p] = g]
        BY <3>2
      <4>2. \A x \in Sku : g[x] = IF x \in Pending(p) THEN f[x] ELSE got[p][x]
        OBVIOUS
      <4>3. made[p] = {}
        BY <3>1 DEF IInv, Makes
      <4> HIDE DEF g
      <4>4. got'[p] = g /\ \A q \in Persist : q # p => got'[q] = got[q]
        BY <4>1 DEF TypeOK
      <4>5. \A q \in Persist : /\ at'[q] = IF q = p THEN "identified" ELSE at[q]
                               /\ q # p => news'[q] = news[q]
        BY <3>1 DEF TypeOK
      <4> QED
        BY <4>2, <4>3, <4>4, <4>5
    <3>4. 0 \notin live
      BY DEF TypeOK, Id
    <3>5. ASSUME NEW x \in Sku, KeyOf[x] # NoKey, Unseen(p, x)'
          PROVE  Alike(NameOf[x]) = {}
      <4>1. x \in fresh[p] /\ got'[p][x] = 0
        BY <3>1, <3>3, <3>5 DEF Unseen
      <4>2. x \in Pending(p)
        BY <3>3, <3>5, <4>1 DEF Pending
      <4> QED
        BY <3>2, <3>3, <3>4, <4>1, <4>2 DEF IsOldest, Alike
    <3>6. ASSUME NEW q \in Persist, q # p, NEW x \in Sku, KeyOf[x] # NoKey,
                 Unseen(q, x)'
          PROVE  Alike(NameOf[x]) \subseteq news'[q]
      BY <3>1, <3>3, <3>6 DEF Unseen, TwinInv
    <3> QED
      BY <3>1, <3>5, <3>6 DEF TwinInv, Alike
  <2>3. CASE Create(p)
    <3>1. UNCHANGED <<live, name, news, fresh>> /\ at[p] = "identified"
          /\ at' = [at EXCEPT ![p] = "created"]
          /\ \A q \in Persist : q # p => got'[q] = got[q] /\ made'[q] = made[q]
      BY <2>3 DEF Create, dataVars, TypeOK
    <3>2. ASSUME NEW q \in Persist, NEW x \in Sku, Unseen(q, x)' PROVE Unseen(q, x)
      <4>1. CASE q = p
        <5>1. at'[p] = "created"
          BY <3>1 DEF TypeOK
        <5>2. x \in made'[p]
          BY <3>2, <4>1, <5>1 DEF Unseen
        <5>3. x \in fresh[p] /\ got[p][x] = 0
          <6>1. made'[p] \subseteq {y \in fresh[p] : got[p][y] = 0}
            BY <2>3 DEF Create, TypeOK
          <6> QED
            BY <5>2, <6>1
        <5> QED
          BY <3>1, <4>1, <5>3 DEF Unseen
      <4>2. CASE q # p
        <5>1. at'[q] = at[q] /\ got'[q] = got[q] /\ made'[q] = made[q]
          BY <3>1, <4>2 DEF TypeOK
        <5> QED
          BY <3>1, <3>2, <5>1 DEF Unseen
      <4> QED
        BY <4>1, <4>2
    <3> QED
      BY <3>1, <3>2, TwinQuiet
  <2>4. CASE Link(p)
    <3>1. UNCHANGED <<live, name, news, fresh, got, made>>
          /\ at' = [at EXCEPT ![p] = "linked"]
      BY <2>4 DEF Link, dataVars
    <3>2. \A q \in Persist, x \in Sku : Unseen(q, x)' => Unseen(q, x)
      BY <3>1 DEF Unseen, TypeOK
    <3> QED
      BY <3>1, <3>2, TwinQuiet
  <2>5. CASE RollBackPersist(p)
    <3>1. UNCHANGED <<live, name, news>> /\ EndPersist(p)
      BY <2>5 DEF RollBackPersist, dataVars
    <3>2. \A q \in Persist, x \in Sku : Unseen(q, x)' => Unseen(q, x)
      BY <3>1 DEF Unseen, EndPersist, TypeOK
    <3> QED
      BY <3>1, <3>2, TwinQuiet
  <2>6. CASE CommitPersist(p)
    <3> DEFINE rows == {got[p][x] : x \in made[p]}
    <3>1. Tell(rows) /\ EndPersist(p) /\ live' = live \cup rows
      BY <2>6 DEF CommitPersist
    <3>2. \A b \in live' : b \in rows \/ name'[b] = name[b]
      <4>1. \A b \in Id : b \in rows \/ name'[b] = name[b]
        BY <2>6 DEF CommitPersist
      <4> QED
        BY <3>1, <4>1 DEF TypeOK
    <3>3. \A q \in Persist, x \in Sku : Unseen(q, x)' => Unseen(q, x)
      BY <3>1 DEF Unseen, EndPersist, TypeOK
    <3> HIDE DEF rows
    <3> QED
      BY <3>1, <3>2, <3>3, TwinCommit
  <2> QED
    BY <1>1, <2>1, <2>2, <2>3, <2>4, <2>5, <2>6 DEF PersistStepOf
<1>2. ASSUME UNCHANGED <<live, name, news, at, fresh, got, made>> PROVE TwinInv'
  BY <1>2, TwinQuiet DEF Unseen
<1>3. ASSUME NEW e \in Editor, EditStepOf(e) PROVE TwinInv'
  <2>1. CASE CommitEdit(e)
    <3>1. Tell({ed[e].row} \ {0}) /\ live' \subseteq live \cup ({ed[e].row} \ {0})
          /\ UNCHANGED <<at, fresh, got, made>>
      BY <2>1 DEF CommitEdit, persistVars
    <3>2. \A b \in live' : b \in {ed[e].row} \ {0} \/ name'[b] = name[b]
      <4>1. name' = [b \in Id |-> IF b = ed[e].row THEN ed[e].name ELSE name[b]]
        BY <2>1 DEF CommitEdit
      <4>2. live' \subseteq Id /\ 0 \notin Id
        BY NextHolds DEF TypeOK, Id
      <4> QED
        BY <4>1, <4>2
    <3>3. \A q \in Persist, x \in Sku : Unseen(q, x)' => Unseen(q, x)
      BY <3>1 DEF Unseen
    <3> QED
      BY <3>1, <3>2, <3>3, TwinCommit
  <2>2. CASE ~CommitEdit(e)
    <3>1. UNCHANGED <<live, name, news, at, fresh, got, made>>
      BY <1>3, <2>2
         DEF EditStepOf, Advance, Merge, Rename, Twins, RelinkTo, RelinkNew, CheckLeft,
             Read, Facts, MoveOffers, MoveLists, Repoint, Retire, Delete, RollBackEdit,
             dataVars, persistVars
    <3> QED
      BY <1>2, <3>1
  <2> QED
    BY <2>1, <2>2
<1>4. ASSUME NEW u \in User, NEW b \in Id, Favor(u, b) PROVE TwinInv'
  BY <1>2, <1>4 DEF Favor, persistVars
<1>5. CASE UNCHANGED vars
  BY <1>2, <1>5 DEF vars, dataVars, persistVars
<1> QED
  BY <1>1, <1>3, <1>4, <1>5 DEF Next, Finished

\* A persist that makes a bottling for a key puts no twin beside one that its
\* last look could see.
THEOREM TwinsAreUnseen == Spec => NoTwinSeen
<1> DEFINE P == \A p \in Persist, x \in Sku :
                  x \in made[p] /\ KeyOf[x] # NoKey /\ got[p][x] \in live' \ live
                    => Alike(NameOf[x]) \subseteq news[p]
<1>1. Init => TwinInv
  BY DEF Init, TwinInv, Unseen
<1>2. TwinInv /\ [Next]_vars => [P]_vars
  BY DEF TwinInv, Unseen
<1>3. NoTwinSeen <=> [][P]_vars
  BY DEF NoTwinSeen
<1> HIDE DEF P
<1> QED
  BY <1>1, <1>2, <1>3, InitHolds, NextHolds, TwinNext, PTL DEF Spec


-----------------------------------------------------------------------------
(* No list entry that is left behind *)

\* What is gone once an edit commits, from when the list entries have moved on.
Removing(j) ==
  j.gone \cup (IF j.pc \in {"aliases", "key", "delete"} THEN {j.old} ELSE {})

\* Every entry kept for what it removes has moved to its survivor, which it
\* has locked.
ListFit(j) ==
  /\ \A i \in kept : i[2] \notin mixed /\ became[i[2]] \in Removing(j)
                       => <<i[1], became[i[2]]>> \in j.lists
  /\ j.lists # {} => j.new \in live /\ j.new \in j.wrote
  /\ j.folds /\ (j.pc \notin {"read", "facts"} \/ j.gone # {}) => j.new \in j.wrote
  /\ j.folds => j.new # j.row

ListInv == ListsFollow /\ \A e \in Editor : ListFit(ed[e])

\* A step within an edit's transaction need only fit it.
LEMMA ListMoves ==
  ASSUME TypeOK, ListInv, NEW e \in Editor, NEW j, ListFit(j),
         ed' = [ed EXCEPT ![e] = j], UNCHANGED <<live, listed, became, kept, mixed>>
  PROVE  ListInv'
<1>1. \A f \in Editor : ed'[f] = IF f = e THEN j ELSE ed[f]
  BY DEF TypeOK
<1>2. UNCHANGED <<live, listed, became, kept, mixed>>
  OBVIOUS
<1>3. ASSUME NEW f \in Editor PROVE ListFit(ed[f])'
  <2>1. CASE f = e
    BY <1>1, <1>2, <2>1 DEF ListFit, Removing
  <2>2. CASE f # e
    BY <1>1, <1>2, <2>2 DEF ListFit, Removing, ListInv
  <2> QED
    BY <2>1, <2>2
<1> QED
  BY <1>2, <1>3 DEF ListInv, ListsFollow

\* Nor need it, where it leaves lists and survivor alone.
LEMMA ListStays ==
  ASSUME NEW r, ListFit(r), NEW j,
         Removing(j) \subseteq Removing(r), j.lists = r.lists, j.new = r.new,
         j.row = r.row, r.wrote \subseteq j.wrote, j.folds <=> r.folds,
         \/ r.pc \notin {"read", "facts"} \/ r.gone # {} \/ j.new \in j.wrote
         \/ j.pc \in {"read", "facts"} /\ j.gone = {}
  PROVE  ListFit(j)
BY DEF ListFit

\* An edit that has removed nothing and moves nothing.
LEMMA ListStarts ==
  ASSUME NEW j, Removing(j) = {}, j.lists = {}, j.gone = {},
         j.folds => j.pc \in {"read", "facts"} /\ j.new # j.row
  PROVE  ListFit(j)
BY DEF ListFit


LEMMA ListEdits ==
  ASSUME TypeOK, IInv, ListInv, NEW e \in Editor, EditStepOf(e), ~CommitEdit(e)
  PROVE  ListInv'
<1> DEFINE r == ed[e]
<1> USE DEF Advance, dataVars, histVars
<1>1. r \in Edit /\ ListFit(r) /\ Shaped(r) /\ 0 \notin Id /\ live \subseteq Id
  BY DEF TypeOK, ListInv, IInv, Fit, Id
<1>2. r.gone = {} => r.lists = {} \/ r.folds
  BY <1>1 DEF Shaped
<1>3. r.pc \in {"idle", "twins", "left", "done"} => r.gone = {} /\ r.lists = {} /\ ~r.folds
  BY <1>1 DEF Shaped
<1>4. ASSUME NEW l \in Id, NEW s \in Id, Merge(e, l, s) PROVE ListInv'
  <2> DEFINE j == [r EXCEPT !.pc = "read", !.folds = TRUE, !.old = l, !.new = s]
  <2>1. Advance(e, j) /\ r.pc = "idle" /\ s \in live
    BY <1>4 DEF Merge
  <2>2. /\ j.pc = "read" /\ j.lists = r.lists /\ j.gone = r.gone /\ j.new = s
        /\ j.row = r.row
    BY <1>1 DEF Edit
  <2> HIDE DEF j
  <2>3. r.row = 0
    BY <1>1, <2>1 DEF Shaped
  <2>4. ListFit(j)
    BY <1>1, <1>3, <2>1, <2>2, <2>3, ListStarts DEF Removing
  <2> QED
    BY <2>1, <2>4, ListMoves
<1>5. ASSUME NEW b \in Id, NEW n \in Name, Rename(e, b, n) PROVE ListInv'
  <2> DEFINE j == [r EXCEPT !.pc = "twins", !.row = b, !.name = n, !.wrote = {b}]
  <2>1. Advance(e, j) /\ r.pc = "idle"
    BY <1>5 DEF Rename
  <2>2. /\ j.pc = "twins" /\ j.lists = r.lists /\ j.gone = r.gone
        /\ (j.folds <=> r.folds)
    BY <1>1 DEF Edit
  <2> HIDE DEF j
  <2>4. ListFit(j)
    BY <1>3, <2>1, <2>2, ListStarts DEF Removing
  <2> QED
    BY <2>1, <2>4, ListMoves
<1>6. ASSUME Twins(e) PROVE ListInv'
  <2>1. CASE Advance(e, [r EXCEPT !.pc = "commit"])
    <3> DEFINE j == [r EXCEPT !.pc = "commit"]
    <3>1. Advance(e, j) /\ r.pc = "twins"
      BY <1>6, <2>1 DEF Twins
    <3>2. /\ j.pc = "commit" /\ j.lists = r.lists /\ j.gone = r.gone
          /\ (j.folds <=> r.folds)
      BY <1>1 DEF Edit
    <3> HIDE DEF j
    <3>3. ListFit(j)
      BY <1>3, <3>1, <3>2, ListStarts DEF Removing
    <3> QED
      BY <3>1, <3>3, ListMoves
  <2>2. ASSUME NEW s \in Alike(r.name) \ {r.row}, NEW B,
               Advance(e, [r EXCEPT !.pc = "read", !.folds = TRUE, !.old = r.row,
                                    !.new = s, !.rest = B])
        PROVE  ListInv'
    <3> DEFINE j == [r EXCEPT !.pc = "read", !.folds = TRUE, !.old = r.row,
                              !.new = s, !.rest = B]
    <3>1. Advance(e, j) /\ r.pc = "twins"
      BY <1>6, <2>2 DEF Twins
    <3>2. /\ j.pc = "read" /\ j.lists = r.lists /\ j.gone = r.gone /\ j.new = s
          /\ j.row = r.row
      BY <1>1 DEF Edit
    <3> HIDE DEF j
    <3>3. ListFit(j)
      BY <1>3, <2>2, <3>1, <3>2, ListStarts DEF Removing
    <3> QED
      BY <3>1, <3>3, ListMoves
  <2> QED
    BY <1>6, <2>1, <2>2 DEF Twins
<1>7. ASSUME NEW x \in Sku, NEW t \in Id, RelinkTo(e, x, t) PROVE ListInv'
  <2> DEFINE j == [r EXCEPT !.pc = "left", !.old = offer[x], !.new = t, !.offers = {x}]
  <2>1. Advance(e, j) /\ r.pc = "idle"
    BY <1>7 DEF RelinkTo
  <2>2. /\ j.pc = "left" /\ j.lists = r.lists /\ j.gone = r.gone
        /\ (j.folds <=> r.folds)
    BY <1>1 DEF Edit
  <2> HIDE DEF j
  <2>4. ListFit(j)
    BY <1>3, <2>1, <2>2, ListStarts DEF Removing
  <2> QED
    BY <2>1, <2>4, ListMoves
<1>8. ASSUME NEW x \in Sku, NEW n \in Name, RelinkNew(e, x, n) PROVE ListInv'
  <2> DEFINE j == [r EXCEPT !.pc = "left", !.old = offer[x], !.new = top + 1,
                            !.row = top + 1, !.name = n, !.offers = {x}]
  <2>1. /\ ed' = [ed EXCEPT ![e] = j] /\ r.pc = "idle"
        /\ UNCHANGED <<live, listed, became, kept, mixed>>
    BY <1>8 DEF RelinkNew
  <2>2. /\ j.pc = "left" /\ j.lists = r.lists /\ j.gone = r.gone
        /\ (j.folds <=> r.folds)
    BY <1>1 DEF Edit
  <2> HIDE DEF j
  <2>4. ListFit(j)
    BY <1>3, <2>1, <2>2, ListStarts DEF Removing
  <2> QED
    BY <2>1, <2>4, ListMoves
<1>9. ASSUME CheckLeft(e) PROVE ListInv'
  <2> DEFINE s == IF /\ r.old # r.new
                     /\ Offers(r.old) \subseteq r.offers
                     /\ \A u \in User : <<u, r.old>> \notin listed
                  THEN "delete" ELSE "commit"
             j == [r EXCEPT !.pc = s]
  <2>1. Advance(e, j) /\ r.pc = "left"
    BY <1>9 DEF CheckLeft
  <2>2. /\ s \in {"commit", "delete"}
        /\ s = "delete" => \A u \in User : <<u, r.old>> \notin listed
    OBVIOUS
  <2> HIDE DEF s
  <2>3. /\ j.pc = s /\ j.lists = r.lists /\ j.gone = r.gone /\ j.old = r.old
        /\ (j.folds <=> r.folds)
    BY <1>1 DEF Edit
  <2> HIDE DEF j
  <2>4. ListFit(j)
    <3>1. ASSUME s = "delete", NEW i \in kept, i[2] \notin mixed PROVE became[i[2]] # r.old
      BY <2>2, <3>1 DEF ListInv, ListsFollow, TypeOK
    <3> QED
      BY <1>3, <2>1, <2>2, <2>3, <3>1 DEF ListFit, Removing
  <2> QED
    BY <2>1, <2>4, ListMoves
<1>10. ASSUME Read(e) PROVE ListInv'
  <2> DEFINE n == IF r.adopt # NoKey THEN r.adopt ELSE key[r.new]
             j == [r EXCEPT !.pc = "facts", !.oldKey = key[r.old], !.newKey = n]
  <2>1. Advance(e, j) /\ r.pc = "read"
    BY <1>10 DEF Read
  <2> HIDE DEF n
  <2>2. /\ j.pc = "facts" /\ j.lists = r.lists /\ j.gone = r.gone /\ j.new = r.new
        /\ j.row = r.row /\ j.wrote = r.wrote /\ (j.folds <=> r.folds)
    BY <1>1 DEF Edit
  <2> HIDE DEF j
  <2>3. ListFit(j)
    BY <1>1, <2>1, <2>2, ListStays DEF Removing
  <2> QED
    BY <2>1, <2>3, ListMoves
<1>11. ASSUME Facts(e) PROVE ListInv'
  <2> DEFINE W == r.wrote \cup {r.new}
             j == [r EXCEPT !.pc = "offers", !.wrote = W]
  <2>1. Advance(e, j) /\ r.pc = "facts" /\ r.wrote \subseteq W /\ r.new \in W
    BY <1>1, <1>11 DEF Facts, Edit
  <2> HIDE DEF W
  <2>2. /\ j.pc = "offers" /\ j.lists = r.lists /\ j.gone = r.gone /\ j.new = r.new
        /\ j.row = r.row /\ j.wrote = W /\ (j.folds <=> r.folds)
    BY <1>1 DEF Edit
  <2> HIDE DEF j
  <2>3. ListFit(j)
    BY <1>1, <2>1, <2>2, ListStays DEF Removing
  <2> QED
    BY <2>1, <2>3, ListMoves
<1>12. ASSUME MoveOffers(e) PROVE ListInv'
  <2> DEFINE O == r.offers \cup Offers(r.old)
             j == [r EXCEPT !.pc = "lists", !.offers = O]
  <2>1. Advance(e, j) /\ r.pc = "offers"
    BY <1>1, <1>12 DEF MoveOffers, Edit
  <2> HIDE DEF O
  <2>2. /\ j.pc = "lists" /\ j.lists = r.lists /\ j.gone = r.gone /\ j.new = r.new
        /\ j.row = r.row /\ j.wrote = r.wrote /\ (j.folds <=> r.folds)
    BY <1>1 DEF Edit
  <2> HIDE DEF j
  <2>3. ListFit(j)
    BY <1>1, <2>1, <2>2, ListStays DEF Removing
  <2> QED
    BY <2>1, <2>3, ListMoves
<1>13. ASSUME MoveLists(e) PROVE ListInv'
  <2> DEFINE mine == {i \in listed : i[2] = r.old}
             L == r.lists \cup mine
             j == [r EXCEPT !.pc = "aliases", !.lists = L]
  <2>1. Advance(e, j) /\ r.pc = "lists" /\ (mine # {} => r.new \in live)
    BY <1>1, <1>13 DEF MoveLists, Edit
  <2>2. \A i \in kept : i[2] \notin mixed /\ became[i[2]] \in Removing(r) \cup {r.old}
                          => <<i[1], became[i[2]]>> \in L
    BY <1>1 DEF ListInv, ListsFollow, ListFit
  <2>3. L # {} => r.new \in live
    BY <1>1, <2>1 DEF ListFit
  <2>4. r.new \in r.wrote
    BY <1>1, <2>1 DEF ListFit, Shaped, Merging
  <2> HIDE DEF mine, L
  <2>5. /\ j.pc = "aliases" /\ j.lists = L /\ j.gone = r.gone /\ j.new = r.new
        /\ j.old = r.old /\ j.row = r.row /\ j.wrote = r.wrote /\ (j.folds <=> r.folds)
    BY <1>1 DEF Edit
  <2> HIDE DEF j
  <2>6. ListFit(j)
    BY <1>1, <2>1, <2>2, <2>3, <2>4, <2>5 DEF ListFit, Removing
  <2> QED
    BY <2>1, <2>6, ListMoves
<1>14. ASSUME Repoint(e) PROVE ListInv'
  <2> DEFINE K == r.keys \cup {k \in Key : alias[k] = r.old}
             j == [r EXCEPT !.pc = "key", !.keys = K]
  <2>1. Advance(e, j) /\ r.pc = "aliases"
    BY <1>1, <1>14 DEF Repoint, Edit
  <2> HIDE DEF K
  <2>2. /\ j.pc = "key" /\ j.lists = r.lists /\ j.gone = r.gone /\ j.new = r.new
        /\ j.old = r.old /\ j.row = r.row /\ j.wrote = r.wrote /\ (j.folds <=> r.folds)
    BY <1>1 DEF Edit
  <2> HIDE DEF j
  <2>3. ListFit(j)
    BY <1>1, <2>1, <2>2, ListStays DEF Removing
  <2> QED
    BY <2>1, <2>3, ListMoves
<1>15. ASSUME Retire(e) PROVE ListInv'
  <2>1. ASSUME NEW j, Advance(e, j), j.pc = "delete", j.lists = r.lists,
               j.gone = r.gone, j.new = r.new, j.old = r.old, j.row = r.row,
               j.wrote = r.wrote, j.folds <=> r.folds
        PROVE  ListInv'
    <3>1. r.pc = "key"
      BY <1>15 DEF Retire
    <3>2. ListFit(j)
      BY <1>1, <2>1, <3>1, ListStays DEF Removing
    <3> QED
      BY <2>1, <3>2, ListMoves
  <2>2. CASE Advance(e, [r EXCEPT !.pc = "delete"])
    <3> DEFINE j == [r EXCEPT !.pc = "delete"]
    <3>1. /\ j.pc = "delete" /\ j.lists = r.lists /\ j.gone = r.gone /\ j.new = r.new
          /\ j.old = r.old /\ j.row = r.row /\ j.wrote = r.wrote /\ (j.folds <=> r.folds)
      BY <1>1 DEF Edit
    <3>2. Advance(e, j)
      BY <2>2
    <3> HIDE DEF j
    <3> QED
      BY <2>1, <3>1, <3>2
  <2>3. ASSUME NEW a, NEW T, Advance(e, [r EXCEPT !.pc = "delete", !.adopt = a, !.took = T])
        PROVE  ListInv'
    <3> DEFINE j == [r EXCEPT !.pc = "delete", !.adopt = a, !.took = T]
    <3>1. /\ j.pc = "delete" /\ j.lists = r.lists /\ j.gone = r.gone /\ j.new = r.new
          /\ j.old = r.old /\ j.row = r.row /\ j.wrote = r.wrote /\ (j.folds <=> r.folds)
      BY <1>1 DEF Edit
    <3>2. Advance(e, j)
      BY <2>3
    <3> HIDE DEF j
    <3> QED
      BY <2>1, <3>1, <3>2
  <2>4. ASSUME NEW K, NEW T, Advance(e, [r EXCEPT !.pc = "delete", !.keys = K, !.took = T])
        PROVE  ListInv'
    <3> DEFINE j == [r EXCEPT !.pc = "delete", !.keys = K, !.took = T]
    <3>1. /\ j.pc = "delete" /\ j.lists = r.lists /\ j.gone = r.gone /\ j.new = r.new
          /\ j.old = r.old /\ j.row = r.row /\ j.wrote = r.wrote /\ (j.folds <=> r.folds)
      BY <1>1 DEF Edit
    <3>2. Advance(e, j)
      BY <2>4
    <3> HIDE DEF j
    <3> QED
      BY <2>1, <3>1, <3>2
  <2>5. \/ Advance(e, [r EXCEPT !.pc = "delete"])
        \/ Advance(e, [r EXCEPT !.pc = "delete", !.adopt = r.oldKey,
                                !.took = r.took \cup {r.old, r.new}])
        \/ Advance(e, [r EXCEPT !.pc = "delete", !.keys = r.keys \cup {r.oldKey},
                                !.took = r.took \cup {r.old}])
    BY <1>15 DEF Retire
  <2> HIDE DEF r, Advance
  <2> QED
    BY <2>2, <2>3, <2>4, <2>5
<1>16. ASSUME Delete(e) PROVE ListInv'
  <2> PICK s \in IF r.rest = {} THEN {0} ELSE r.rest :
        Advance(e, [r EXCEPT !.pc = IF s = 0 THEN "commit" ELSE "read",
                             !.old = s, !.rest = r.rest \ {s},
                             !.took = r.took \cup {r.old},
                             !.gone = r.gone \cup {r.old}])
    BY <1>16 DEF Delete
  <2> DEFINE c == IF s = 0 THEN "commit" ELSE "read"
             B == r.rest \ {s}
             t == r.took \cup {r.old}
             g == r.gone \cup {r.old}
             j == [r EXCEPT !.pc = c, !.old = s, !.rest = B, !.took = t, !.gone = g]
  <2>1. /\ Advance(e, j) /\ r.pc = "delete" /\ c \in {"commit", "read"}
        /\ g = r.gone \cup {r.old}
    BY <1>16 DEF Delete
  <2> HIDE DEF c, B, t, g
  <2>2. /\ j.pc = c /\ j.lists = r.lists /\ j.gone = g /\ j.new = r.new
        /\ j.row = r.row /\ j.wrote = r.wrote /\ (j.folds <=> r.folds)
    BY <1>1 DEF Edit
  <2> HIDE DEF j
  <2>3. ListFit(j)
    BY <1>1, <2>1, <2>2, ListStays DEF Removing
  <2> QED
    BY <2>1, <2>3, ListMoves
<1>17. ASSUME RollBackEdit(e) PROVE ListInv'
  <2> DEFINE j == Blank("done")
  <2>1. Advance(e, j) /\ j.pc = "done" /\ ~j.folds /\ j.lists = {} /\ j.gone = {}
    BY <1>17, BlankFields DEF RollBackEdit
  <2> HIDE DEF j
  <2>2. ListFit(j)
    BY <2>1, ListStarts DEF Removing
  <2> QED
    BY <2>1, <2>2, ListMoves
<1> QED
  BY <1>4, <1>5, <1>6, <1>7, <1>8, <1>9, <1>10, <1>11, <1>12, <1>13, <1>14, <1>15,
     <1>16, <1>17 DEF EditStepOf


\* What it moves lands on its survivor; whom it surprises is mixed up.
LEMMA ListCommits ==
  ASSUME TypeOK, IInv, ListInv, NEW e \in Editor, CommitEdit(e)
  PROVE  ListInv'
<1> DEFINE r == ed[e]
           moved == {<<i[1], r.new>> : i \in r.lists}
<1>1. /\ r \in Edit /\ Fit(e, r) /\ Clear(e, r) /\ ListFit(r) /\ r.pc = "commit"
      /\ live' = (live \cup ({r.row} \ {0})) \ r.gone
      /\ listed' = {i \in listed : i[2] \notin r.gone} \cup moved
      /\ ed' = [ed EXCEPT ![e] = Blank("done")]
      /\ IF r.folds THEN became' = [b \in Id |-> IF became[b] \in r.gone
                                                 THEN became[r.new] ELSE became[b]]
                    ELSE became' = became
      /\ mixed' = mixed \cup {b \in Id : became[b] \in MixedWith(e)}
      /\ kept' = kept
  BY DEF TypeOK, IInv, ListInv, CommitEdit
<1>2. /\ r.gone \subseteq r.took /\ r.gone \subseteq Id /\ r.new \notin r.gone
      /\ (~r.folds => r.lists = {}) /\ Rows
      /\ \A i \in kept : i[2] \in Id /\ became[i[2]] \in Id
  BY <1>1 DEF Edit, Fit, Shaped, IInv, TypeOK
<1>3. \A i \in kept : i[2] \notin mixed /\ became[i[2]] \in r.gone
                        => /\ <<i[1], became[i[2]]>> \in r.lists
                           /\ r.folds /\ r.new \in live /\ r.new \in r.wrote \ {r.row}
                           /\ became'[i[2]] = r.new
  <2> SUFFICES ASSUME NEW i \in kept, i[2] \notin mixed, became[i[2]] \in r.gone
               PROVE  /\ <<i[1], became[i[2]]>> \in r.lists
                      /\ r.folds /\ r.new \in live /\ r.new \in r.wrote \ {r.row}
                      /\ became'[i[2]] = r.new
    OBVIOUS
  <2>1. <<i[1], became[i[2]]>> \in r.lists
    BY <1>1 DEF ListFit, Removing
  <2>2. r.folds /\ r.new \in live /\ r.new \in r.wrote /\ r.new # r.row
    BY <1>1, <1>2, <2>1 DEF ListFit
  <2>3. became[r.new] = r.new
    BY <1>2, <2>2 DEF Rows, TypeOK
  <2>4. became'[i[2]] = became[r.new]
    BY <1>1, <1>2, <2>2
  <2> QED
    BY <2>1, <2>2, <2>3, <2>4
<1>4. \A i \in kept : became[i[2]] \notin r.gone => became'[i[2]] = became[i[2]]
  BY <1>1, <1>2
<1>5. ListsFollow'
  <2> SUFFICES ASSUME NEW i \in kept, i[2] \notin mixed
               PROVE  <<i[1], became'[i[2]]>> \in listed'
    BY <1>1 DEF ListsFollow
  <2>1. CASE became[i[2]] \in r.gone
    <3> DEFINE l == <<i[1], became[i[2]]>>
    <3>1. l \in r.lists /\ l[1] = i[1] /\ became'[i[2]] = r.new
      BY <1>3, <2>1
    <3> HIDE DEF l
    <3>2. <<l[1], r.new>> \in moved
      BY <3>1
    <3> HIDE DEF moved
    <3> QED
      BY <1>1, <3>1, <3>2
  <2>2. CASE became[i[2]] \notin r.gone
    <3>1. <<i[1], became[i[2]]>> \in listed
      BY DEF ListInv, ListsFollow
    <3> QED
      BY <1>1, <1>4, <2>2, <3>1
  <2> QED
    BY <2>1, <2>2
<1>6. ASSUME NEW f \in Others(e) PROVE ListFit(ed[f])'
  <2> DEFINE q == ed[f]
  <2>1. f \in Editor /\ ed'[f] = q /\ ListFit(q) /\ r.took \cap q.wrote = {}
    BY <1>1 DEF Others, TypeOK, ListInv, Clear
  <2>2. Removing(q) \subseteq Touch(f) /\ r.gone \subseteq Touch(e)
    BY DEF Removing, Touch
  <2>3. ASSUME NEW i \in kept, i[2] \notin mixed', became'[i[2]] \in Removing(q)
        PROVE  <<i[1], became'[i[2]]>> \in q.lists
    <3>1. CASE became[i[2]] \in r.gone
      <4>1. r.new \in Touch(e) /\ r.new \in Touch(f)
        BY <1>1, <1>3, <2>2, <2>3, <3>1 DEF Touch
      <4>2. Touch(e) \subseteq MixedWith(e)
        BY <4>1 DEF MixedWith
      <4> QED
        BY <1>1, <1>2, <2>2, <2>3, <3>1, <4>2
    <3>2. CASE became[i[2]] \notin r.gone
      <4>1. i[2] \notin mixed
        BY <1>1, <2>3
      <4> QED
        BY <1>4, <2>1, <2>3, <3>2, <4>1 DEF ListFit
    <3> QED
      BY <3>1, <3>2
  <2>4. q.lists # {} => q.new \in live' /\ q.new \in q.wrote
    BY <1>1, <1>2, <2>1 DEF ListFit
  <2> QED
    BY <1>1, <2>1, <2>3, <2>4 DEF ListFit, Removing
<1>7. ListFit(ed[e])'
  <2> DEFINE j == Blank("done")
  <2>1. ed'[e] = j /\ j.pc = "done" /\ ~j.folds /\ j.lists = {} /\ j.gone = {}
    BY <1>1, BlankFields DEF TypeOK
  <2> HIDE DEF j
  <2> QED
    BY <2>1 DEF ListFit, Removing
<1> QED
  BY <1>5, <1>6, <1>7 DEF ListInv, Others

LEMMA ListNext == TypeOK /\ IInv /\ ListInv /\ [Next]_vars => ListInv'
<1> SUFFICES ASSUME TypeOK, IInv, ListInv, [Next]_vars PROVE ListInv'
  OBVIOUS
<1>1. ASSUME NEW p \in Persist, PersistStepOf(p) PROVE ListInv'
  <2>1. /\ live \subseteq live' /\ UNCHANGED <<listed, ed, became, kept, mixed>>
    BY <1>1 DEF PersistStepOf, LookUp, Identify, Create, Link, CommitPersist,
                RollBackPersist, dataVars, histVars
  <2> QED
    BY <2>1 DEF ListInv, ListsFollow, ListFit, Removing
<1>2. ASSUME NEW e \in Editor, EditStepOf(e) PROVE ListInv'
  BY <1>2, ListEdits, ListCommits
<1>3. ASSUME NEW u \in User, NEW b \in Id, Favor(u, b) PROVE ListInv'
  <2>1. /\ listed' = listed \cup {<<u, b>>} /\ UNCHANGED <<live, ed, became, mixed>>
        /\ became[b] = b
        /\ \A e \in Editor : b \notin ed[e].took
    BY <1>3 DEF Favor, IInv, Rows
  <2>2. \/ kept' = kept
        \/ /\ kept' = kept \cup {<<u, b>>}
           /\ \A e \in Editor : ed[e].old = b => ed[e].pc \notin {"aliases", "key", "delete"}
    BY <1>3 DEF Favor
  <2>3. ListsFollow'
    BY <2>1, <2>2 DEF ListInv, ListsFollow
  <2>4. ASSUME NEW e \in Editor PROVE ListFit(ed[e])'
    <3>1. b \in Removing(ed[e]) => kept' = kept
      <4>1. b \notin ed[e].gone
        BY <2>1 DEF IInv, Fit, Shaped
      <4> QED
        BY <2>2, <4>1 DEF Removing
    <3> QED
      BY <2>1, <2>2, <3>1 DEF ListInv, ListFit, Removing
  <2> QED
    BY <2>3, <2>4 DEF ListInv
<1>4. CASE UNCHANGED vars
  BY <1>4 DEF vars, dataVars, histVars, ListInv, ListsFollow, ListFit, Removing
<1> QED
  BY <1>1, <1>2, <1>3, <1>4 DEF Next, Finished

LEMMA ListStart == Init => ListInv
<1> SUFFICES ASSUME Init PROVE ListInv
  OBVIOUS
<1>1. kept = {} /\ \A e \in Editor : ed[e] = Blank("idle")
  BY DEF Init
<1>2. ASSUME NEW e \in Editor PROVE ListFit(ed[e])
  <2> DEFINE j == Blank("idle")
  <2>1. j.pc = "idle" /\ ~j.folds /\ j.lists = {} /\ j.gone = {}
    BY BlankFields
  <2> HIDE DEF j
  <2>2. ListFit(j)
    BY <2>1, ListStarts DEF Removing
  <2> QED
    BY <1>1, <2>2 DEF j
<1> QED
  BY <1>1, <1>2 DEF ListInv, ListsFollow

\* For any number of persists and edits, an entry a user made is on the bottling
\* its own was folded into, unless it was made during the removal, or edits of
\* one bottling overlapped.
THEOREM ListsAreKept == Spec => []ListsFollow
<1>1. ListInv => ListsFollow
  BY DEF ListInv
<1> QED
  BY <1>1, ListStart, InitHolds, NextHolds, ListNext, PTL DEF Spec

=============================================================================
