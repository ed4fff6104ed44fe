------------------------------ MODULE Bottlings ------------------------------
(***************************************************************************)
(* The canonical rows: which bottling a listing's key, an offer and a      *)
(* user's list entry belong to, while persists create bottlings and        *)
(* editors merge, rename and relink them.                                  *)
(*                                                                         *)
(* Persists and edits are READ COMMITTED transactions.  An action is one   *)
(* statement: it sees what is committed and what its own transaction did.  *)
(* A transaction's writes are kept apart and land when it commits; the     *)
(* rows it wrote are locked till then.  Any transaction may be rolled      *)
(* back at any time; a statement that Postgres refuses leaves its          *)
(* transaction nothing else.                                               *)
(*                                                                         *)
(* Name stands for what an identity is made of: name, volume and age.      *)
(* Each listing of a batch has a key of its own, or none; siblings under   *)
(* one key are one listing here.  The locks a persist takes on rows it     *)
(* does not create only delay others, and are left out.                    *)
(***************************************************************************)
EXTENDS Naturals, FiniteSets

CONSTANTS
  Key, Name, User, Persist, Editor,
  Sku,        \* listings, of every store
  NoKey,
  KeyOf,      \* [Sku -> Key \cup {NoKey}]
  NameOf,     \* [Sku -> Name]
  Batch,      \* [Persist -> SUBSET Sku]: its store's listings
  MaxId,      \* bound: bottlings are 1..MaxId, in the order of createdAt
  Picks,      \* bound: the entries users may make
  Start,      \* the bottlings there are at first: 1..Start
  StartKey, StartName, StartOffer

Id == 1..MaxId

ASSUME BottlingsAssumptions ==
  /\ NoKey \notin Key /\ Name # {}
  /\ KeyOf \in [Sku -> Key \cup {NoKey}]
  /\ NameOf \in [Sku -> Name]
  /\ Batch \in [Persist -> SUBSET Sku]
  /\ \A p \in Persist : \A x, y \in Batch[p] :
       x # y => KeyOf[x] = NoKey \/ KeyOf[x] # KeyOf[y]
  /\ IsFiniteSet(Sku)
  /\ MaxId \in Nat /\ Start \in 0..MaxId
  /\ Picks \subseteq User \X Id
  /\ StartKey \in [Id -> Key \cup {NoKey}]
  /\ \A b \in Id : b > Start => StartKey[b] = NoKey
  /\ \A b, c \in Id : b # c => StartKey[b] = NoKey \/ StartKey[b] # StartKey[c]
  /\ StartName \in [Id -> Name]
  /\ StartOffer \in [Sku -> 0..Start]

VARIABLES
  live,    \* product: its rows
  key,     \* their matchKey
  name,
  alias,   \* product_match_alias: a retired key's bottling, 0 if it is none
  offer,   \* store_product: a listing's bottling, 0 if it is not stored
  listed,  \* favorite
  top,     \* the last id given out
  at,      \* where each persist is, see PersistStep
  fresh,   \* the listings it found no offer of
  got,     \* the bottling it has found or made for each listing
  made,    \* the listings it has made one for
  ed,      \* each editor's transaction, see Edit
  became,  \* history: the bottling each one was folded into, itself at first
  home,    \* history: the bottling each key was first stored on
  filed,   \* history: the bottling each offer was last linked to, merges aside
  kept,    \* history: the entries recorded, but for those written while their
           \* bottling was being removed
  mixed,   \* history: bottlings two overlapping edits were about
  raced,   \* history: keys of those, and keys retired while a persist was
           \* looking for them
  news     \* history: bottlings made or renamed since a persist's last look

dataVars    == <<live, key, name, alias, offer, listed>>
persistVars == <<at, fresh, got, made>>
histVars    == <<became, home, filed, kept, mixed, raced>>

vars == <<dataVars, top, persistVars, ed, histVars, news>>

PersistStep == {"idle", "known", "identified", "created", "linked", "done"}

EditStep == {"idle", "twins", "read", "facts", "offers", "lists", "aliases",
             "key", "delete", "left", "commit", "done"}

Edit == [pc     : EditStep,
         folds  : BOOLEAN,               \* a merge, or an update that is one
         old    : {0} \cup Id,           \* the bottling folded or left
         new    : {0} \cup Id,           \* the survivor, or a relink's target
         rest   : SUBSET Id,             \* twins to fold after it
         oldKey : Key \cup {NoKey},      \* as mergeInto() read them
         newKey : Key \cup {NoKey},
         adopt  : Key \cup {NoKey},      \* the key the survivor has been given
         offers : SUBSET Sku,            \* rows it has pointed at new
         lists  : SUBSET (User \X Id),
         keys   : SUBSET Key,
         row    : {0} \cup Id,           \* the bottling renamed or created
         name   : Name,
         wrote  : SUBSET Id,             \* rows locked FOR NO KEY UPDATE
         took   : SUBSET Id,             \* FOR UPDATE: key changed, or deleted
         gone   : SUBSET Id]             \* rows it has deleted

Blank(s) ==
  [pc |-> s, folds |-> FALSE, old |-> 0, new |-> 0, rest |-> {}, oldKey |-> NoKey,
   newKey |-> NoKey, adopt |-> NoKey, offers |-> {}, lists |-> {},
   keys |-> {}, row |-> 0, name |-> CHOOSE n \in Name : TRUE, wrote |-> {},
   took |-> {}, gone |-> {}]

Init ==
  /\ live = 1..Start
  /\ key = StartKey
  /\ name = StartName
  /\ alias = [k \in Key |-> 0]
  /\ offer = StartOffer
  /\ listed = {}
  /\ top = Start
  /\ at = [p \in Persist |-> "idle"]
  /\ fresh = [p \in Persist |-> {}]
  /\ got = [p \in Persist |-> [x \in Sku |-> 0]]
  /\ made = [p \in Persist |-> {}]
  /\ ed = [e \in Editor |-> Blank("idle")]
  /\ became = [b \in Id |-> b]
  /\ home = [k \in Key |-> IF \E b \in Id : StartKey[b] = k
                           THEN CHOOSE b \in Id : StartKey[b] = k ELSE 0]
  /\ filed = StartOffer
  /\ kept = {}
  /\ mixed = {} /\ raced = {}
  /\ news = [p \in Persist |-> {}]

-----------------------------------------------------------------------------
(* What is committed, and what is locked *)

Resolve(k) == {b \in live : key[b] = k} \cup ({alias[k]} \ {0})

Alike(n) == {b \in live : name[b] = n}

Offers(b) == {x \in Sku : offer[x] = b}

IsOldest(b, S) == b \in S /\ \A c \in S : b <= c

IsMostListed(b, S) ==
  /\ b \in S
  /\ \A c \in S : LET m == Cardinality(Offers(b)) n == Cardinality(Offers(c))
                  IN m > n \/ (m = n /\ b <= c)

\* Rows a foreign key of an uncommitted row refers to.
Uses(e) == IF ed[e].offers # {} THEN {ed[e].new} ELSE {}

LinkedTo(p) ==
  IF at[p] = "linked" THEN {got[p][x] : x \in {y \in fresh[p] : offer[y] = 0}}
                      ELSE {}

Others(e) == Editor \ {e}

CanUse(e, b) == \A f \in Others(e) : b \notin ed[f].took

CanWrite(e, b) == \A f \in Others(e) : b \notin ed[f].wrote \cup ed[f].took

CanTake(e, b) ==
  /\ \A f \in Others(e) : b \notin ed[f].wrote \cup ed[f].took \cup Uses(f)
  /\ \A p \in Persist : b \notin LinkedTo(p)

\* A key some uncommitted row has, or is losing.
IsMaking(p, k) == \E x \in made[p] : KeyOf[x] = k

IsMoving(e, k) == ed[e].adopt = k \/ \E b \in ed[e].took : key[b] = k

-----------------------------------------------------------------------------
(* Persist *)

Pending(p) == {x \in fresh[p] : KeyOf[x] # NoKey /\ got[p][x] = 0}

\* existingSkus(), resolveKnownKeys(): a key both live and retired may answer
\* with either.
LookUp(p) ==
  LET new == {x \in Batch[p] : offer[x] = 0} IN
  /\ at[p] = "idle"
  /\ \E f \in [Sku -> {0} \cup live] :
       /\ \A x \in Sku :
            IF x \in new /\ KeyOf[x] # NoKey /\ Resolve(KeyOf[x]) # {}
            THEN f[x] \in Resolve(KeyOf[x]) ELSE f[x] = 0
       /\ got' = [got EXCEPT ![p] = f]
  /\ fresh' = [fresh EXCEPT ![p] = new]
  /\ at' = [at EXCEPT ![p] = "known"]
  /\ UNCHANGED <<dataVars, top, made, ed, histVars, news>>

\* Mutant: the second look is skipped.
IdentifyNothing(p) ==
  /\ at[p] = "known"
  /\ at' = [at EXCEPT ![p] = "identified"]
  /\ news' = [news EXCEPT ![p] = {}]
  /\ UNCHANGED <<dataVars, top, fresh, got, made, ed, histVars>>

\* resolveByIdentity(): the oldest of the bottlings alike.
Identify(p) ==
  /\ at[p] = "known"
  /\ \E f \in [Pending(p) -> {0} \cup live] :
       /\ \A x \in Pending(p) : IF Alike(NameOf[x]) = {} THEN f[x] = 0
                                ELSE IsOldest(f[x], Alike(NameOf[x]))
       /\ got' = [got EXCEPT ![p] = [x \in Sku |-> IF x \in Pending(p) THEN f[x]
                                                   ELSE got[p][x]]]
  /\ at' = [at EXCEPT ![p] = "identified"]
  /\ news' = [news EXCEPT ![p] = {}]
  /\ UNCHANGED <<dataVars, top, fresh, made, ed, histVars>>

\* Mutant: an id is spent on every listing.
CreateCountsAll(p) ==
  LET found == {x \in Pending(p) : \E b \in live : key[b] = KeyOf[x]}
      new   == {x \in fresh[p] : got[p][x] = 0} \ found IN
  /\ at[p] = "identified"
  /\ \A x \in Pending(p) :
       /\ \A q \in Persist \ {p} : ~IsMaking(q, KeyOf[x])
       /\ \A e \in Editor : ~IsMoving(e, KeyOf[x])
  /\ top + Cardinality(new) <= MaxId
  /\ \E f \in [new -> (top + 1)..(top + Cardinality(new))] :
       /\ \A x, y \in new : x # y => f[x] # f[y]
       /\ got' = [got EXCEPT ![p] =
                    [x \in Sku |->
                       IF x \in new THEN f[x]
                       ELSE IF x \in found
                            THEN CHOOSE b \in live : key[b] = KeyOf[x]
                            ELSE got[p][x]]]
  /\ made' = [made EXCEPT ![p] = new]
  /\ top' = top + Cardinality(Batch[p])
  /\ at' = [at EXCEPT ![p] = "created"]
  /\ UNCHANGED <<dataVars, fresh, ed, histVars, news>>

\* FIND_OR_CREATE_SQL, createUnmatched(): a key committed since is found by
\* the conflict; one in another's hands is waited for.
Create(p) ==
  LET found == {x \in Pending(p) : \E b \in live : key[b] = KeyOf[x]}
      new   == {x \in fresh[p] : got[p][x] = 0} \ found IN
  /\ at[p] = "identified"
  /\ \A x \in Pending(p) :
       /\ \A q \in Persist \ {p} : ~IsMaking(q, KeyOf[x])
       /\ \A e \in Editor : ~IsMoving(e, KeyOf[x])
  /\ top + Cardinality(new) <= MaxId
  /\ \E f \in [new -> (top + 1)..(top + Cardinality(new))] :
       /\ \A x, y \in new : x # y => f[x] # f[y]
       /\ got' = [got EXCEPT ![p] =
                    [x \in Sku |->
                       IF x \in new THEN f[x]
                       ELSE IF x \in found
                            THEN CHOOSE b \in live : key[b] = KeyOf[x]
                            ELSE got[p][x]]]
  /\ made' = [made EXCEPT ![p] = new]
  /\ top' = top + Cardinality(new)
  /\ at' = [at EXCEPT ![p] = "created"]
  /\ UNCHANGED <<dataVars, fresh, ed, histVars, news>>

\* upsertOffer(): an offer another persist of the store is inserting is waited
\* for, and one it has inserted keeps its bottling.  For the others, the
\* foreign key waits for whoever is removing the bottling, and refuses one
\* that is gone.
Link(p) ==
  /\ at[p] = "created"
  /\ \A q \in Persist : at[q] = "linked" => fresh[p] \cap fresh[q] = {}
  /\ \A x \in fresh[p] \ made[p] :
       offer[x] = 0 => /\ got[p][x] \in live
                       /\ \A e \in Editor : got[p][x] \notin ed[e].took
  /\ at' = [at EXCEPT ![p] = "linked"]
  /\ UNCHANGED <<dataVars, top, fresh, got, made, ed, histVars, news>>

Unfinished(q) == at[q] \notin {"idle", "done"}

Tell(S) == news' = [q \in Persist |-> IF Unfinished(q) THEN news[q] \cup S ELSE {}]

EndPersist(p) ==
  /\ at' = [at EXCEPT ![p] = "done"]
  /\ got' = [got EXCEPT ![p] = [x \in Sku |-> 0]]
  /\ fresh' = [fresh EXCEPT ![p] = {}]
  /\ made' = [made EXCEPT ![p] = {}]

CommitPersist(p) ==
  LET rows == {got[p][x] : x \in made[p]}
      new  == {x \in fresh[p] : offer[x] = 0}
      MadeFor(b) == CHOOSE x \in made[p] : got[p][x] = b IN
  /\ at[p] = "linked"
  /\ live' = live \cup rows
  /\ key' = [b \in Id |-> IF b \in rows THEN KeyOf[MadeFor(b)] ELSE key[b]]
  /\ name' = [b \in Id |-> IF b \in rows THEN NameOf[MadeFor(b)] ELSE name[b]]
  /\ offer' = [x \in Sku |-> IF x \in new THEN got[p][x] ELSE offer[x]]
  /\ filed' = [x \in Sku |-> IF x \in new THEN got[p][x] ELSE filed[x]]
  /\ home' = [k \in Key |->
                IF home[k] = 0 /\ IsMaking(p, k)
                THEN got[p][CHOOSE x \in made[p] : KeyOf[x] = k] ELSE home[k]]
  /\ Tell(rows)
  /\ EndPersist(p)
  /\ UNCHANGED <<alias, listed, top, ed, became, kept, mixed, raced>>

RollBackPersist(p) ==
  /\ Unfinished(p)
  /\ EndPersist(p)
  /\ UNCHANGED <<dataVars, top, ed, histVars, news>>

-----------------------------------------------------------------------------
(* What an editor begins *)

Advance(e, j) ==
  /\ ed' = [ed EXCEPT ![e] = j]
  /\ UNCHANGED <<dataVars, top, persistVars, histVars, news>>

\* review merge: both rows were there.
Merge(e, l, s) ==
  /\ ed[e].pc = "idle"
  /\ l \in live /\ s \in live /\ l # s
  /\ Advance(e, [ed[e] EXCEPT !.pc = "read", !.folds = TRUE,
                              !.old = l, !.new = s])

\* update()
Rename(e, b, n) ==
  /\ ed[e].pc = "idle"
  /\ b \in live
  /\ CanWrite(e, b)
  /\ Advance(e, [ed[e] EXCEPT !.pc = "twins", !.row = b, !.name = n,
                              !.wrote = {b}])

\* mergeTwins(): the renamed bottling, then every other twin, is folded into
\* the twin most listed.
Twins(e) ==
  LET j == ed[e]  twins == Alike(j.name) \ {j.row} IN
  /\ j.pc = "twins"
  /\ \/ /\ twins = {}
        /\ Advance(e, [j EXCEPT !.pc = "commit"])
     \/ \E s \in twins :
          /\ IsMostListed(s, twins)
          /\ Advance(e, [j EXCEPT !.pc = "read", !.folds = TRUE, !.old = j.row,
                                  !.new = s, !.rest = twins \ {s}])

\* relink() to a bottling given by id, or the one most listed under a name,
\* up to its UPDATE.
RelinkTo(e, x, t) ==
  /\ ed[e].pc = "idle"
  /\ offer[x] # 0
  /\ t \in live
  /\ CanUse(e, t)
  /\ \A f \in Others(e) : x \notin ed[f].offers
  /\ Advance(e, [ed[e] EXCEPT !.pc = "left", !.old = offer[x], !.new = t,
                              !.offers = {x}])

\* createManual(): nothing goes by that name.
RelinkNew(e, x, n) ==
  /\ ed[e].pc = "idle"
  /\ offer[x] # 0
  /\ Alike(n) = {}
  /\ \A f \in Others(e) : x \notin ed[f].offers
  /\ top < MaxId
  /\ top' = top + 1
  /\ ed' = [ed EXCEPT ![e] = [ed[e] EXCEPT !.pc = "left", !.old = offer[x],
                                           !.new = top + 1, !.row = top + 1,
                                           !.name = n, !.offers = {x}]]
  /\ UNCHANGED <<dataVars, persistVars, histVars, news>>

\* deleteIfUnreferenced() looks; Delete deletes, after waiting for the row.
CheckLeft(e) ==
  LET j == ed[e] IN
  /\ j.pc = "left"
  /\ Advance(e, [j EXCEPT !.pc =
                    IF /\ j.old # j.new
                       /\ Offers(j.old) \subseteq j.offers
                       /\ \A u \in User : <<u, j.old>> \notin listed
                    THEN "delete" ELSE "commit"])

-----------------------------------------------------------------------------
(* mergeInto() *)

\* Both rows must exist; their keys are as read here from now on.
Read(e) ==
  LET j == ed[e] IN
  /\ j.pc = "read"
  /\ j.old \in live /\ j.new \in live
  /\ Advance(e, [j EXCEPT !.pc = "facts", !.oldKey = key[j.old],
                          !.newKey = IF j.adopt # NoKey THEN j.adopt
                                                        ELSE key[j.new]])

\* MERGE_FACTS_SQL locks the survivor, if it is still there.
Facts(e) ==
  LET j == ed[e] IN
  /\ j.pc = "facts"
  /\ CanWrite(e, j.new)
  /\ Advance(e, [j EXCEPT !.pc = "offers", !.wrote = @ \cup {j.new}])

\* moveOffers()
MoveOffers(e) ==
  LET j == ed[e]  mine == Offers(j.old) IN
  /\ j.pc = "offers"
  /\ \A f \in Others(e) : mine \cap ed[f].offers = {}
  /\ mine # {} => j.new \in live
  /\ Advance(e, [j EXCEPT !.pc = "lists", !.offers = @ \cup mine])

\* Mutant: the lists are left to the delete.
MoveNoLists(e) ==
  LET j == ed[e]  mine == {} IN
  /\ j.pc = "lists"
  /\ \A f \in Others(e) : mine \cap ed[f].lists = {}
  /\ mine # {} => j.new \in live
  /\ Advance(e, [j EXCEPT !.pc = "aliases", !.lists = @ \cup mine])

\* moveUserLists(), for one of the lists
MoveLists(e) ==
  LET j == ed[e]  mine == {i \in listed : i[2] = j.old} IN
  /\ j.pc = "lists"
  /\ \A f \in Others(e) : mine \cap ed[f].lists = {}
  /\ mine # {} => j.new \in live
  /\ Advance(e, [j EXCEPT !.pc = "aliases", !.lists = @ \cup mine])

\* Mutant: only the key of its own is handed on.
RepointNothing(e) ==
  LET j == ed[e]  mine == {} IN
  /\ j.pc = "aliases"
  /\ \A f \in Others(e) : mine \cap ed[f].keys = {}
  /\ mine # {} => j.new \in live
  /\ Advance(e, [j EXCEPT !.pc = "key", !.keys = @ \cup mine])

\* retireKey(), its first statement
Repoint(e) ==
  LET j == ed[e]  mine == {k \in Key : alias[k] = j.old} IN
  /\ j.pc = "aliases"
  /\ \A f \in Others(e) : mine \cap ed[f].keys = {}
  /\ mine # {} => j.new \in live
  /\ Advance(e, [j EXCEPT !.pc = "key", !.keys = @ \cup mine])

\* A key given up is taken on by a survivor without one, where the unique
\* index lets it, or becomes an alias.
Retire(e) ==
  LET j == ed[e] IN
  /\ j.pc = "key"
  /\ \/ /\ j.oldKey = NoKey
        /\ Advance(e, [j EXCEPT !.pc = "delete"])
     \/ /\ j.oldKey # NoKey
        /\ j.newKey = NoKey
        /\ CanTake(e, j.old) /\ CanTake(e, j.new)
        /\ \A b \in live \ {j.old, j.new} : key[b] # j.oldKey
        /\ \A p \in Persist : ~IsMaking(p, j.oldKey)
        /\ \A f \in Others(e) : ed[f].adopt # j.oldKey
        /\ Advance(e, [j EXCEPT !.pc = "delete", !.adopt = j.oldKey,
                                !.took = @ \cup {j.old, j.new}])
     \/ /\ j.oldKey # NoKey
        /\ j.newKey # NoKey
        /\ CanTake(e, j.old)
        /\ j.new \in live
        /\ \A f \in Others(e) : j.oldKey \notin ed[f].keys
        /\ Advance(e, [j EXCEPT !.pc = "delete", !.keys = @ \cup {j.oldKey},
                                !.took = @ \cup {j.old}])

\* Mutant: the offers' foreign key does not restrict.
DeleteCascading(e) ==
  LET j == ed[e] IN
  /\ j.pc = "delete"
  /\ CanTake(e, j.old)
  /\ \E next \in IF j.rest = {} THEN {0} ELSE j.rest :
       Advance(e, [j EXCEPT !.pc = IF next = 0 THEN "commit" ELSE "read",
                            !.old = next, !.rest = @ \ {next},
                            !.took = @ \cup {j.old},
                            !.gone = @ \cup {j.old}])

\* The row goes, unless an offer refers to it; its aliases and list entries go
\* with it.  A row that has gone already is no error.
Delete(e) ==
  LET j == ed[e] IN
  /\ j.pc = "delete"
  /\ CanTake(e, j.old)
  /\ Offers(j.old) \subseteq j.offers
  /\ \E next \in IF j.rest = {} THEN {0} ELSE j.rest :
       Advance(e, [j EXCEPT !.pc = IF next = 0 THEN "commit" ELSE "read",
                            !.old = next, !.rest = @ \ {next},
                            !.took = @ \cup {j.old},
                            !.gone = @ \cup {j.old}])

-----------------------------------------------------------------------------
(* How it ends *)

\* The bottlings an edit has read or changed the keys, offers and lists of.
Touch(e) ==
  LET j == ed[e] IN
  j.gone \cup (j.wrote \ {j.row})
    \cup (IF j.pc \in {"facts", "offers", "lists", "aliases", "key", "delete"}
          THEN {j.old} ELSE {})
    \cup (IF j.pc = "facts" THEN {j.new} ELSE {})

MixedWith(e) ==
  UNION {Touch(e) \cup Touch(f) :
           f \in {g \in Others(e) : Touch(e) \cap Touch(g) # {}}}

CommitEdit(e) ==
  LET j == ed[e]
      moved == {<<i[1], j.new>> : i \in j.lists}
      Looked(k) == \E p \in Persist : at[p] \in {"known", "identified"}
                                     /\ \E x \in Pending(p) : KeyOf[x] = k
  IN
  /\ j.pc = "commit"
  /\ live' = (live \cup ({j.row} \ {0})) \ j.gone
  /\ key' = [b \in Id |-> IF b \in j.gone THEN NoKey
                          ELSE IF b = j.new /\ b \in live /\ j.adopt # NoKey
                               THEN j.adopt ELSE key[b]]
  /\ name' = [b \in Id |-> IF b = j.row THEN j.name ELSE name[b]]
  /\ alias' = [k \in Key |-> IF k \in j.keys THEN j.new
                             ELSE IF alias[k] \in j.gone THEN 0 ELSE alias[k]]
  /\ offer' = [x \in Sku |-> IF x \in j.offers THEN j.new ELSE offer[x]]
  /\ listed' = {i \in listed : i[2] \notin j.gone} \cup moved
  /\ ed' = [ed EXCEPT ![e] = Blank("done")]
  /\ IF j.folds
     THEN /\ became' = [b \in Id |-> IF became[b] \in j.gone THEN became[j.new]
                                                          ELSE became[b]]
          /\ UNCHANGED <<home, filed>>
     ELSE /\ home' = [k \in Key |-> IF home[k] # 0 /\ became[home[k]] \in j.gone
                                    THEN 0 ELSE home[k]]
          /\ filed' = [x \in Sku |-> IF x \in j.offers THEN j.new ELSE filed[x]]
          /\ UNCHANGED became
  /\ mixed' = mixed \cup {b \in Id : became[b] \in MixedWith(e)}
  /\ raced' = raced \cup {k \in j.keys : Looked(k)}
                   \cup {k \in Key : home[k] # 0 /\ became[home[k]] \in MixedWith(e)}
  /\ Tell({j.row} \ {0})
  /\ UNCHANGED <<top, persistVars, kept>>

RollBackEdit(e) ==
  /\ ed[e].pc \notin {"idle", "done"}
  /\ Advance(e, Blank("done"))

\* A user lists a bottling, in a statement of its own.
Favor(u, b) ==
  /\ b \in live
  /\ <<u, b>> \in Picks \ listed
  /\ \A e \in Editor : b \notin ed[e].took
  /\ listed' = listed \cup {<<u, b>>}
  /\ kept' = IF \E e \in Editor : /\ ed[e].old = b
                                  /\ ed[e].pc \in {"aliases", "key", "delete"}
             THEN kept ELSE kept \cup {<<u, b>>}
  /\ UNCHANGED <<live, key, name, alias, offer, top, persistVars, ed, became,
                 home, filed, mixed, raced, news>>

-----------------------------------------------------------------------------
PersistStepOf(p) ==
  \/ LookUp(p) \/ Identify(p) \/ Create(p) \/ Link(p) \/ CommitPersist(p)
  \/ RollBackPersist(p)

EditStepOf(e) ==
  \/ Twins(e) \/ CheckLeft(e)
  \/ Read(e) \/ Facts(e) \/ MoveOffers(e) \/ MoveLists(e) \/ Repoint(e)
  \/ Retire(e) \/ Delete(e)
  \/ CommitEdit(e) \/ RollBackEdit(e)
  \/ \E l, s \in Id : Merge(e, l, s)
  \/ \E b \in Id, n \in Name : Rename(e, b, n)
  \/ \E x \in Sku, t \in Id : RelinkTo(e, x, t)
  \/ \E x \in Sku, n \in Name : RelinkNew(e, x, n)

Finished ==
  /\ \A p \in Persist : at[p] = "done"
  /\ \A e \in Editor : ed[e].pc = "done"
  /\ UNCHANGED vars

Next ==
  \/ \E p \in Persist : PersistStepOf(p)
  \/ \E e \in Editor : EditStepOf(e)
  \/ \E u \in User, b \in Id : Favor(u, b)
  \/ Finished

Spec == Init /\ [][Next]_vars

-----------------------------------------------------------------------------
(* Properties *)

TypeOK ==
  /\ live \subseteq Id
  /\ key \in [Id -> Key \cup {NoKey}]
  /\ name \in [Id -> Name]
  /\ alias \in [Key -> {0} \cup Id]
  /\ offer \in [Sku -> {0} \cup Id]
  /\ listed \subseteq User \X Id
  /\ top \in 0..MaxId
  /\ at \in [Persist -> PersistStep]
  /\ fresh \in [Persist -> SUBSET Sku]
  /\ got \in [Persist -> [Sku -> {0} \cup Id]]
  /\ made \in [Persist -> SUBSET Sku]
  /\ ed \in [Editor -> Edit]
  /\ became \in [Id -> Id]
  /\ home \in [Key -> {0} \cup Id]
  /\ filed \in [Sku -> {0} \cup Id]
  /\ kept \subseteq User \X Id
  /\ mixed \subseteq Id
  /\ raced \subseteq Key
  /\ news \in [Persist -> SUBSET Id]

\* "The next sync cannot recreate it": a key once stored leads to the bottling
\* its own was folded into, and to no other, unless edits of one bottling
\* overlapped, or a persist was looking for the key as it was retired.
KeysFollow ==
  \A k \in Key \ raced :
    home[k] # 0 => Resolve(k) = {became[home[k]]}

\* Every offer is where it was last linked, or where that was folded into,
\* whatever overlaps; and there is such a row.
OffersFollow ==
  \A x \in Sku : filed[x] # 0 => offer[x] = became[filed[x]] /\ offer[x] \in live

\* "Nothing anyone recorded is lost": what a user listed follows its bottling,
\* unless it was listed during the removal, or edits overlapped.
ListsFollow ==
  \A i \in kept : i[2] \notin mixed => <<i[1], became[i[2]]>> \in listed

\* A persist makes no second bottling of an identity its last look could see.
NoTwinSeen ==
  [][\A p \in Persist, x \in Sku :
       x \in made[p] /\ KeyOf[x] # NoKey /\ got[p][x] \in live' \ live
         => Alike(NameOf[x]) \subseteq news[p]]_vars
=============================================================================
