CONSTANTS
  k1 = k1
  k2 = k2
  k3 = k3
  n1 = n1
  n2 = n2
  n3 = n3
  x1 = x1
  x2 = x2
  p1 = p1
  p2 = p2
  NoKey = NoKey
  Key = {k1, k2, k3}
  Name = {n1, n2, n3}
  User = {u1}
  Persist = {p1, p2}
  u1 = u1
  e1 = e1
  e2 = e2
  Editor = {e1, e2}
  Sku = {x1, x2}
  KeyOf <- MCKeyOf
  NameOf <- MCNameOf
  Batch <- MCBatch
  MaxId = 5
  Picks <- MCPicks
  Start = 3
  StartKey <- MCStartKey
  StartName <- MCStartName
  StartOffer <- MCStartOffer
SPECIFICATION Spec
SYMMETRY Symmetry
INVARIANTS
  TypeOK
  KeysFollow
  OffersFollow
  ListsFollow
PROPERTY NoTwinSeen
