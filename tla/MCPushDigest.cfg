CONSTANTS
  u1 = u1
  u2 = u2
  o1 = o1
  s1 = s1
  User = {u1, u2}
  Offer = {o1}
  OnFile = {o1}
  Store = {s1}
  StoreOf <- MCStoreOf
  DomainOf <- MCDomainOf
  Wants <- MCWants
  Run = {1, 2}
  FullSync = {f1}
  Operator = {op}
  ForcedDay = {4}
  MaxDay = 3
  MaxPrice = 2
  MaxGap = 2
  Retention = 1
  CanFail = TRUE
SPECIFICATION Spec
INVARIANTS
  TypeOK
  EachDropOnce
  InboxBeforePush
  DropsAreClaimed
PROPERTIES
  RepeatsAreOld
  ImplementsLedger
