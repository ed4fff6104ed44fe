CONSTANTS
  w1 = w1
  w2 = w2
  Size = 5
  BatchSize = 3
  Worker = {w1, w2}
  Rounds = 1
SPECIFICATION Spec
INVARIANTS
  TypeOK
  EveryItemOnce
  NothingLate
  OneSendAhead
  ProgressIsTrue
PROPERTIES
  EveryStepCosts
  ImplementsWork
