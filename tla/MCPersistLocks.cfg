SPECIFICATION Spec
CONSTANTS
  Key = {1, 2}
  Persist = {t1, t2}
INVARIANTS
  NoTwoWaitForEachOther
