SPECIFICATION Spec
CONSTANTS
  Sku = {s1, s2}
  Bottling = {b1}
  Persist = {t1, t2}
  Faults = {"kb"}
  NoLink = NoLink
  Unwritten = Unwritten
PROPERTIES
  BestEffortLosesNothing
