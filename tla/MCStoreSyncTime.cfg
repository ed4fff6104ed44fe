SPECIFICATION Spec
CONSTANTS
  Instance = {i1, i2}
  plain = plain
  browser = browser
  lone = lone
  group = group
  alone = alone
  Store <- MCPairStore
  Domain <- MCDomain
  DomainOf <- MCPairDomainOf
  BrowserStore <- MCBrowserStore
  Run = {r1, r2}
  StoreTimeout = 1
  BrowserTimeout = 2
  Margin = 1
  Faults = {"valkey", "db"}
  Nobody = Nobody
INVARIANTS
  OverAgeRowsAreNotLive
PROPERTIES
  SweepSparesTheSeen
  RunsEnd
  ImplementsRunLock
CHECK_DEADLOCK FALSE
