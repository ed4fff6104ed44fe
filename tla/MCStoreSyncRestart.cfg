SPECIFICATION Spec
CONSTANTS
  Instance = {i1, i2}
  plain = plain
  browser = browser
  lone = lone
  group = group
  alone = alone
  Store <- MCGroupStore
  Domain <- MCGroupDomain
  DomainOf <- MCGroupDomainOf
  BrowserStore <- MCBrowserStore
  Run = {r1, r2}
  StoreTimeout = 1
  BrowserTimeout = 1
  Margin = 1
  Faults = {}
  Nobody = Nobody
PROPERTIES
  BootSweepFreesOrphans
CHECK_DEADLOCK FALSE
