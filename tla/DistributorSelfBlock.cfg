SPECIFICATION FairSpec
CONSTANTS
  Monitors = {m1}
  Configs = {k1}
  Workers = {w1}
  Conns = {c1}
  Fragile = {c1}
  Slow = {}
  Settings = {s1}
  Capacity = 1
  MaxPolls = 1
  MaxRows = 1
  None = None
PROPERTIES KeepsListening
CHECK_DEADLOCK FALSE
