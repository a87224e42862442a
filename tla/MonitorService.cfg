SPECIFICATION FairSpec
CONSTANTS
  Monitors = {m1}
  Configs = {k1, k2}
  Handlers = {h1, h2}
  Notices = {n1}
  Failing = {"write", "select"}
  Room = 1
  MaxDue = 1
  None = None
INVARIANTS TypeOK InStep
PROPERTIES DeletedForGood TakesEffect
