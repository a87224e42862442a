SPECIFICATION FairSpec
CONSTANTS
  Monitors = {m1}
  Configs = {k1}
  Workers = {w1, w2}
  Conns = {c1, c2}
  Fragile = {c1, c2}
  Slow = {c1}
  Settings = {s1}
  Capacity = 1
  MaxPolls = 1
  MaxRows = 1
  None = None
INVARIANTS TypeOK WorkersMatchPolling HandshakeHasPartner
INVARIANTS SubscribersOpen ReaderGoneIsReported FeedFollowsStore
PROPERTIES ImplementsRegistry TakesMessages StopTakesEffect StartedIsPolled GoneSubscriberDropped
CHECK_DEADLOCK FALSE
