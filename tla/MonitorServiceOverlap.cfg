SPECIFICATION Spec
CONSTANTS
  Monitors = {m1}
  Configs = {k1}
  Handlers = {h1, h2}
  Notices = {n1}
  Failing = {}
  Room = 1
  MaxDue = 1
  None = None
SYMMETRY HandlerSymmetry
INVARIANT ActiveControlsPolling
