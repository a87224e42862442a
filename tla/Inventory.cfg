SPECIFICATION Spec
CONSTANTS
  Monitors = {m1, m2}
  Requests = {q1, q2}
  MaxMeasurements = 2
  BatchSize = 1
  FirstActive = {FALSE}
  FirstRows = 2
  MaxWork = 2
  Late = {2}
  Backlog = 1
  None = None
SYMMETRY Symmetry
INVARIANTS TypeOK ListsRight ReferencesKnown InventoryAgrees
PROPERTY KeepsNewest
