SPECIFICATION Spec
CONSTANTS
  Kinds = {"SQLite"}
  Conns = {c1, c2}
  Clients = {k1, k2}
  Monitors = {m1}
  Measurements = {e1}
  Versions = {v1, v2}
  Plain = {v2}
  Tables = 6
  Triggers = 6
  None = None
  Styles = {"number", "question"}
  Ids = {i1, i2, i3}
  MaxIds = 3
INVARIANTS MeasurementsDeleted
