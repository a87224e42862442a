SPECIFICATION Spec
CONSTANTS
  Kinds = {"SQLite", "PostgreSQL"}
  Conns = {c1, c2, c3}
  Clients = {k1, k2, k3}
  Monitors = {m1}
  Measurements = {e1}
  Versions = {v1, v2, v3, v4}
  Plain = {v4}
  Tables = 6
  Triggers = 7
  None = None
  Styles = {"number", "question"}
  Ids = {i1, i2, i3}
  MaxIds = 3
SYMMETRY Alike
INVARIANTS NoOrphans WrittenAsAWhole QueriesRight
PROPERTY ImplementsStore
