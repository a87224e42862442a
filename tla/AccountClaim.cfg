SPECIFICATION Spec
CONSTANTS
  Handlers = {h1, h2}
  Names = {n1, n2}
  MaxId = 2
  None = None
PROPERTIES ClaimsRejected
