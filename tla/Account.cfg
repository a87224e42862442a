SPECIFICATION Spec
CONSTANTS
  Handlers = {h1, h2}
  Names = {n1, n2, n3}
  MaxId = 3
  None = None
SYMMETRY HandlerSymmetry
PROPERTY ImplementsAccounts
INVARIANTS NamesUnique StaysClaimed TokensKeepRole
