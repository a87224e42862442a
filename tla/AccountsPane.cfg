SPECIFICATION PaneSpec
CONSTANTS
  Names = {n1, n2}
  MaxId = 2
  MaxToken = 2
  MaxCalls = 2
  MaxHaste = 1
  None = None
PROPERTIES LoadingEnds ServerKeepsPromise
INVARIANTS
  CopiesAgree
  TokenAgrees
CHECK_DEADLOCK FALSE
