SPECIFICATION Spec
CONSTANTS
  Themes = {t1, t2}
  Builtin = {dark}
  Delimiters = {d1, d2}
  Defaults = d1
  Blank = blank
  MaxCalls = 3
  Room = 1
  MaxWork = 2
  None = None
INVARIANTS DistributorFollows ThemeShown
