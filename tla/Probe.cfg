SPECIFICATION ProbeSpec
CONSTANTS
  Plugins = {p1, p2}
  Ports <- TypedPorts
  Fraction = Fraction
  MaxId = 2
  MaxCalls = 2
  MaxEdits = 2
  None = None
  Shells = {p2}
  Second = 2
  Counts = {1, 3}
  Gaps = {1, 2}
  Thresholds = {50}
  PipeSize = 1
  MaxOutput = 2
INVARIANTS ProbeTypeOK ProbeReady SaveAccepted FormAgrees StateJustified WaitsInTime
