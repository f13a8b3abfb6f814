SPECIFICATION Spec
CONSTANTS
  e1 = e1
  e2 = e2
  c1 = c1
  c2 = c2
  None = None
  Editors = {e1, e2}
  Callers = {c1, c2}
  SimCallers = {c1, c2}
  Counts = {0, 3}
  Thresholds = {1, 2}
  PresetCount = 3
  PresetThreshold = 2
  FailureCap = 2
  MaxRequests = 2
CHECK_DEADLOCK FALSE
SYMMETRY Symmetry
INVARIANTS
  TypeOK
  ModeIsCoherent
  SettledBreaker
