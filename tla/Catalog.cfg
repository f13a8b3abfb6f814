SPECIFICATION Spec
CONSTANTS
  s1 = s1
  s2 = s2
  None = None
  Sessions = {s1, s2}
  Seeders = {1}
  MaxId = 3
  Mocks = {1, 2}
  f1 = f1
  f2 = f2
  Fields = {f1, f2}
  MaxStock = 1
  Target <- Targets
  MaxRestarts = 1
SYMMETRY Symmetry
CHECK_DEADLOCK FALSE
INVARIANTS
  TypeOK
  PatchesUndoneOnlyByOverlap
PROPERTIES
  ClearedAltogether
  SeedsOnlyTheShortfall
