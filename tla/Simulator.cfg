SPECIFICATION FairSpec
CONSTANTS
  Starters = {r1, r2}
  Stoppers = {s1}
  Workers = {w1, w2, w3}
  CanRaise = TRUE
  None = None
INVARIANTS
  TypeOK
  StatusMatchesWorkers
PROPERTIES
  StoppedForGood
  Quiesces
  DurationIsKept
