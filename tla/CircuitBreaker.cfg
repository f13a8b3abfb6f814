SPECIFICATION FairSpec
CONSTANTS
  Callers = {c1, c2, c3}
  SimCallers = {c3}
  Thresholds = {0, 1, 3}
  InitialThreshold = 3
  FailureCap = 3
  EventLoop = EventLoop
  Workers = {w1}
INVARIANTS
  TypeOK
  ClosedBelowThreshold
  OneProbePerWindow
  HalfOpenHasProbe
  GaugeSettles
PROPERTIES
  OpenIgnoresLateSuccess
  HalfOpenResolves
  Recovers
