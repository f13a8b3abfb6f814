SPECIFICATION Spec
CONSTANTS
  Callers = {c1, c2, c3}
  SimCallers = {c3}
  Thresholds = {1, 2}
  InitialThreshold = 2
  FailureCap = 2
  EventLoop = EventLoop
  Workers = {w1}
INVARIANT HalfOpenAwaitsProbe
