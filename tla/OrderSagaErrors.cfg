SPECIFICATION Spec
CONSTANTS
  o1 = o1
  o2 = o2
  Orders = {o1, o2}
  Quantity <- QuantityOneTwo
  InitialStock = 2
  Attempts = {1}
  FraudScore = 15
  FraudThreshold = 70
  Faults = {"commit"}
  OperatorWrites <- OneWrite
CHECK_DEADLOCK FALSE
INVARIANT ErrorReleases
