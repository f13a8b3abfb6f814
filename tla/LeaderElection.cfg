SPECIFICATION FairSpec
CONSTANTS
  order = order
  payment = payment
  None = None
  Nodes = {1, 2, 3}
  Services = {order, payment}
  Service <- TwoOrdersOnePayment
  Priority <- Priorities
  Lease = 1
  MaxClock = 2
  FaultsUntil = 1
CHECK_DEADLOCK FALSE
INVARIANTS
  TypeOK
  LowerPriorityYields
PROPERTIES
  ImplementsLeadership
  FailoverCompletes
