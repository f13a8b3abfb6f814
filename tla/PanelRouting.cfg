SPECIFICATION Spec
CONSTANTS
  order = order
  payment = payment
  o1 = o1
  p1 = p1
  p2 = p2
  r1 = r1
  r2 = r2
  None = None
  Nodes = {o1, p1, p2}
  Services = {order, payment}
  Service <- OneOrderTwoPayments
  Priority <- Priorities
  OrderKey = order
  Requests = {r1, r2}
  TTL = 1
  Discovery = 1
  Transit = 0
  MaxChanges = 1
CHECK_DEADLOCK FALSE
SYMMETRY Symmetry
INVARIANTS
  TypeOK
PROPERTIES
  RoutesSettle
  ComposeMeansOrderService
