SPECIFICATION FairSpec
CONSTANTS
  order = order
  payment = payment
  x1 = x1
  x2 = x2
  x3 = x3
  None = None
  Services = {order, payment}
  OrderKey = order
  Addresses = {x1, x2, x3}
  Threads = {1, 2}
  Loop = 0
  ListOrder <- Containers
  Asked = {0, 1, 2, 4}
  MaxReplicas = 3
  HpaMax = 2
  MaxActions = 4
CHECK_DEADLOCK FALSE
INVARIANTS
  TypeOK
  PanelFindsServices
PROPERTIES
  ScaleHolds
  FoundAgain
