SPECIFICATION FairSpec
CONSTANTS
  o1 = o1
  o2 = o2
  Orders = {o1, o2}
  Quantity <- QuantityOneTwo
  InitialStock = 2
  Attempts = {1, 2}
  FraudScore = 15
  FraudThreshold = 70
  Faults = {"lost", "release", "commit", "crash", "operator"}
  OperatorWrites <- OneWrite
CHECK_DEADLOCK FALSE
INVARIANTS
  TypeOK
  StockMatchesOrders
  NoOversell
  PaidOrderIsBacked
  NotifiedOnlyIfPaid
  ExactlyOnceUnlessLost
  AllOrNothing
PROPERTIES
  
  EveryOrderAnswered
