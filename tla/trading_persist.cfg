\* Are the orders that were placed found in the orders table?
SPECIFICATION Spec
CONSTANTS
  Unit = 1000
  HalfCent = 5
  KMin = 200
  KMax = 1000
  TauMin = 50
  TauMax = 900
  EpsMin = 10
  EpsMax = 40
  EMax = 350
  RiskLimit = 15000000
  MaxStepRisk = 10000000
  MinSize = 10000
  MarketTime = 2
  PowAlpha <- MCPowAlpha
  Quotes <- MCQuotes
  StopTTE = 0
  MaxOrders = 2
  MaxRestarts = 0
INVARIANTS
  OrdersPersisted
CHECK_DEADLOCK FALSE
