\* The limit on the risk, across a restart.
SPECIFICATION Spec
CONSTANTS
  Unit = 1000
  HalfCent = 5
  KMin = 200
  KMax = 1000
  TauMin = 50
  TauMax = 900
  EpsMin = 10
  EpsMax = 40
  EMax = 350
  RiskLimit = 15000000
  MaxStepRisk = 10000000
  MinSize = 10000
  MarketTime = 2
  PowAlpha <- MCPowAlpha
  Quotes <- MCQuotes
  StopTTE = 0
  MaxOrders = 4
  MaxRestarts = 1
INVARIANTS
  RealRiskWithinLimit
CHECK_DEADLOCK FALSE
