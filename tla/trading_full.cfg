\* Orders are matched whole, in part or not at all, replies are lost, the process crashes.
SPECIFICATION Spec
CONSTANTS
  Unit = 1000
  HalfCent = 5
  KMin = 200
  KMax = 1000
  TauMin = 50
  TauMax = 900
  EpsMin = 10
  EpsMax = 40
  EMax = 350
  RiskLimit = 15000000
  MaxStepRisk = 10000000
  MinSize = 10000
  MarketTime = 2
  PowAlpha <- MCPowAlpha
  Quotes <- MCQuotes
  StopTTE = 0
  MaxOrders = 3
  MaxRestarts = 1
INVARIANTS
  TypeOK
  BelievedRiskBounded
  RealRiskPerProcess
  PriceNearSpread
  PanicNeedsEmptyBook
PROPERTIES
  LedgerSpec
CHECK_DEADLOCK FALSE
