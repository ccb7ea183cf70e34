\* The parameters of config.example.yaml, three digits after the point.
SPECIFICATION Spec
CONSTANTS
  Unit = 1000
  HalfCent = 5
  KMin = 200
  KMax = 1000
  TauMin = 50
  TauMax = 900
  EpsMin = 10
  EpsMax = 40
  EMax = 350
  RiskLimit = 15000000
  MaxStepRisk = 10000000
  MinSize = 10000
  MarketTime = 4
  PowAlpha <- MCPowAlpha
  Steps = 5
  Early = 2
INVARIANTS
  SignalsInBounds
  PriceFromBidToAsk
  SizingEndsAsTheLoop
PROPERTIES
  FavouredSignalStays
CHECK_DEADLOCK FALSE
