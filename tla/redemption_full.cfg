\* Two conditions, one of which need not be reported.
SPECIFICATION FairSpec
CONSTANTS
  c1 = c1
  c2 = c2
  Conditions = {c1, c2}
  Unreported = {c2}
  Prices <- MovingPrices
  NonceSpace = 4
  MaxFaults = 2
  MaxStops = 1
INVARIANTS
  TypeOK
  RecordedMeansPaid
  OnePending
  UndisturbedNeverCollides
  RepeatsAreOwed
PROPERTIES
  ReportedMarketsRedeem
