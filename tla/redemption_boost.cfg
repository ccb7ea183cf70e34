\* The price boost of a retry, under a steady gas price.
SPECIFICATION Spec
CONSTANTS
  c1 = c1
  c2 = c2
  Conditions = {c1, c2}
  Unreported = {}
  Prices <- SteadyPrices
  NonceSpace = 4
  MaxFaults = 2
  MaxStops = 0
INVARIANTS
  RetriesReplace
