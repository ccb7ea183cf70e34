\* The report of Engine.Stop.
SPECIFICATION Spec
CONSTANTS
  m1 = m1
  Markets = {m1}
  Relistable = {}
  MaxFaults = 0
  MaxStops = 1
INVARIANTS
  AllMarketsClosed
