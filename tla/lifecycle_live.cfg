\* One market; the exchange keeps its end date.  A hanging call stops a shutdown.
SPECIFICATION FairSpec
CONSTANTS
  m1 = m1
  Markets = {m1}
  Relistable = {}
  MaxFaults = 2
  MaxStops = 2
PROPERTIES
  ShutdownCompletes
  StoredMarketsResolve
  ResolvedMarketsRedeem
CHECK_DEADLOCK FALSE
