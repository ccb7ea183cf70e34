\* Two markets, both of which may be listed again after their end.
SPECIFICATION Spec
CONSTANTS
  m1 = m1
  m2 = m2
  Markets = {m1, m2}
  Relistable = {m1, m2}
  MaxFaults = 1
  MaxStops = 2
SYMMETRY Symmetry
INVARIANTS
  TypeOK
  WorkersServeOpenRecords
  WaitGroupCountsWorkers
  RedeemedMeansPaid
  RedemptionsAreDue
PROPERTIES
  RecordSpec
  OnlyFaultsStrand
CHECK_DEADLOCK FALSE
