\* Two markets that can be traded and one that cannot, two configurations.
SPECIFICATION FairSpec
CONSTANTS
  m1 = m1
  m2 = m2
  m3 = m3
  Markets = {m1, m2, m3}
  Names <- MCNames
  Tradable = {m1, m2}
  Configs <- MCConfigs
  MinTTE = 2
  Horizon = 3
  MaxFaults = 2
  MaxRestarts = 2
INVARIANTS
  TypeOK
  WorkersHaveRows
  WorkersWereAllowed
PROPERTIES
  RecordSpec
  SavedMarketsStart
