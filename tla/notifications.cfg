\* Two goroutines that log and three that send.
SPECIFICATION FairSpec
CONSTANTS
  l1 = l1
  l2 = l2
  s1 = s1
  s2 = s2
  s3 = s3
  Loggers = {l1, l2}
  Senders = {s1, s2, s3}
  MaxFaults = 2
INVARIANTS
  TypeOK
  EngineStartsReady
  BurstBounded
PROPERTIES
  StartsInTheEnd
  ShutdownSilences
