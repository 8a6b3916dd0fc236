CONSTANTS
  c1 = c1
  c2 = c2
  Callers <- TwoCallers
  RollingBucketsNum = 2
  RequestVolumeThreshold = 3
  SleepWindow = 1
  MaxErrors = 2
  MaxPings = 1
  Faults = {"lost", "foreign"}
SPECIFICATION FairSpec
INVARIANTS TypeOK OneProbe TotalWithinOne
PROPERTIES Recovers
