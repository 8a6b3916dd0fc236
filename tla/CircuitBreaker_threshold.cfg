CONSTANTS
  c1 = c1
  c2 = c2
  Callers <- OneCaller
  RollingBucketsNum = 2
  RequestVolumeThreshold = 3
  SleepWindow = 2
  MaxErrors = 2
  MaxPings = 2
  Faults = {}
SPECIFICATION Spec
INVARIANTS TripsAtThreshold
