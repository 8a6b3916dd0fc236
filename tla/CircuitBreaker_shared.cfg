CONSTANTS
  c1 = c1
  c2 = c2
  Callers <- OneCaller
  RollingBucketsNum = 1
  RequestVolumeThreshold = 2
  SleepWindow = 2
  MaxErrors = 2
  MaxPings = 2
  Faults = {"foreign"}
SPECIFICATION Spec
PROPERTIES ClosesOnOwnProbe
