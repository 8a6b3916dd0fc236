CONSTANTS
  j1 = j1
  j2 = j2
  j3 = j3
  j4 = j4
  w1 = w1
  w2 = w2
  NoJob = NoJob
  Jobs <- FourJobs
  Panics = {j1}
  Workers <- TwoWorkers
  MaxQueue = 2
SPECIFICATION FairSpec
CHECK_DEADLOCK FALSE
INVARIANTS TypeOK IdleListedOnce
PROPERTIES ImplementsPool JobsRun
