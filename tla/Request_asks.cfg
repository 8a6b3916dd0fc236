CONSTANTS
  a1 = a1
  a2 = a2
  n1 = n1
  n2 = n2
  n3 = n3
  Askers <- TwoAskers
  Ids <- TwoIds
  FirstSets <- TwoOfThem
  MaxBuckets = 2
  Dying = {n1}
SPECIFICATION FairSpec
CHECK_DEADLOCK FALSE
INVARIANTS TypeOK IndexInRange SentToBucket
PROPERTIES RoundRobin AskReturns
