CONSTANTS
  c1 = c1
  c2 = c2
  Conns = {c1, c2}
  Servers = {c1}
  Streams <- Mixed
  HeadLength = 2
  BufLength = 3
  LimitSize = 4
  LimitRate = 4
  HeadInPieces = FALSE
  SlowLoops = FALSE
SPECIFICATION FairSpec
CHECK_DEADLOCK FALSE
INVARIANTS TypeOK RoutedInOrder
PROPERTIES ReadsAll
