CONSTANTS
  dialled = dialled
  node = node
  Clients = {dialled}
  Accepted = {node}
  Nodes = {node}
  Talkers = {}
  Callers = {node}
  NodeCap = 2
  ChannelCap = 2
  Subscribed = 1
  Events = 0
SPECIFICATION FairSpec
CHECK_DEADLOCK FALSE
INVARIANTS TypeOK ClosedAfterUsers
PROPERTIES ShutdownEnds
