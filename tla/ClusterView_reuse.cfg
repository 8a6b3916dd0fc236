CONSTANTS
  Self = self
  n1 = n1
  n2 = n2
  Nodes <- TwoNodes
  MaxWorkNumber = 3
  ChanCap = 2
  MaxSubscribes <- NoPuts
  Prompt = FALSE
SPECIFICATION Spec
CHECK_DEADLOCK FALSE
SYMMETRY Alike
INVARIANTS LiveIsReachable
