CONSTANTS
  Self = self
  n1 = n1
  n2 = n2
  Nodes <- TwoNodes
  MaxWorkNumber = 3
  ChanCap = 3
  MaxSubscribes <- NoPuts
  Prompt = TRUE
SPECIFICATION Spec
CHECK_DEADLOCK FALSE
SYMMETRY Alike
INVARIANTS UniqueIds SessionsAgree
PROPERTIES ClosedStaysDie
