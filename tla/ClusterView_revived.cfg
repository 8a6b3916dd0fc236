CONSTANTS
  Self = self
  n1 = n1
  n2 = n2
  Nodes <- OneNode
  MaxWorkNumber = 2
  ChanCap = 2
  MaxSubscribes <- NoPuts
  Prompt = FALSE
SPECIFICATION Spec
CHECK_DEADLOCK FALSE
PROPERTIES ClosedStaysDie
