CONSTANTS
  pair = pair
  a1 = a1
  a2 = a2
  b1 = b1
  b2 = b2
  p = p
  x = x
  Frames = {a1, a2, b1}
  ChannelOf <- TwoRows
  Before <- InOrder
  Groups = {pair}
  Channels <- OneGroup
  Failures = {x}
  FailsAtOnce = {}
  Panics = {}
  RejectCap = 1
  UnsubscribeCap = 1
  Setup <- TestOrder
  EarlyClose = FALSE
  SleepOutlastsWrite = TRUE
SPECIFICATION FairSerial
CHECK_DEADLOCK FALSE
INVARIANTS SerialTypeOK BagsAligned
PROPERTIES AcceptedIsDone
