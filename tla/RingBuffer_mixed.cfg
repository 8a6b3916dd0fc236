CONSTANTS
  p1 = p1
  p2 = p2
  f1 = f1
  f2 = f2
  f3 = f3
  f4 = f4
  f5 = f5
  f6 = f6
  Producers <- OneProducer
  Stream <- OneStream
  FrameLen <- MixedLens
  ringBufferSize = 4
SPECIFICATION Spec
CHECK_DEADLOCK FALSE
INVARIANTS TakenInOrder
