CONSTANTS
  f1 = f1
  f2 = f2
  f3 = f3
  f4 = f4
  Frames <- ThreeFrames
  FrameLen <- HeaderLens
  NilErrFunc = {}
  BytesPoolLenght = 6
  FrameHeadLength = 2
  busyLimit = 0
  MaxSlots = 3
  SleepOutlastsLoad = TRUE
  LateStateEvents = FALSE
SPECIFICATION Spec
CHECK_DEADLOCK FALSE
INVARIANTS RejectsInRange
