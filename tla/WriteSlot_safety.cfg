CONSTANTS
  f1 = f1
  f2 = f2
  f3 = f3
  f4 = f4
  Frames <- FourFrames
  FrameLen <- FitLens
  NilErrFunc = {f4}
  BytesPoolLenght = 6
  FrameHeadLength = 1
  busyLimit = 0
  MaxSlots = 3
  SleepOutlastsLoad = TRUE
  LateStateEvents = FALSE
SPECIFICATION Spec
CHECK_DEADLOCK FALSE
SYMMETRY Alike
INVARIANTS TypeOK HandedOverOnce WholeFrames
