CONSTANTS
  f1 = f1
  f2 = f2
  f3 = f3
  f4 = f4
  Frames <- ThreeFrames
  FrameLen <- ThreeLens
  NilErrFunc = {}
  BytesPoolLenght = 6
  FrameHeadLength = 2
  busyLimit = 0
  MaxSlots = 3
  SleepOutlastsLoad = TRUE
  LateStateEvents = FALSE
SPECIFICATION FairSpec
CHECK_DEADLOCK FALSE
INVARIANTS DisjointFrames NoLateCommit AcceptedIsWritten
PROPERTIES CloseCompletes CopiedIsFlushed
