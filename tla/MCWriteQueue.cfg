SPECIFICATION FairSpec
CONSTANTS
  MaxBinaryFrames = 2
  MaxQueuedBytes = 4
  MaxTextFrames = 1
  BinarySizes = {1, 3, 5}
  TextSizes = {2}
  MaxFrames = 5
INVARIANTS TypeOK WriteOwnership BacklogOwned FramesCounted BytesCounted FrameLimits Accounted
PROPERTIES ImplementsLossyFifo FramesLeave
CHECK_DEADLOCK FALSE
