CONSTANTS
  IsrBuilds <- BothBuilds
  Faults <- AllFaults
  MaxThrows = 2
SPECIFICATION FairSpec
CHECK_DEADLOCK FALSE
INVARIANTS
  LatchedFrameIsFlagged
  WaitingMeansListening
  FrameEndsWait
PROPERTIES
  LatchedFrameIsRead
