CONSTANTS
  Actions <- Corners
  FifoDepth = 2
  Max = 1
  Boards <- GoodAndBad
  Restarts = 1
  MaxEvents = 4
SPECIFICATION FairSpec
INVARIANTS
  OutputFaithful
  LossReported
  Accounted
PROPERTIES
  Drains
