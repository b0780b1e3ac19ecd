\* Two frames of one aggregate.
SPECIFICATION Spec
CONSTANTS
  NumQueues = 2
  VO = 1
  MaxRix = 3
  MaxBas = 1
  Kinds <- MCAggregated
  MaxFrames = 2
  MaxBars = 1
  NULL = NULL
\* The bounds on the frames are reached.
CHECK_DEADLOCK FALSE
INVARIANTS FrameOrder
