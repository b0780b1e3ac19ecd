\* Three frames that fall back or are BlockAck requests, and two requests answered.
SPECIFICATION Spec
CONSTANTS
  NumQueues = 2
  VO = 1
  MaxRix = 3
  MaxBas = 1
  Kinds <- MCTwoKinds
  MaxFrames = 3
  MaxBars = 2
  NULL = NULL
INVARIANTS FramesAccounted KeptIsLive
\* The bounds on the frames are reached.
CHECK_DEADLOCK FALSE
