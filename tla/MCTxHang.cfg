\* Two queues, two frames (one that falls back to a second rate, one
\* BlockAck request of the host), one reset that nobody needs; a circuit
\* of one block of one or two descriptors.
SPECIFICATION AllSpec
CONSTANTS
  NumQueues = 2
  VO = 1
  MaxRix = 3
  MaxBas = 1
  Kinds <- MCKinds
  MaxFrames = 2
  MaxBars = 0
  NULL = NULL
  TxMacReset = 2
  MaxRateTries = 7
  MaxForced = 1
  MaxLen = 2
INVARIANTS KilledOnlyWhenHung KilledFails
PROPERTIES AllReported SpareComesBack
\* The bound on the frames is reached.
CHECK_DEADLOCK FALSE
