\* Three calls of four kinds and a message of the firmware's own; three frames
\* and one transfer in flight, so that both limits are met and the cookie wraps;
\* two devices, a bulk receive transfer besides the interrupt one, two failing calls.
SPECIFICATION AllSpec
CONSTANTS
  Kinds <- MCKinds
  MaxCalls = 3
  MaxTraps = 1
  f1 = f1
  f2 = f2
  f3 = f3
  DmaChunks = 4
  MaxUrbs = 1
  Cookies = 3
  MayFail = FALSE
  MaxLeaks = 0
  Devs = {d1, d2}
  MaxCtx = 3
  NRx = 1
  MaxFails = 2
  CanBeLate = TRUE
  Cmd = "all"
INVARIANTS OwnAnswer StuckBehindLateAnswer ContextsServed
PROPERTIES FramesComeBack CallsEnd
\* The calls are used up, the driver is closed, or the program has ended.
CHECK_DEADLOCK FALSE
