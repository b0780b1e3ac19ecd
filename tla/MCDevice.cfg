\* Users at the edges of every table; an address of two bytes, copied twice; a
\* device that may wake the host, and one watchdog bite; two receive descriptors,
\* three frames, and a BAR of the host.
SPECIFICATION AllSpec
CONSTANTS
  Users = {0, 1, 7, 8, 16, 31, 32, 63, 64, 67, 68}
  MaxCalls = 2
  Mac <- MCMac
  Reps = 2
  Bytes = {"ff", "m0", "m1"}
  FF = "ff"
  MaxData = 9
  STANDARD_CMDS = TRUE
  MODESWITCH = FALSE
  WOL = TRUE
  Requests <- MCRequests
  MaxCrash = 1
  RxDescs = 2
  BackReqs = 2
  UintWrap = 65536
  Kinds <- MCKinds
  Filters <- MCFilters
  MaxFrames = 3
  MaxBars = 1
  MaxTicks = 0
INVARIANTS EngineSeesWhole AnsweredInOrder NoticedBaReachesHost LifeFollowsHost MagicFound
\* Frames end, and a hang while the watchdog is off is final.
CHECK_DEADLOCK FALSE
