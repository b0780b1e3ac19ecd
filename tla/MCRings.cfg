\* A ring of four statuses, messages of three; a response ring of three slots;
\* one receive descriptor, so that the queue runs dry and frames are lost.
SPECIFICATION AllSpec
CONSTANTS
  CARL9170_TX_STATUS_NUM = 4
  CARL9170_RSP_TX_STATUS_NUM = 3
  MaxFrames = 11
  CARL9170_INT_RQ_CACHES = 3
  Space = 24
  Lens = {0, 8}
  MaxMsgs = 6
  RxDescs = 1
  BackReqs = 1
  UintWrap = 65536
  Kinds <- MCKinds
  Filters <- MCFilters
  MaxBars = 0
  MaxTicks = 1
  MaxArrived = 3
INVARIANTS HostInOrder InOrderUntilOverflow DescriptorExclusive
PROPERTIES StatusReported MessagesRead AllReturn
\* The bounds on what comes in are reached.
CHECK_DEADLOCK FALSE
