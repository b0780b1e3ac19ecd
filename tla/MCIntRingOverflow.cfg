SPECIFICATION Spec
CONSTANTS
  CARL9170_INT_RQ_CACHES = 3
  Space = 24
  Lens = {0, 8}
  MaxMsgs = 6
INVARIANTS QueueOrder
CHECK_DEADLOCK FALSE
