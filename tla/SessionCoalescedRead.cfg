\* Three frames may arrive in one read.
SPECIFICATION Spec
CONSTANTS
  c1 = c1
  c2 = c2
  s1 = s1
  Threads <- OneClient
  Home <- HomeOf
  MaxCalls = 3
  MaxRead = 3
  SEQ_LIMIT = 3
  REPEAT_SEND_TIMES = 2
  MAX_QUEUE_NUM = 2
  SpuriousWakeups = FALSE
  NULL = null
INVARIANT CallbackOncePerPacket
CHECK_DEADLOCK FALSE
