\* One packet, one attempt.
SPECIFICATION Spec
CONSTANTS
  c1 = c1
  c2 = c2
  s1 = s1
  Threads <- OneClient
  Home <- HomeOf
  MaxCalls = 1
  MaxRead = 1
  SEQ_LIMIT = 3
  REPEAT_SEND_TIMES = 1
  MAX_QUEUE_NUM = 1
  SpuriousWakeups = FALSE
  NULL = null
INVARIANT LateAckIsHarmless
CHECK_DEADLOCK FALSE
