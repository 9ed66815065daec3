\* Both processes send; reads hold two frames; spurious wakeups.
SPECIFICATION Spec
CONSTANTS
  c1 = c1
  c2 = c2
  s1 = s1
  Threads <- OneEach
  Home <- HomeOf
  MaxCalls = 1
  MaxRead = 2
  SEQ_LIMIT = 3
  REPEAT_SEND_TIMES = 1
  MAX_QUEUE_NUM = 1
  SpuriousWakeups = TRUE
  NULL = null
INVARIANTS AckAfterAccept NoForgery IInv
CHECK_DEADLOCK FALSE
