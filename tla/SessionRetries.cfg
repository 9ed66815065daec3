\* One sender, three packets, retries, a wrapping sequence number; no call is
\* open and nothing is in flight at the end.
SPECIFICATION Spec
CONSTANTS
  c1 = c1
  c2 = c2
  s1 = s1
  Threads <- OneClient
  Home <- HomeOf
  MaxCalls = 3
  MaxRead = 1
  SEQ_LIMIT = 3
  REPEAT_SEND_TIMES = 2
  MAX_QUEUE_NUM = 1
  SpuriousWakeups = FALSE
  NULL = null
INVARIANTS SuccessesAreBacked RetryNotRepeated SeqFitsItsField
PROPERTY ChannelSpec
CHECK_DEADLOCK FALSE
