\* Two threads of one process send at once; iSeq wraps at 2; under fairness.
SPECIFICATION FairSpec
CONSTANTS
  c1 = c1
  c2 = c2
  s1 = s1
  Threads <- TwoClients
  Home <- HomeOf
  MaxCalls = 1
  MaxRead = 1
  SEQ_LIMIT = 2
  REPEAT_SEND_TIMES = 1
  MAX_QUEUE_NUM = 1
  SpuriousWakeups = FALSE
  NULL = null
INVARIANTS HSendHasOwner SuccessesAreBacked
PROPERTY SendReturns
CHECK_DEADLOCK FALSE
