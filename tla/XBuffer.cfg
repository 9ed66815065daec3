\* Words below 8 and steps of 1, 2 and 3: sizes wrap after a few calls.
SPECIFICATION Spec
CONSTANTS
  Bytes = {0, 1}
  ZERO = 0
  WORD = 8
  DefaultIncrease = 2
  Increases = {0, 1, 3}
  MaxAppend = 4
  MaxSize = 6
  NULL = NULL
INVARIANTS TypeOK OverrunOnlyAtWrap
PROPERTY ByteQueueSpec
CHECK_DEADLOCK FALSE
