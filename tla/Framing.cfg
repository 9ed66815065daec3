SPECIFICATION Spec
CONSTANTS
  HEAD <- Head3
  TAIL <- Tail2
  SEQ_WIDTH = 1
  LEN_WIDTH = 1
  BASE = 10
  SOCKET_MAX_SIZE = 17
  NUL = 40
  Leftovers = {1}
  Packets <- Sample
  TornAt = {1, 6}
  MaxSends = 3
INVARIANTS
  TypeOK
  CalmExact
  ForgedAcrossFrames
  InOrderOnce
  SpillIsTheTypeByte
CHECK_DEADLOCK FALSE
