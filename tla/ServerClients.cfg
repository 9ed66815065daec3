SPECIFICATION FairSpec
CONSTANTS
  Clients <- TwoClients
  Nobody = Nobody
  Application = Application
  c1 = c1
  c2 = c2
  NOFILE = 2
  FD_SETSIZE = 2
  Files = 1
  ReadMax = 4
  REPEAT_SEND_TIMES <- Attempts
  Calls <- FewCalls
  Leavers = {c1}
INVARIANTS
  TypeOK
  TableIsExact
  NobodyPassedOver
  CurIsNewest
  AckGoesHome
  SuccessesAreDealt
  CallbacksInOrder
  RepeatsNeedAnotherClient
PROPERTIES EveryClientServed
CHECK_DEADLOCK FALSE
