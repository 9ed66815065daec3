\* One connection, under fairness and with a talking peer.
SPECIFICATION TalkingPeerSpec
CONSTANTS
  Senders = {}
  MaxObjects = 1
  MaxFd = 1
  FD_SETSIZE = 1
  MaxMsgs = 1
  APP = APP
PROPERTY StopReturns
CHECK_DEADLOCK FALSE
