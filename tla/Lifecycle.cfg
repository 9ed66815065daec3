\* Two connections one after the other, a sender, a descriptor to reuse.
SPECIFICATION TalkingPeerSpec
CONSTANTS
  Senders = {s1}
  MaxObjects = 2
  MaxFd = 2
  FD_SETSIZE = 1
  MaxMsgs = 1
  APP = APP
INVARIANTS TypeOK ThreadsHaveTheirObject OnlyFailedStartsLeak ClosedOnce DiesOnlyThroughStop LiveSocketIsOwn
PROPERTY StopReturnsWhenLooping
CHECK_DEADLOCK FALSE
