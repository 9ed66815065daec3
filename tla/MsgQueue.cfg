\* Two producers, a dealer and a stopper; the queue overflows at one packet
\* and three exist.
SPECIFICATION FairSpec
CONSTANTS
  Producers = {p1, p2}
  Dealer = deal
  Stopper = stop
  Packets = {m1, m2, m3}
  MAX_QUEUE_NUM = 2
  NULL = null
INVARIANTS TypeOK NoLostWakeup NullOnlyWhenEmpty
PROPERTIES FifoSpec CancelUnblocks EveryPacketDealt
