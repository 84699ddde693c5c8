\* A waiter is taken off the queue and not granted.
SPECIFICATION PoolSpec
CONSTANTS
  Clients = {c1, c2, c3}
  Conns = {k1, k2, k3}
  NoConn = NoConn
  MaxSize = 1
  MinIdles = {0, 1}
  Timers = TRUE
  SweepAlone = TRUE
INVARIANTS WaitersAreQueued
CHECK_DEADLOCK FALSE
