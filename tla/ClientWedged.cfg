CONSTANTS
  heartbeat_miss_limit = 3
  MaxConnects = 2
  MaxNG = 0
  MaxData = 0
  MaxQueue = 3
SPECIFICATION Spec
CHECK_DEADLOCK FALSE
INVARIANT LoginOnItsWay
