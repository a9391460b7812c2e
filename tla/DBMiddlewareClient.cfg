CONSTANTS
  heartbeat_miss_limit = 2
  MaxConnects = 2
  MaxNG = 1
  MaxData = 1
  MaxQueue = 3
SPECIFICATION FairSpec
CHECK_DEADLOCK FALSE
INVARIANTS
  TypeOK
  OneWrite
  NotStranded
  HeartbeatAlive
  StaleNoticed
PROPERTY RetriesForever
