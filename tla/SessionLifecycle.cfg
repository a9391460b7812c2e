CONSTANTS
  Workers = {w1, w2}
  Acceptor = acc
  PoolSize = 0
  MaxSize = 1
  MaxUnauth = 0
  MaxConns = 3
SPECIFICATION FairSpec
CHECK_DEADLOCK FALSE
INVARIANTS
  TypeOK
  FreeListSound
  EntriesMatchGrants
  SingleOwner
  NeverWedged
PROPERTIES
  RemovedReturns
  ImplementsPool
