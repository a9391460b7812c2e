CONSTANTS
  Workers = {w1}
  Acceptor = acc
  PoolSize = 0
  MaxSize = 1
  MaxUnauth = 1
  MaxConns = 2
SPECIFICATION Spec
CHECK_DEADLOCK FALSE
INVARIANTS
  NoDoubleRelease
