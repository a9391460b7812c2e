CONSTANTS
  Sessions = {s1, s2}
  Nicknames = {n1, n2}
  Endpoints = {e1, e2}
  None = None
  Shards = {k1, k2}
  total_limit_per_sec = 2
  maxTokens = 2
  refillRatePerSec = 1
  TicksPerSec = 2
  udp_token_ttl_seconds = 0
  MaxConns = 2
  MaxPackets = 3
  MaxTime = 2
SYMMETRY Symmetry
SPECIFICATION Spec
CHECK_DEADLOCK FALSE
INVARIANTS
  TypeOK
  EndpointsAgree
  Audience
  GlobalLimit
  BucketLimit
PROPERTY DoubleChecked
