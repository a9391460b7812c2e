CONSTANTS
  Sessions = {s1, s2}
  Nicknames = {n1, n2}
  Threads = {t1}
  None = None
  NoName = NoName
  max_sessions = 2
  MaxConns = 3
  MaxLogins = 2
SPECIFICATION Spec
CHECK_DEADLOCK FALSE
INVARIANT NamesakesOnly
