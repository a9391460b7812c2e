CONSTANTS
  Sessions = {s1, s2}
  Nicknames = {n1, n2}
  Threads = {t1, t2}
  None = None
  NoName = NoName
  max_sessions = 1
  MaxConns = 3
  MaxLogins = 3
SYMMETRY Symmetry
SPECIFICATION Spec
CHECK_DEADLOCK FALSE
INVARIANTS
  TypeOK
  UniqueLogin
  ZoneSound
