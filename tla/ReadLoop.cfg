CONSTANTS
  Base = 2
  MAX_PACKET_SIZE = 2
  kMaxResyncScan = 2
  ABSOLUTE_MAX_BUFFER = 5
  ReadSize = 3
  max_task_queue = 1
  MaxConns = 2
  MaxBytes = 6
  MaxCloses = 1
SPECIFICATION FairSpec
CHECK_DEADLOCK FALSE
INVARIANTS
  TypeOK
  OneLoop
  ChunkIndependent
  Bounded
  DropCloses
PROPERTY KeepsListening
