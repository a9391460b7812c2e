CONSTANTS
  max_write_queue_size = 2
  write_queue_overflow_limit = 2
  MaxMsgs = 4
  MaxConns = 2
SPECIFICATION Spec
CHECK_DEADLOCK FALSE
INVARIANTS
  TypeOK
  OneWriter
  KeepsWriting
  InOrder
  LossIsOverflow
