CONSTANTS
  max_write_queue_size = 2
  write_queue_overflow_limit = 2
  MaxMsgs = 2
  MaxConns = 2
SPECIFICATION Spec
CHECK_DEADLOCK FALSE
INVARIANT OwnMessagesOnly
