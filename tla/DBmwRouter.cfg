CONSTANTS
  Requests = {r1, r2}
  max_retries = 2
  MaxThrows = 2
SPECIFICATION FairSpec
INVARIANTS
  TypeOK
  Watched
  SendBudget
  CountersBalance
PROPERTIES
  ImplementsRequestReply
  Settles
CHECK_DEADLOCK FALSE
