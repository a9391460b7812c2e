CONSTANTS
  Requests = {r1}
  max_retries = 2
  MaxThrows = 1
SPECIFICATION FairSpec
PROPERTY CallersAnswered
CHECK_DEADLOCK FALSE
