CONSTANTS
  Loops <- AllLoops
  MAX_RETRY = 3
  MAX_RETRY_RECOVERY = 2
  MAX_RETRY_TIMER_EVENT = 2
  POLLING_INTERVAL = 2
  REBALANCE_TIMEOUT = 4
  MaxAnswer = 2
  NumItems = 2
  Expected = 2
  NoValue = NoValue
  Indexes = {x1, x2}
  KEYERROR_RETRIES = 2
SPECIFICATION Spec
INVARIANT TypeOK
INVARIANT SuccessOnlyOnGoodSample
INVARIANT RebalanceHangOnlyIfStalled
PROPERTY Termination
CHECK_DEADLOCK FALSE
