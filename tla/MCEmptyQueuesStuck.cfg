CONSTANTS
  Queues = {q1, q2}
  TIMEOUT = 6
  POLLING_INTERVAL = 2
  MaxFetch = 1
  MaxValue = 1
  NoSample = NoSample
SPECIFICATION Spec
INVARIANT NoStuckAfterConvergence
CHECK_DEADLOCK FALSE
