CONSTANTS
  Key = k
  OtherKeys = {o1}
  RecLimit = 3
  MaxTime = 3
  NoTime = NoTime
SPECIFICATION Spec
INVARIANT LatencyIsMatchDelay
CHECK_DEADLOCK FALSE
