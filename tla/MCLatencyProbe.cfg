CONSTANTS
  Key = k
  OtherKeys = {o1}
  RecLimit = 3
  MaxTime = 3
  NoTime = NoTime
SPECIFICATION Spec
INVARIANT KeyAlwaysInWindow
INVARIANT LatencyNeverOverstated
PROPERTY ProbeCompletes
PROPERTY RaceSpec
CHECK_DEADLOCK FALSE
