CONSTANTS
  Loops <- AllLoops
  MaxDocs = 1
  UserDocs = 1
  MaxGaps = 1
SPECIFICATION Spec
INVARIANT TypeOK
INVARIANT CaughtUpWhenCounted
PROPERTY BackoffNeverShrinks
PROPERTY Termination
CHECK_DEADLOCK FALSE
