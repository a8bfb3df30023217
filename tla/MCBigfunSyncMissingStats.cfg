CONSTANTS
  Loops <- AllLoops
  MaxDocs = 1
  UserDocs = 1
  MaxGaps = 1
SPECIFICATION Spec
INVARIANT SyncedOnlyWhenCaughtUp
CHECK_DEADLOCK FALSE
