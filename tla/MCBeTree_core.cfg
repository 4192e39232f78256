SPECIFICATION GrownSpec
CONSTANTS
  max_node_size = 3
  min_flush_size = 1
  Keys = {1, 2, 3, 4, 5}
  NULL = NULL
  TracksDirty = TRUE
  Abort = Abort
  MaxTimestamp = 99
  MaxOps = 6
  MaxCacheSteps = 1
  MaxRestarts = 1
  FirstKeys <- Few
  LaterOps = {0, 1, 2}
  LaterKeys = {1, 2, 4}
INVARIANTS BeTreeTypeOk QueryIsExpected ScansAreExpected NewerAbove KeysWithinPivots LeavesHoldInserts
CHECK_DEADLOCK FALSE
