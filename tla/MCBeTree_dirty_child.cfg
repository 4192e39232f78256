SPECIFICATION GrownSpec
CONSTANTS
  max_node_size = 5
  min_flush_size = 2
  Keys = {2, 3, 4, 5, 6, 7, 8, 9, 10, 11, 12, 13, 14, 15}
  NULL = NULL
  TracksDirty = TRUE
  Abort = Abort
  MaxTimestamp = 99
  MaxOps = 18
  MaxCacheSteps = 2
  MaxRestarts = 0
  FirstKeys <- Climb
  LaterOps = {2}
  LaterKeys = {2, 5}
INVARIANT NothingBufferedForDirtyChild
CHECK_DEADLOCK FALSE
