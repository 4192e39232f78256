SPECIFICATION GrownSpec
CONSTANTS
  max_node_size = 5
  min_flush_size = 2
  Keys = {1, 2, 3, 4, 6, 8, 10, 12, 14}
  NULL = NULL
  TracksDirty = FALSE
  Abort = Abort
  MaxTimestamp = 99
  MaxOps = 10
  FirstKeys <- Climb
  LaterKeys = {1, 3, 8}
INVARIANTS QueryIsExpected ScansAgree TreeInOrder NodesFit
CHECK_DEADLOCK FALSE
