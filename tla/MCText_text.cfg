SPECIFICATION Spec
CONSTANTS
  Keys <- LogKeys
  Values <- LogValues
  MaxRecords = 3
  Pages <- PageNodes
INVARIANTS ReplayIsExpected CutAddsOneCall LeafFlagFromText
PROPERTIES PageComesBack
CHECK_DEADLOCK FALSE
