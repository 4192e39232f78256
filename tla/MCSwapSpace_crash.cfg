SPECIFICATION Spec
CONSTANTS
  Data = {0, 1}
  NoData = 0
  NULL = NULL
  MaxInMemory = 1
  CounterModulus = 8
  MaxId = 4
  MaxVersion = 2
  MaxPins = 1
  MaxHandles = 1
  MaxCrashes = 2
VIEW UpToAccessTimes
INVARIANTS CleanMatchesFile SwapInvariant
PROPERTIES HeapSpec
CHECK_DEADLOCK FALSE
