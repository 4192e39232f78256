SPECIFICATION Spec
CONSTANTS
  Data = {0}
  NoData = 0
  NULL = NULL
  MaxInMemory = 1
  CounterModulus = 8
  MaxId = 6
  MaxVersion = 2
  MaxPins = 2
  MaxHandles = 1
  MaxCrashes = 0
VIEW UpToAccessTimes
INVARIANTS SwapTypeOk RefCountsExact NoDanglingPointer PinnedIsResident LeafFlagIsTrue QueueIsResident
CHECK_DEADLOCK FALSE
