SPECIFICATION Spec
CONSTANTS
  NULL = NULL
  max_in_memory_objects = 1
  MaxId = 3
  MaxStores = 3
  MaxPins = 2
  MaxHandles = 2
VIEW UpToTimesAndOldFiles
INVARIANTS LegacyTypeOk CountsArePointers PinsHold OneFilePerObject
PROPERTIES GrowsOnlyWhenPinned LegacyHeapSpec
CHECK_DEADLOCK FALSE
