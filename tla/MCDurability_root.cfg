SPECIFICATION Spec
CONSTANTS
  LogGranularity = 2
  Opcodes = {0}
  Granularities <- SameGranularity
  MaxOps = 6
  MaxCrashes = 2
INVARIANTS RecoveryFindsRoot
